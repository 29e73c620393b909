-------------------------- MODULE DeliveryContract --------------------------
(***************************************************************************)
(* What the event bus promises about one (consumer, event) delivery, with  *)
(* neither offsets, timers nor retries: README.md:10 "At-least-once        *)
(* delivery" and README.md:12 "Dead Letter Queue" of the event bus.  A     *)
(* delivery under way ends only as done or as failed, what is done or      *)
(* failed stays on record, and nothing ends that was not under way before. *)
(***************************************************************************)
CONSTANT Deliveries

VARIABLES outstanding, failed, done

contractVars == <<outstanding, failed, done>>

ContractInit == outstanding = {} /\ failed = {} /\ done = {}

ContractNext ==
    /\ outstanding' \cup failed' \cup done' \subseteq Deliveries
    /\ failed \subseteq failed' /\ done \subseteq done'
    /\ outstanding \ outstanding' \subseteq failed' \cup done'
    /\ failed' \cup done' \subseteq outstanding \cup failed \cup done

ContractSpec == ContractInit /\ [][ContractNext]_contractVars

=============================================================================
