-------------------------------- MODULE LoadStage --------------------------------
(***************************************************************************)
(* What one load of a chunk promises to the pipeline: when the load        *)
(* returns it reports only records that are at the destination, all of     *)
(* them but those accepted in a request whose answer did not say so, and   *)
(* it calls itself clean only if the whole chunk is reported; when it      *)
(* raises it reports nothing; afterwards nothing arrives any more.         *)
(***************************************************************************)
CONSTANT Records

VARIABLES
    known,      \* records that were at the destination before
    arrived,    \* records the destination accepted in this load
    unsaid,     \* those it accepted, once at least, without listing them
    result,     \* "open", "returned" or "raised"
    reported,   \* the loaded records the pipeline is told of
    clean       \* no failure is reported

lvars == <<known, arrived, unsaid, result, reported, clean>>

LInit ==
    /\ known \in SUBSET Records /\ arrived = {} /\ unsaid = {}
    /\ result = "open" /\ reported = {} /\ clean = FALSE

Arrive ==
    /\ result = "open"
    /\ \E rs \in SUBSET (Records \ known) :
          /\ arrived' = arrived \cup rs
          /\ unsaid' \in {unsaid, unsaid \cup rs}
    /\ UNCHANGED <<known, result, reported, clean>>

Return ==
    /\ result = "open" /\ result' = "returned"
    /\ \E rs \in SUBSET arrived :
          /\ arrived \ rs \subseteq unsaid
          /\ reported' = known \cup rs
    /\ clean' = (reported' = Records)
    /\ UNCHANGED <<known, arrived, unsaid>>

Raise ==
    /\ result = "open" /\ result' = "raised"
    /\ UNCHANGED <<known, arrived, unsaid, reported, clean>>

LNext == Arrive \/ Return \/ Raise
LSpec == LInit /\ [][LNext]_lvars
=============================================================================
