----------------------------- MODULE CoreService -----------------------------
(***************************************************************************)
(* What handing a list of users to the cores amounts to, with nothing said *)
(* of files, buffers and reloads.  A writer is given a list and hands it   *)
(* to one core after the other.  Each time one of three things happens at  *)
(* once: the core serves the list, the core keeps what it served, or the   *)
(* core stops.  Which one depends on the list and the core alone, not on   *)
(* what was served before, except that a list which should not leave the   *)
(* core as it is may be handed over in vain.  CoreConfig is compared with  *)
(* this specification.                                                     *)
(***************************************************************************)
CONSTANTS
  Writers,    \* whoever hands lists over
  Cores,      \* the cores, of which this is about
  Listings,   \* the lists
  Prompt,     \* [Cores -> the lists that a core serves as soon as they are handed over]
  Kept        \* [Cores -> the lists that leave a core as it is]

VARIABLES
  served,  \* the list each core serves, as a set: {} if the core does not run
  given,   \* the list each writer was given last
  stale,   \* the cores the list that was given last was handed to in vain
  todo     \* the cores each writer has not handed it to yet

vars == <<served, given, stale, todo>>

\* What core k serves when list S was handed to it.
Outcome(k, S) ==
  IF S \in Prompt[k] THEN {S} ELSE IF S \in Kept[k] THEN served[k] ELSE {}

Init ==
  /\ served = [k \in Cores |-> {{}}]
  /\ given = [c \in Writers |-> {}]
  /\ stale = {}
  /\ todo = [c \in Writers |-> {}]

Give(c) ==
  /\ todo[c] = {}
  /\ \E S \in Listings : given' = [given EXCEPT ![c] = S]
  /\ todo' = [todo EXCEPT ![c] = Cores]
  /\ stale' = {}
  /\ UNCHANGED served

Hand(c, k) ==
  /\ k \in todo[c]
  /\ \/ /\ served' = [served EXCEPT ![k] = Outcome(k, given[c])]
        /\ stale' = IF given[c] \in Kept[k] THEN stale ELSE stale \ {k}
     \/ /\ given[c] \notin Kept[k]
        /\ served' \in {served, [served EXCEPT ![k] = {}]}
        /\ stale' = stale \union {k}
  /\ todo' = [todo EXCEPT ![c] = @ \ {k}]
  /\ UNCHANGED given

Next == \E c \in Writers : Give(c) \/ \E k \in Cores : Hand(c, k)

Spec == Init /\ [][Next]_vars
=============================================================================
