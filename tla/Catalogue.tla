------------------------------ MODULE Catalogue ------------------------------
(****************************************************************************)
(* What a node's backups promise whoever restores them, without bucket,     *)
(* index or processes: a backup becomes complete in one step, with exactly  *)
(* the files of the snapshot it took; a complete backup keeps these files   *)
(* until it is removed as a whole, in one step; nothing else ever changes   *)
(* what a restore gives.                                                    *)
(****************************************************************************)
CONSTANTS Names, Files

VARIABLES
  status,   \* status[b]: "absent", "partial" or "complete"
  content,  \* content[b]: the files a restore of b gives
  cut       \* cut[b]: {S} while a backup b of the snapshot S is under way, else {}

vars == <<status, content, cut>>

Init ==
  /\ status = [b \in Names |-> "absent"]
  /\ content = [b \in Names |-> {}]
  /\ cut = [b \in Names |-> {}]

Start(b) ==
  /\ status[b] = "absent"
  /\ status' = [status EXCEPT ![b] = "partial"]
  /\ UNCHANGED <<content, cut>>

TakeSnapshot(b, S) ==
  /\ status[b] # "absent"
  /\ cut[b] = {}
  /\ cut' = [cut EXCEPT ![b] = {S}]
  /\ UNCHANGED <<status, content>>

\* The backup fails, or its process ends.
GiveUp(b) ==
  /\ cut' = [cut EXCEPT ![b] = {}]
  /\ UNCHANGED <<status, content>>

Finish(b) ==
  /\ \E S \in cut[b] : content' = [content EXCEPT ![b] = S]
  /\ status' = [status EXCEPT ![b] = "complete"]
  /\ cut' = [cut EXCEPT ![b] = {}]

Remove(b) ==
  /\ status[b] = "complete"
  /\ cut[b] = {}
  /\ status' = [status EXCEPT ![b] = "partial"]
  /\ content' = [content EXCEPT ![b] = {}]
  /\ UNCHANGED cut

\* What is left of a removed or interrupted backup goes as well.
Clear(b) ==
  /\ status[b] = "partial"
  /\ cut[b] = {}
  /\ status' = [status EXCEPT ![b] = "absent"]
  /\ UNCHANGED <<content, cut>>

Next ==
  \E b \in Names :
    \/ GiveUp(b) \/ Start(b) \/ Finish(b) \/ Remove(b) \/ Clear(b)
    \/ \E S \in SUBSET Files : TakeSnapshot(b, S)

Spec == Init /\ [][Next]_vars
==============================================================================
