--------------------------- MODULE VersionHistory ---------------------------
(***************************************************************************)
(* What the survey service promises of a survey, requests and statements   *)
(* aside: a draft, then a growing history of releases, each different from *)
(* the one before it, open for answers or closed, and never a draft again. *)
(* (internal/domain/status.go; internal/dao/dao.go, Publish)               *)
(***************************************************************************)
EXTENDS Integers, Sequences

CONSTANTS Surveys, Contents

VARIABLES
  phase,      \* "none", "draft", "live" or "closed"
  history     \* the contents released, oldest first

Newest(h) == h[Len(h)]

Init ==
  /\ phase = [s \in Surveys |-> "none"]
  /\ history = [s \in Surveys |-> <<>>]

Draft(s) ==
  /\ phase[s] = "none"
  /\ phase' = [phase EXCEPT ![s] = "draft"]
  /\ UNCHANGED history

\* A release opens the survey, whatever it was before; the first one needs no
\* comparison.
Release(s, c) ==
  /\ phase[s] # "none"
  /\ phase[s] = "draft" <=> history[s] = <<>>
  /\ history[s] # <<>> => Newest(history[s]) # c
  /\ history' = [history EXCEPT ![s] = Append(@, c)]
  /\ phase' = [phase EXCEPT ![s] = "live"]

Close(s) ==
  /\ phase[s] = "live"
  /\ phase' = [phase EXCEPT ![s] = "closed"]
  /\ UNCHANGED history

Reopen(s) ==
  /\ phase[s] = "closed"
  /\ phase' = [phase EXCEPT ![s] = "live"]
  /\ UNCHANGED history

Next ==
  \E s \in Surveys :
    Draft(s) \/ Close(s) \/ Reopen(s) \/ \E c \in Contents : Release(s, c)

Spec == Init /\ [][Next]_<<phase, history>>
=============================================================================
