------------------------------- MODULE MCMicrocap -------------------------------
(* Small instances of the Microcap delivery for TLC. *)
EXTENDS MicrocapDelivery, TLC

\* A Thursday and a Friday that are sessions, the Saturday after them; day 1 is
\* the session before.
Completed(t) ==
  CHOOSE c \in 1 .. 3 :
    /\ c < t[1] \/ (c = t[1] /\ t[2] >= 15)
    /\ \A e \in 1 .. 3 : (e < t[1] \/ (e = t[1] /\ t[2] >= 15)) => e <= c
Sessions == {1, 2, 3}
MemberInstants == {<<2, 16>>, <<2, 23>>, <<3, 0>>, <<3, 16>>}
MemberCompleted == [t \in MemberInstants |-> Completed(t)]
AfternoonInstants == {<<2, 16>>, <<2, 18>>, <<3, 16>>}
AfternoonCompleted == [t \in AfternoonInstants |-> Completed(t)]
SharedInstants == {<<2, 22>>, <<3, 1>>, <<3, 16>>}
SharedCompleted == [t \in SharedInstants |-> Completed(t)]

digest == [workflow |-> "digest", mode |-> "close_confirmed", external |-> FALSE,
           validation |-> FALSE, correction |-> FALSE, test |-> FALSE, catchUp |-> 0,
           reviewed |-> FALSE]
scheduled == [digest EXCEPT !.external = TRUE]
validation == [digest EXCEPT !.validation = TRUE]
correction == [digest EXCEPT !.correction = TRUE]
test == [digest EXCEPT !.test = TRUE]
rejectedTest == [test EXCEPT !.external = TRUE]
realtime == [digest EXCEPT !.mode = "realtime"]
catchUp(d) == [digest EXCEPT !.catchUp = d]
member == [digest EXCEPT !.workflow = "member"]
memberScheduled == [member EXCEPT !.external = TRUE]
memberReviewed == [member EXCEPT !.reviewed = TRUE]
memberRejected == [memberReviewed EXCEPT !.external = TRUE]
memberValidation == [member EXCEPT !.validation = TRUE]
memberRealtime == [member EXCEPT !.mode = "realtime"]

SharedInputs == {scheduled, catchUp(2), correction, member}
MemberInputs == {memberScheduled, memberReviewed, memberRealtime}
RerunInputs == {digest, validation, catchUp(2), realtime, correction, test, rejectedTest,
                member, memberReviewed, memberRealtime, memberValidation, memberRejected}
Hours == [digest |-> 3, member |-> 1]
RunSymmetry == Permutations(Runs)
NoLegacy == {}
OldMarker == {DailyKey(2, "close_confirmed")}
=================================================================================
