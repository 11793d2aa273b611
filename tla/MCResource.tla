----------------------------- MODULE MCResource -----------------------------
(***************************************************************************)
(* Instance of ResourceApply for TLC: contents among which every field     *)
(* makes a difference alone, none or one replica with and without what     *)
(* others add, and a number that the chart names or that others added. The *)
(* chart begins with l1 and s1 and can be edited to the others.            *)
(***************************************************************************)
EXTENDS ResourceApply

CONSTANTS l1, l2, s1, s2, port

MCContents == [labels : {l1}, spec : {s1}, replicas : 0..1, extra : {"nothing", "fields"}]
              \cup [labels : {l1}, spec : {s1}, replicas : {1}, extra : {"numbers"}]
              \cup [labels : {l1}, spec : {s2, port}, replicas : {1}, extra : {"nothing"}]
              \cup [labels : {l2}, spec : {s1}, replicas : {1}, extra : {"nothing"}]
MCInit == Init /\ wish.content.labels = l1 /\ wish.content.spec = s1

MCSpec == MCInit /\ [][Next]_vars /\ WF_vars(Step) /\ WF_vars(Sync)
=============================================================================
