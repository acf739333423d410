--------------------------- MODULE MC_Companions ---------------------------
(***************************************************************************)
(* The programs around the server, for TLC.  They do not share state, so   *)
(* one run explores each of them by itself: part is the one that runs.     *)
(***************************************************************************)
EXTENDS PortalRuns, LeaveNotice, Assistant

CONSTANTS Parts

VARIABLE part

(* One window asks twice, of two models; room for one turn and one         *)
(* conversation, so that both limits are met; a restart.                   *)
OneGemini == <<"main">>
OneGroq   == <<"groq">>

(* The collector with less room: a run opens one document and sees two of  *)
(* the list, what it cannot read is more than the memo holds, and a body   *)
(* may fail once or give values the table refuses.                         *)
Few == INSTANCE PortalRuns WITH
          Forbidden <- {2, 3}, FromTitle <- {1}, Flaky <- {1}, BodyRefused <- {1},
          MaxBodies <- 1, MaxListed <- 2

vars == <<part, portalVars, noticeVars, chatVars>>

Init ==
    /\ part \in Parts
    /\ CollectInit /\ NoticeInit /\ ChatInit

Only(p) == part = p /\ part' = p

Next ==
    \/ Only("portal") /\ CollectNext /\ UNCHANGED <<noticeVars, chatVars>>
    \/ Only("few")    /\ Few!CollectNext /\ UNCHANGED <<noticeVars, chatVars>>
    \/ Only("notice") /\ NoticeNext  /\ UNCHANGED <<portalVars, chatVars>>
    \/ Only("chat")   /\ ChatNext  /\ UNCHANGED <<portalVars, noticeVars>>

(* The fairness of the two parts that have some, asked of the part that    *)
(* runs: an action of one is paired with an action of the other.           *)
Portal(F) == Only("portal") /\ F /\ UNCHANGED <<noticeVars, chatVars>>
Chat(F)   == Only("chat") /\ F /\ UNCHANGED <<portalVars, noticeVars>>
Fairness ==
    /\ WF_vars(Portal(NewDay) \/ Chat(Shown(1)))
    /\ WF_vars(Portal(TenMinutes) \/ Chat(Handle(1)))
    /\ WF_vars(Portal(Locked("daily")) \/ Chat(Handle(2)))
    /\ SF_vars(Portal(StartRun("daily")))
    /\ SF_vars(Portal(ListDocs("daily"))) /\ SF_vars(Portal(StoreRead("daily")))

Spec == Init /\ [][Next]_vars /\ Fairness

(* What can be done is done in the end: a document that can be read is     *)
(* stored, a question to the assistant is over.                            *)
DoneInTheEnd ==
    /\ part = "portal" => StoredInTheEnd
    /\ part = "chat"   => AnsweredInTheEnd
=============================================================================
