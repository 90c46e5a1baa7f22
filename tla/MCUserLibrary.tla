--------------------------- MODULE MCUserLibrary ---------------------------
(***************************************************************************)
(* Instances of UserLibrary: who shares a content, and what its users do.  *)
(* A behaviour keeps to one scenario.                                      *)
(***************************************************************************)
EXTENDS UserLibrary, TLC

CONSTANTS f1, f2, k1, k2, c1, c2, r1, r2

MCKBOf == (f1 :> k1) @@ (f2 :> k2)

VARIABLE scenario

\* Uploads, adoption, use and delete of KB files and library files: two KBs
\* may come to share a blob.
SharedFiles ==
    [legacy |-> {f1}, kbOf |-> MCKBOf, chats |-> {},
     ops |-> {"library", "adopt", "add", "delete", "deleteFile"}, faults |-> 0]

\* Two legacy files of the same bytes in one KB.
TwinAdoption ==
    [legacy |-> {f1, f2}, kbOf |-> (f1 :> k1) @@ (f2 :> k1), chats |-> {},
     ops |-> {"adopt", "delete", "deleteFile"}, faults |-> 0]

\* Attachments that are uploaded, refused, sent, promoted, deleted with a chat.
Conversations ==
    [legacy |-> {}, kbOf |-> f2 :> k2, chats |-> {c1, c2},
     ops |-> {"library", "chat", "refuse", "deleteChat", "add"}, faults |-> 1]

\* Attachments that nothing but the sweep takes away.
Swept ==
    [legacy |-> {}, kbOf |-> f2 :> k2, chats |-> {c1, c2},
     ops |-> {"library", "chat", "add", "delete"}, faults |-> 1]

\* One request at a time, with failures: it also stands for two of which one is
\* cut short.
Alone ==
    [legacy |-> {f1}, kbOf |-> MCKBOf, chats |-> {},
     ops |-> {"library", "chat", "adopt", "add", "delete", "deleteFile", "refuse"}, faults |-> 2]

Scenarios == {SharedFiles, TwinAdoption, Conversations, Swept, Alone}

Part(s) == INSTANCE UserLibrary WITH
    Legacy <- s.legacy, Copies <- DOMAIN s.kbOf \ s.legacy, KBOf <- s.kbOf,
    Chats <- s.chats, Ops <- s.ops, MaxFaults <- s.faults

MCInit == \E s \in Scenarios : scenario = s /\ Part(s)!Init

\* The handlers differ in their names only: the first takes what it can.
MCNext == \E s \in Scenarios :
    /\ scenario = s /\ Part(s)!Next /\ UNCHANGED scenario
    /\ At(r1, "idle") => req'[r2].at = "idle" \/ req[r2].at # "idle"
    /\ s = Alone => req'[r2].at = "idle"

MCSpec == MCInit /\ [][MCNext]_<<vars, scenario>>

\* FairSpec's fairness where one request is at work; the others need none.
MCFairSpec ==
    /\ MCSpec
    /\ WF_vars(scenario = Alone /\ Continue(r1))
    /\ \A p \in Ids : WF_vars(scenario = Alone /\ AgeBlob(p))
    /\ WF_vars(scenario = Alone /\ Sweep)

\* What an upload was promised is kept while no chat is deleted and nothing is
\* adopted (those two break it); every behaviour keeps to its scenario's types.
PromisesAreKept ==
    /\ \E s \in Scenarios : scenario = s /\ Part(s)!TypeOK
    /\ scenario = Swept => UploadIsKept

\* Whatever requests, failures and crashes leave in the user's directory goes.
OrphansGoAlone == scenario = Alone => OrphansGo
=============================================================================
