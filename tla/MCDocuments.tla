---------------------------- MODULE MCDocuments ----------------------------
(***************************************************************************)
(* Documents where it is not disturbed: Alone, one request at a time, with *)
(* time, a crash, tokens and the lifecycle; and Drained, where two         *)
(* documents share a drain that keeps being called.                        *)
(***************************************************************************)
EXTENDS Naturals

CONSTANTS None, Keep

VARIABLES
  drained,  (* which of the two                                            *)
  rows, snaps, creds, audit, pc, work, due, token, clock, commits, lost, crashes

vars == <<drained, rows, snaps, creds, audit, pc, work, due, token, clock, commits, lost, crashes>>

Alone == INSTANCE Documents WITH
  Docs <- {1}, Publishers <- {"publisher"}, Writers <- {}, Agents <- {"agent"}, Crons <- {"cron"},
  Readers <- {"publisher"}, Contents <- {"fine", "bad"}, Blocked <- {"bad"}, Expired <- {"fine"},
  OnExpire <- "unpublish", MaxPerDoc <- 2, Limit <- 1, MaxClock <- 2, MaxCommits <- 4, MaxPerTick <- 1,
  MaxInFlight <- 1, MaxCrashes <- 1

Drained == INSTANCE Documents WITH
  Docs <- {1, 2}, Publishers <- {"publisher"}, Writers <- {}, Agents <- {}, Crons <- {"cron"},
  Readers <- {}, Contents <- {"fine", "bad"}, Blocked <- {"bad"}, Expired <- {},
  OnExpire <- "delete", MaxPerDoc <- 0, Limit <- 2, MaxClock <- 0, MaxCommits <- 4, MaxPerTick <- 9,
  MaxInFlight <- 2, MaxCrashes <- 0

Init == \/ drained = FALSE /\ Alone!Init
        \/ drained = TRUE /\ Drained!Init

Next == /\ UNCHANGED drained
        /\ \/ ~ drained /\ Alone!Next
           \/ drained /\ Drained!Next

(* The fairness of Documents, for Drained.                                 *)
FairSpec ==
  /\ Init /\ [][Next]_vars
  /\ \A c \in Drained!Clients : WF_vars(drained /\ Drained!Respond(c) /\ UNCHANGED drained)
  /\ \A c \in {"cron"} :
       /\ WF_vars(drained /\ Drained!ScheduledFind(c) /\ UNCHANGED drained)
       /\ WF_vars(drained /\ (Drained!DrainBegin(c) \/ Drained!DrainSkip(c)) /\ UNCHANGED drained)
  /\ WF_vars(drained /\ Drained!Tick /\ UNCHANGED drained)

-----------------------------------------------------------------------------
(* The properties of Documents.                                            *)

(* Alone: a document is published only by a write that passed the gate.    *)
GoesLiveThroughGate == [][~ drained => Alone!GateHeld]_vars

(* Alone: a write under a token overwrites the row its caller had read.    *)
TokenProtectsReader == [][~ drained => Alone!TokenHeld]_vars

(* Alone: the drain publishes only what is scheduled and due.              *)
DrainRespectsSchedule == [][~ drained => Alone!ScheduleHeld]_vars

(* Drained: a draft whose time has come does not stay one.                 *)
ScheduledIsPublished ==
  \A d \in {1, 2} : (drained /\ Drained!Publishable(d)) ~> ~ (drained /\ Drained!Publishable(d))
=============================================================================
