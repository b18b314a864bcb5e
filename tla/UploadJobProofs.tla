--------------------------- MODULE UploadJobProofs --------------------------
(***************************************************************************)
(* Theorems about UploadJob: an upload is shown as completed only when the *)
(* server has all of it, and what is still to be sent is not taken away,   *)
(* whatever is lost, resent, paused, resized, cancelled or interrupted.    *)
(***************************************************************************)
EXTENDS UploadJob, Integers, FiniteSetTheorems, SequenceTheorems, TLAPS

Session == [state : Active \cup Terminal \cup {"none"}, got : SUBSET Chunks]

Jobs == [pc : JobPCs, upload : Uploads \cup {None}, initial : Permits \cup {0}, paused : BOOLEAN,
         done : BOOLEAN, cancelled : BOOLEAN, manual : BOOLEAN, auto : BOOLEAN, active : BOOLEAN]

\* The types the argument rests on; the permits are not part of it.
Shaped ==
    /\ sess \in [Uploads -> Session]
    /\ manifest \in Uploads \cup {None}
    /\ source \in [Uploads -> {"none", "good", "changed", "gone"}]
    /\ job \in Jobs
    /\ DOMAIN fut = Chunks /\ fut = [c \in Chunks |-> fut[c]]
    /\ DOMAIN announced = Uploads /\ announced = [u \in Uploads |-> announced[u]]
    /\ target \in Permits

\* Where chunks are told apart, and where the manifest names the job's upload.
Sending == {"register", "gate", "open", "greet", "next", "resuming"}
Resumable == Sending \cup {"report", "abandon", "verify", "view", "unstage"}

\* A session that is completed has every chunk.
Whole == \A u \in Uploads : sess[u].state = "completed" => sess[u].got = Chunks

\* What a future, the loop or the report takes for received has been received.
Sent ==
    /\ job.pc \notin Sending => \A c \in Chunks : fut[c] = "new"
    /\ \A c \in Chunks : fut[c] \in {"ok", "last", "have"} => c \in sess[This].got
    /\ \A c \in Chunks : fut[c] = "last" => sess[This].got = Chunks
    /\ At("report") \/ job.done => sess[This].got = Chunks

\* Which upload the job and the manifest name, and what there is of it.
Placed ==
    /\ job.pc \notin {"boot", "idle"} => This \in Uploads
    /\ job.pc \in {"boot", "idle"} => ~job.done
    /\ job.pc \in Resumable => manifest = This
    /\ job.pc \in {"init", "manifest"} => source[This] # "none"
    /\ At("manifest") => sess[This].state # "none"
    /\ manifest # None => sess[manifest].state # "none"
    /\ job.pc \in {"unstage", "forget"} => announced[This] # "none"

JobInv == Shaped /\ Whole /\ Sent /\ Placed /\ CompletedHasAll /\ SourceKept

\* What a call makes of the sessions: nothing is unreceived, nothing begins or begins again,
\* and only what has every chunk is completed.
Follows ==
    /\ sess' \in [Uploads -> Session]
    /\ \A u \in Uploads :
        /\ sess[u].got \subseteq sess'[u].got
        /\ sess[u].state # "none" => sess'[u].state # "none"
        /\ sess'[u].state \in Active => sess[u].state \in Active
        /\ sess'[u].state = "completed" => sess[u].state = "completed" \/ sess'[u].got = Chunks

LEMMA BecameFollows ==
    ASSUME Shaped, NEW u \in Uploads, NEW s \in {"paused", "uploading", "cancelled"},
           sess[u].state \in Active, Became(u, s)
    PROVE  Follows
<1>1. sess[u] \in Session /\ sess'[u] = [sess[u] EXCEPT !.state = s]
  BY DEF Shaped, Became, Session
<1>2. sess'[u] \in Session /\ sess'[u].got = sess[u].got /\ sess'[u].state = s
  BY <1>1 DEF Session, Active, Terminal
<1>3. \A v \in Uploads \ {u} : sess'[v] = sess[v]
  BY DEF Shaped, Became
<1>4. sess' \in [Uploads -> Session]
  BY <1>2, <1>3 DEF Shaped, Became
<1> QED  BY <1>2, <1>3, <1>4 DEF Follows, Active, Terminal

LEMMA SameFollows == ASSUME Shaped, UNCHANGED sess PROVE Follows
  BY DEF Shaped, Follows

LEMMA ServeFollows ==
    ASSUME Shaped, NEW u \in Uploads, NEW op \in Ops, Serve(op, u)
    PROVE  Follows
<1>1. \/ \E s \in {"paused", "uploading", "cancelled"} : sess[u].state \in Active /\ Became(u, s)
      \/ UNCHANGED sess
  BY DEF Serve, Ops, Active
<1> QED  BY <1>1, BecameFollows, SameFollows

LEMMA LandFollows ==
    ASSUME Shaped, NEW u \in Uploads, NEW c \in Chunks, NEW f \in BOOLEAN,
           sess[u].state \in Active, Land(u, c, f)
    PROVE  Follows /\ c \in sess'[u].got
<1>1. sess[u] \in Session
  BY DEF Shaped
<1>2. /\ sess'[u].got = sess[u].got \cup {c}
      /\ sess'[u].state \in Active \cup {"completed"}
      /\ sess'[u].state = "completed" => sess'[u].got = Chunks
      /\ sess'[u] \in Session
  BY <1>1 DEF Shaped, Land, Session, Active, Terminal
<1>3. \A v \in Uploads \ {u} : sess'[v] = sess[v]
  BY DEF Shaped, Land
<1>4. sess' \in [Uploads -> Session]
  BY <1>2, <1>3 DEF Shaped, Land
<1> QED  BY <1>2, <1>3, <1>4 DEF Follows, Active, Terminal

-----------------------------------------------------------------------------

\* The job stays where it is or among the phases of sending; futures are as true as before.
Onwards ==
    /\ job' \in Jobs /\ job'.upload = This
    /\ job'.pc = job.pc \/ {job.pc, job'.pc} \subseteq Sending
    /\ job'.done => job.done \/ (job.pc \in Sending /\ sess'[This].got = Chunks)
    /\ DOMAIN fut' = Chunks /\ fut' = [c \in Chunks |-> fut'[c]]
    /\ job.pc \notin Sending => fut' = fut
    /\ \A c \in Chunks :
        /\ fut'[c] \in {"ok", "last", "have"} =>
               fut[c] \in {"ok", "last", "have"} \/ c \in sess'[This].got
        /\ fut'[c] = "last" => fut[c] = "last" \/ sess'[This].got = Chunks

LEMMA OnwardsKeeps ==
    ASSUME JobInv, Follows, Onwards, UNCHANGED <<manifest, source, announced>>, target' \in Permits
    PROVE  JobInv'
<1> USE DEF JobInv, This, At
<1>1. Shaped'
  BY DEF Shaped, Follows, Onwards
<1>2. Whole'
  <2> SUFFICES ASSUME NEW u \in Uploads, sess'[u].state = "completed" PROVE sess'[u].got = Chunks
    BY DEF Whole
  <2>1. sess'[u].got \subseteq Chunks
    BY DEF Follows, Session
  <2> QED  BY <2>1 DEF Whole, Follows
<1>3. ASSUME This \in Uploads, sess[This].got = Chunks PROVE sess'[This].got = Chunks
  <2>1. sess'[This].got \subseteq Chunks
    BY <1>3 DEF Follows, Session
  <2> QED  BY <2>1, <1>3 DEF Follows
<1>4. Sent'
  <2>1. CASE job.pc \in Sending
    <3>1. This \in Uploads /\ job'.pc \in Sending /\ ~(job'.pc = "report") /\ ~(job.pc = "report")
      BY <2>1 DEF Placed, Onwards, Sending
    <3> QED  BY <2>1, <3>1, <1>3 DEF Sent, Onwards, Follows
  <2>2. CASE job.pc \notin Sending
    <3>1. job'.pc = job.pc /\ fut' = fut /\ (job'.done => job.done)
      BY <2>2 DEF Onwards
    <3>2. job.pc \in {"boot", "idle"} => ~job.done /\ job.pc # "report"
      BY DEF Placed
    <3>3. At("report") \/ job.done => This \in Uploads
      BY <3>2 DEF Placed
    <3> QED  BY <2>2, <3>1, <3>3, <1>3 DEF Sent, Onwards
  <2> QED  BY <2>1, <2>2
<1>5. Placed'
  <2>1. manifest # None => manifest \in Uploads
    BY DEF Shaped
  <2>2. CASE {job.pc, job'.pc} \subseteq Sending
    BY <2>1, <2>2 DEF Placed, Onwards, Sending, Resumable, Follows
  <2>3. CASE job'.pc = job.pc /\ job.pc \notin Sending
    BY <2>1, <2>3 DEF Placed, Onwards, Resumable, Follows
  <2> QED  BY <2>2, <2>3 DEF Onwards
<1>6. CompletedHasAll'
  <2> SUFFICES ASSUME NEW u \in Uploads, announced[u] = "completed" PROVE sess'[u].got = Chunks
    BY DEF CompletedHasAll
  <2>1. sess'[u].got \subseteq Chunks
    BY DEF Follows, Session
  <2> QED  BY <2>1 DEF CompletedHasAll, Follows
<1>7. SourceKept'
  BY DEF SourceKept, Follows
<1> QED  BY <1>1, <1>2, <1>4, <1>5, <1>6, <1>7

\* The futures are gone and the job is at `l', with what it found about its session.
Leaves(l) ==
    /\ job' = [job EXCEPT !.pc = l]
    /\ fut' = [c \in Chunks |-> "new"]
    /\ l = "report" => sess'[This].got = Chunks

LEMMA LeavesKeeps ==
    ASSUME JobInv, Follows, NEW l \in {"report", "abandon", "unstage"}, Leaves(l),
           job.pc \in Resumable,
           announced' = announced \/ announced' = [announced EXCEPT ![This] = "cancelled"],
           l = "unstage" => announced'[This] # "none",
           UNCHANGED <<manifest, source>>, target' \in Permits
    PROVE  JobInv'
<1> USE DEF JobInv, This, At
<1>0. This \in Uploads /\ manifest = This /\ job' \in Jobs /\ job'.pc = l
      /\ job'.upload = This /\ job'.done = job.done
  BY DEF Placed, Resumable, Sending, Leaves, Shaped, Jobs, JobPCs
<1>1. Shaped'
  BY <1>0 DEF Shaped, Follows, Leaves
<1>2. \A u \in Uploads : sess[u].got = Chunks => sess'[u].got = Chunks
  <2> SUFFICES ASSUME NEW u \in Uploads, sess[u].got = Chunks PROVE sess'[u].got = Chunks
    OBVIOUS
  <2>1. sess'[u].got \subseteq Chunks
    BY DEF Follows, Session
  <2> QED  BY <2>1 DEF Follows
<1>3. Whole'
  BY <1>2 DEF Whole, Follows
<1>4. Sent'
  BY <1>0, <1>2 DEF Sent, Leaves, Sending
<1>5. Placed'
  BY <1>0 DEF Placed, Resumable, Sending, Follows
<1>6. \A u \in Uploads : announced'[u] = announced[u] \/ announced'[u] = "cancelled"
  BY <1>0 DEF Shaped
<1>7. CompletedHasAll'
  BY <1>2, <1>6 DEF CompletedHasAll
<1>8. SourceKept'
  BY <1>6 DEF SourceKept, Follows
<1> QED  BY <1>1, <1>3, <1>4, <1>5, <1>7, <1>8

-----------------------------------------------------------------------------

LEMMA JobFields ==
    ASSUME Shaped
    PROVE  /\ job \in Jobs /\ job.pc \in JobPCs /\ This \in Uploads \cup {None}
           /\ \A l \in JobPCs : /\ [job EXCEPT !.pc = l] \in Jobs
                                /\ [job EXCEPT !.pc = l].pc = l
                                /\ [job EXCEPT !.pc = l].upload = This
                                /\ [job EXCEPT !.pc = l].done = job.done
           /\ NoJob \in Jobs /\ NoJob.pc = "idle" /\ ~NoJob.done
           /\ \A l \in JobPCs, u \in Uploads :
                  /\ [NoJob EXCEPT !.pc = l, !.upload = u] \in Jobs
                  /\ [NoJob EXCEPT !.pc = l, !.upload = u].pc = l
                  /\ [NoJob EXCEPT !.pc = l, !.upload = u].upload = u
                  /\ ~[NoJob EXCEPT !.pc = l, !.upload = u].done
           /\ [NoJob EXCEPT !.pc = "boot"] \in Jobs
           /\ [NoJob EXCEPT !.pc = "boot"].pc = "boot" /\ ~[NoJob EXCEPT !.pc = "boot"].done
<1>1. job \in Jobs /\ job.pc \in JobPCs /\ This \in Uploads \cup {None}
  BY DEF Shaped, Jobs, This
<1>2. ASSUME NEW l \in JobPCs
      PROVE  /\ [job EXCEPT !.pc = l] \in Jobs /\ [job EXCEPT !.pc = l].pc = l
             /\ [job EXCEPT !.pc = l].upload = This /\ [job EXCEPT !.pc = l].done = job.done
  BY <1>1 DEF Jobs, This
<1>3. NoJob \in Jobs /\ NoJob.pc = "idle" /\ ~NoJob.done
  BY DEF Jobs, NoJob, JobPCs
<1>4. ASSUME NEW l \in JobPCs, NEW u \in Uploads
      PROVE  /\ [NoJob EXCEPT !.pc = l, !.upload = u] \in Jobs
             /\ [NoJob EXCEPT !.pc = l, !.upload = u].pc = l
             /\ [NoJob EXCEPT !.pc = l, !.upload = u].upload = u
             /\ ~[NoJob EXCEPT !.pc = l, !.upload = u].done
  BY DEF Jobs, NoJob
<1>5. /\ [NoJob EXCEPT !.pc = "boot"] \in Jobs
      /\ [NoJob EXCEPT !.pc = "boot"].pc = "boot" /\ ~[NoJob EXCEPT !.pc = "boot"].done
  BY DEF Jobs, NoJob, JobPCs
<1> QED  BY <1>1, <1>2, <1>3, <1>4, <1>5

\* The sessions change under a job that does not move.
LEMMA SessionStep ==
    ASSUME JobInv, Follows, UNCHANGED <<manifest, source, announced, fut>>, target' \in Permits,
           job' \in Jobs, job'.pc = job.pc, job'.upload = This, job'.done = job.done
    PROVE  JobInv'
<1>1. Onwards
  BY DEF Onwards, JobInv, Shaped
<1> QED  BY <1>1, OnwardsKeeps DEF JobInv

LEMMA SweepStep ==
    ASSUME JobInv, NEW u \in Uploads, SrvSweep(u) PROVE JobInv'
<1>1. Follows
  BY BecameFollows DEF SrvSweep, JobInv, Active
<1> QED  BY <1>1, SessionStep DEF SrvSweep, JobInv, Shaped, gateVars, diskVars, runVars, This

LEMMA DeliverStep ==
    ASSUME JobInv, NEW u \in Uploads, NEW op \in Ops, Deliver(op, u) PROVE JobInv'
<1>1. Follows
  BY ServeFollows DEF Deliver, JobInv
<1> QED  BY <1>1, SessionStep DEF Deliver, JobInv, Shaped, gateVars, diskVars, runVars, This

LEMMA UndeliveredStep ==
    ASSUME JobInv, NEW u \in Uploads, NEW op \in Ops, Undelivered(op, u) PROVE JobInv'
<1>1. Follows
  BY SameFollows DEF Undelivered, JobInv
<1> QED  BY <1>1, SessionStep DEF Undelivered, JobInv, Shaped, gateVars, diskVars, runVars, This

LEMMA CommandStep ==
    ASSUME JobInv, NEW u \in Uploads, NEW op \in Ops, Command(op, u) PROVE JobInv'
<1>1. Follows
  BY SameFollows DEF Command, JobInv
<1>2. job' \in Jobs /\ job'.pc = job.pc /\ job'.upload = This /\ job'.done = job.done
  <2>1. Flagged(op) \in Jobs /\ Flagged(op).pc = job.pc /\ Flagged(op).upload = This
        /\ Flagged(op).done = job.done
    <3>1. job \in Jobs
      BY JobFields DEF JobInv
    <3>2. CASE op = "pause"
      BY <3>1, <3>2 DEF Flagged, Jobs, This
    <3>3. CASE op = "resume"
      BY <3>1, <3>3 DEF Flagged, Jobs, This
    <3>4. CASE op = "cancel"
      BY <3>1, <3>4 DEF Flagged, Jobs, This
    <3> QED BY <3>2, <3>3, <3>4 DEF Ops
  <2> QED  BY <2>1, JobFields DEF Command, JobInv, This
<1> QED  BY <1>1, <1>2, SessionStep DEF Command, JobInv, Shaped, gateVars, diskVars

LEMMA StalledStep ==
    ASSUME JobInv, Stalled PROVE JobInv'
<1>1. Follows
  BY SameFollows DEF Stalled, JobInv
<1>2. job' \in Jobs /\ job'.pc = job.pc /\ job'.upload = This /\ job'.done = job.done
  BY JobFields DEF Stalled, JobInv, Jobs, This
<1> QED  BY <1>1, <1>2, SessionStep DEF Stalled, JobInv, Shaped, gateVars, diskVars

LEMMA SettingStep ==
    ASSUME JobInv, NEW n \in Permits, ChangeSetting(n) \/ ApplySetting(n) PROVE JobInv'
<1>1. UNCHANGED <<sess, diskVars, runVars, announced>>
  BY DEF ChangeSetting, ApplySetting
<1>2. target' \in Permits
  BY DEF ChangeSetting, ApplySetting, SetTarget, Resize, JobInv, Shaped
<1>3. Follows
  BY <1>1, SameFollows DEF JobInv
<1> QED  BY <1>1, <1>2, <1>3, SessionStep DEF JobInv, Shaped, diskVars, runVars, This

LEMMA GrantStep ==
    ASSUME JobInv, GrantNext PROVE JobInv'
<1>1. Follows
  BY SameFollows DEF GrantNext, JobInv
<1> QED  BY <1>1, SessionStep DEF GrantNext, Grant, JobInv, Shaped, diskVars, runVars, This

-----------------------------------------------------------------------------

LEMMA RegisterStep ==
    ASSUME JobInv, Register \/ ReadTarget \/ RegisterGate PROVE JobInv'
<1>1. UNCHANGED <<sess, diskVars, fut, announced, target>>
  BY DEF Register, ReadTarget, RegisterGate, OpenGate, gateVars
<1>2. Follows
  BY <1>1, SameFollows DEF JobInv
<1>3. /\ job' \in Jobs /\ job'.upload = This /\ job'.done = job.done
      /\ {job.pc, job'.pc} \subseteq Sending
  <2>1. job \in Jobs /\ target \in Permits \cup {0}
    BY DEF JobInv, Shaped
  <2> QED  BY <2>1 DEF Register, ReadTarget, RegisterGate, Jobs, JobPCs, Sending, This, At
<1>4. Onwards
  BY <1>1, <1>3 DEF Onwards, JobInv, Shaped
<1> QED  BY <1>1, <1>2, <1>4, OnwardsKeeps DEF JobInv, Shaped, diskVars

LEMMA GreetStep ==
    ASSUME JobInv, Greet PROVE JobInv'
<1>1. This \in Uploads
  BY DEF JobInv, Placed, Greet, At
<1>2. Follows
  <2>1. Serve("resume", This) \/ UNCHANGED sess
    BY DEF Greet
  <2> QED  BY <1>1, <2>1, ServeFollows, SameFollows DEF JobInv, Ops
<1>3. /\ job' \in Jobs /\ job'.upload = This /\ job'.done = job.done
      /\ {job.pc, job'.pc} \subseteq Sending
  <2>1. \E b \in BOOLEAN : job' = [job EXCEPT !.pc = "next", !.paused = FALSE, !.auto = b]
    BY DEF Greet, JobInv, Shaped, Jobs
  <2> QED  BY <2>1 DEF Greet, JobInv, Shaped, Jobs, JobPCs, Sending, This, At
<1>4. Onwards
  BY <1>3 DEF Onwards, JobInv, Shaped, Greet
<1> QED  BY <1>2, <1>4, OnwardsKeeps DEF Greet, JobInv, Shaped, diskVars, gateVars

-----------------------------------------------------------------------------
(* The futures of the chunks.                                              *)

\* A future that is said to have sent its chunk is of one that was received.
Plain == FutStates \ {"ok", "last", "have"}

LEMMA FutureMoves ==
    ASSUME JobInv, Follows, At("next"), NEW c \in Chunks, NEW to \in FutStates,
           fut' = [fut EXCEPT ![c] = to],
           to \in {"ok", "last", "have"} =>
               fut[c] \in {"ok", "last", "have"} \/ c \in sess'[This].got,
           to = "last" => sess'[This].got = Chunks,
           job' \in Jobs, job'.upload = This, job'.pc \in Sending,
           job'.done => job.done \/ sess'[This].got = Chunks,
           UNCHANGED <<manifest, source, announced>>, target' \in Permits
    PROVE  JobInv'
<1>1. DOMAIN fut = Chunks
  BY DEF JobInv, Shaped
<1>2. fut'[c] = to /\ \A d \in Chunks \ {c} : fut'[d] = fut[d]
  BY <1>1
<1>3. Onwards
  BY <1>1, <1>2 DEF Onwards, Sending, At
<1> QED  BY <1>3, OnwardsKeeps

\* Only a job that sends has futures to move.
LEMMA AtNext ==
    ASSUME JobInv, At("next")
    PROVE  /\ This \in Uploads /\ manifest = This /\ job.pc \in Sending \cap Resumable
           /\ sess[This].got \subseteq Chunks /\ target \in Permits
           /\ job \in Jobs /\ job.upload = This
  BY DEF JobInv, Placed, Shaped, Session, At, Sending, Resumable, This

LEMMA AcquireStep ==
    ASSUME JobInv, NEW c \in Chunks, Acquire(c) \/ Send(c) \/ Fail(c) PROVE JobInv'
<1>1. /\ At("next") /\ \E to \in Plain : fut' = [fut EXCEPT ![c] = to]
      /\ UNCHANGED <<sess, manifest, source, announced, job, target>>
  BY DEF Acquire, Send, Fail, Fut, Ask, Plain, FutStates, gateVars, diskVars
<1>2. Follows
  BY <1>1, SameFollows DEF JobInv
<1> QED  BY <1>1, <1>2, AtNext, FutureMoves DEF Plain

LEMMA ReadRangeStep ==
    ASSUME JobInv, NEW c \in Chunks, ReadRange(c) PROVE JobInv'
<1>1. At("next") /\ UNCHANGED <<sess, manifest, source, announced>>
  BY DEF ReadRange, diskVars
<1>2. Follows
  BY <1>1, SameFollows DEF JobInv
<1>3. CASE Break("abandon")
  <2>1. Leaves("abandon") /\ UNCHANGED target
    BY <1>3 DEF Leaves, Break, Idle, Goto, DropAll
  <2> QED  BY <1>1, <1>2, <2>1, AtNext, LeavesKeeps
<1>4. CASE Fut(c, "queued", "check") /\ UNCHANGED <<gateVars, job, fails>>
  <2>1. fut' = [fut EXCEPT ![c] = "check"] /\ UNCHANGED <<job, target>>
    BY <1>4 DEF Fut, gateVars
  <2> QED  BY <1>1, <1>2, <2>1, AtNext, FutureMoves DEF FutStates
<1> QED  BY <1>3, <1>4 DEF ReadRange

LEMMA StopStep ==
    ASSUME JobInv, NEW c \in Chunks, Stop(c) PROVE JobInv'
<1>1. /\ At("next") /\ UNCHANGED <<sess, manifest, source>>
      /\ announced' = [announced EXCEPT ![This] = "cancelled"]
  BY DEF Stop, diskVars, Announce
<1>2. Follows
  BY <1>1, SameFollows DEF JobInv
<1>3. Leaves("unstage") /\ UNCHANGED target
  BY DEF Stop, Leaves, Break, Idle, Goto, DropAll
<1>4. announced'[This] # "none"
  BY <1>1, AtNext DEF JobInv, Shaped
<1> QED  BY <1>1, <1>2, <1>3, <1>4, AtNext, LeavesKeeps

LEMMA LearnStep ==
    ASSUME JobInv, NEW c \in Chunks, Learn(c) PROVE JobInv'
<1>1. At("next") /\ UNCHANGED <<sess, manifest, source, announced>>
  BY DEF Learn, diskVars
<1>2. Follows
  BY <1>1, SameFollows DEF JobInv
<1>3. CASE sess[This].state = "completed" /\ Break("report")
  <2>1. Leaves("report") /\ UNCHANGED target
    BY <1>1, <1>3, AtNext DEF Leaves, Break, Idle, Goto, DropAll, JobInv, Whole
  <2> QED  BY <1>1, <1>2, <2>1, AtNext, LeavesKeeps
<1>4. CASE Fut(c, "err", "check") /\ job' = [job EXCEPT !.cancelled = TRUE] /\ UNCHANGED gateVars
  <2>1. job' \in Jobs /\ job'.upload = This /\ job'.pc = job.pc /\ job'.done = job.done
    BY <1>1, <1>4, AtNext DEF Jobs, This
  <2>2. fut' = [fut EXCEPT ![c] = "check"] /\ UNCHANGED target
    BY <1>4 DEF Fut, gateVars
  <2> QED  BY <1>1, <1>2, <2>1, <2>2, AtNext, FutureMoves DEF FutStates
<1> QED  BY <1>3, <1>4 DEF Learn

LEMMA TookStep ==
    ASSUME JobInv, NEW c \in Chunks, Took(c) PROVE JobInv'
<1>1. At("next") /\ fut[c] \in {"ok", "last"} /\ UNCHANGED <<sess, manifest, source, announced>>
  BY DEF Took, diskVars
<1>2. Follows
  BY <1>1, SameFollows DEF JobInv
<1>3. fut[c] = "last" => sess'[This].got = Chunks
  BY <1>1 DEF JobInv, Sent
<1>4. CASE ~job.auto /\ fut[c] = "last"
  <2>1. Leaves("report") /\ UNCHANGED target
    BY <1>3, <1>4 DEF Took, Leaves, Break, Idle, Goto, DropAll
  <2> QED  BY <1>1, <1>2, <2>1, AtNext, LeavesKeeps
<1>5. CASE ~(~job.auto /\ fut[c] = "last")
  <2>1. /\ fut' = [fut EXCEPT ![c] = "have"] /\ UNCHANGED target
        /\ \E d \in BOOLEAN, l \in {"next", "resuming"} :
               /\ d = (fut[c] = "last")
               /\ job' = [job EXCEPT !.auto = FALSE, !.done = d, !.pc = l]
    BY <1>5 DEF Took, Release
  <2>2. job' \in Jobs /\ job'.upload = This /\ job'.pc \in Sending /\ job'.done = (fut[c] = "last")
    BY <1>1, <2>1, AtNext DEF Jobs, JobPCs, Sending, This
  <2> QED  BY <1>1, <1>2, <1>3, <2>1, <2>2, AtNext, FutureMoves DEF FutStates
<1> QED  BY <1>4, <1>5

LEMMA PutStep ==
    ASSUME JobInv, NEW c \in Chunks, Put(c) PROVE JobInv'
<1>1. /\ job.pc \in {"next", "resuming"} /\ fut[c] = "wire"
      /\ UNCHANGED <<manifest, source, announced, job, target>>
  BY DEF Put, PutOk, PutErr, InFlight, gateVars, diskVars
<1>2. This \in Uploads /\ job.pc \in Sending /\ job.upload = This
  BY <1>1 DEF JobInv, Placed, Sending, This
<1>3. Follows /\ (PutOk(c) => c \in sess'[This].got)
  <2>1. CASE PutOk(c)
    BY <2>1, <1>2, LandFollows DEF PutOk, Takes, JobInv
  <2>2. CASE PutErr(c) /\ UNCHANGED sess
    <3>1. Follows
      BY <2>2, SameFollows DEF JobInv
    <3>2. PutOk(c) => c \in sess'[This].got
      BY <2>1
    <3> QED  BY <3>1, <3>2
  <2>3. CASE PutErr(c) /\ Takes(c) /\ \E f \in BOOLEAN : Land(This, c, f)
    BY <2>3, <1>2, LandFollows DEF Takes, JobInv
  <2> QED  BY <2>1, <2>2, <2>3 DEF Put, PutErr
<1>4. \E to \in {"ok", "last", "err"} :
          /\ fut' = [fut EXCEPT ![c] = to]
          /\ to # "err" => c \in sess'[This].got
          /\ to = "last" => sess'[This].got = Chunks
  BY <1>3 DEF Put, PutOk, PutErr
<1>5. Onwards
  BY <1>1, <1>2, <1>4 DEF Onwards, JobInv, Shaped
<1> QED  BY <1>1, <1>3, <1>5, OnwardsKeeps DEF JobInv, Shaped

LEMMA AutoResumeStep ==
    ASSUME JobInv, AutoResume PROVE JobInv'
<1>1. /\ job.pc = "resuming" /\ UNCHANGED <<manifest, source, announced>> /\ This \in Uploads
      /\ job.pc \in Sending \cap Resumable /\ job \in Jobs /\ job.upload = This
  BY DEF AutoResume, At, diskVars, JobInv, Placed, Shaped, Sending, Resumable, This
<1>2. Follows
  <2>1. Serve("resume", This) \/ UNCHANGED sess
    BY DEF AutoResume
  <2> QED  BY <1>1, <2>1, ServeFollows, SameFollows DEF JobInv, Ops
<1>3. CASE job.done
  <2>1. sess'[This].got = Chunks
    <3>1. sess'[This].got \subseteq Chunks
      BY <1>1, <1>2 DEF Follows, Session
    <3> QED  BY <1>1, <1>2, <1>3, <3>1 DEF JobInv, Sent, Follows
  <2>2. Leaves("report") /\ target' \in Permits
    BY <1>3, <2>1 DEF AutoResume, Leaves, Break, Idle, Goto, DropAll, JobInv, Shaped
  <2> QED  BY <1>1, <1>2, <2>2, LeavesKeeps
<1>4. CASE ~job.done
  <2>1. job' = [job EXCEPT !.pc = "next"] /\ UNCHANGED <<fut, target>>
    BY <1>4 DEF AutoResume, Goto, gateVars
  <2>2. job' \in Jobs /\ job'.upload = This /\ job'.pc \in Sending /\ job'.done = job.done
    BY <1>1, <2>1 DEF Jobs, JobPCs, Sending, This
  <2>3. Onwards
    BY <1>1, <2>1, <2>2 DEF Onwards, JobInv, Shaped
  <2> QED  BY <1>1, <1>2, <2>1, <2>3, OnwardsKeeps DEF JobInv, Shaped
<1> QED  BY <1>3, <1>4

LEMMA ExhaustedStep ==
    ASSUME JobInv, Exhausted PROVE JobInv'
<1>1. At("next") /\ UNCHANGED <<sess, manifest, source, announced>>
  BY DEF Exhausted, diskVars
<1>2. Follows
  BY <1>1, SameFollows DEF JobInv
<1>3. sess'[This].got = Chunks
  BY <1>1, AtNext DEF Exhausted, JobInv, Sent
<1>4. Leaves("report") /\ UNCHANGED target
  BY <1>3 DEF Exhausted, Leaves, Break, Idle, Goto, DropAll
<1> QED  BY <1>1, <1>2, <1>4, AtNext, LeavesKeeps

-----------------------------------------------------------------------------
(* The phases before and after the chunks.                                 *)

\* Whatever is received stays received, and no session begins again: what holds of the
\* sessions and of the outcomes shown survives.
LEMMA OutcomesKeep ==
    ASSUME JobInv, Follows,
           \A u \in Uploads : announced'[u] = "completed" =>
               announced[u] = "completed" \/ sess'[u].got = Chunks
    PROVE  Whole' /\ CompletedHasAll' /\ \A u \in Uploads : sess[u].got = Chunks => sess'[u].got = Chunks
<1>1. ASSUME NEW u \in Uploads, sess[u].got = Chunks PROVE sess'[u].got = Chunks
  <2>1. sess'[u].got \subseteq Chunks
    BY DEF Follows, Session
  <2> QED  BY <1>1, <2>1 DEF Follows
<1> QED  BY <1>1 DEF JobInv, Whole, Follows, CompletedHasAll

\* No chunk is told apart before and after sending.
LEMMA RestingSent ==
    ASSUME JobInv, Follows, UNCHANGED fut, job.pc \notin Sending, job'.pc \notin Sending \cup {"report"},
           ~job'.done \/ (job'.done = job.done /\ job'.upload = This /\ This \in Uploads)
    PROVE  Sent'
<1>1. This \in Uploads /\ sess[This].got = Chunks => sess'[This].got = Chunks
  <2>1. This \in Uploads => sess'[This].got \subseteq Chunks
    BY DEF Follows, Session
  <2> QED  BY <2>1 DEF Follows
<1>2. \A c \in Chunks : fut'[c] = "new"
  BY DEF JobInv, Sent
<1>3. job'.done => job'.upload = This /\ sess'[This].got = Chunks
  BY <1>1 DEF JobInv, Sent
<1> QED  BY <1>2, <1>3 DEF Sent, At, This

LEMMA StartStep ==
    ASSUME JobInv, NEW u \in Uploads, StartUpload(u) PROVE JobInv'
<1>1. job' \in Jobs /\ job'.pc = "stage" /\ job'.upload = u /\ ~job'.done
  BY DEF StartUpload, Jobs, NoJob, JobPCs
<1>2. UNCHANGED <<sess, manifest, source, fut, announced, target>> /\ job.pc = "idle"
  BY DEF StartUpload, diskVars, gateVars, At
<1>3. Follows
  BY <1>2, SameFollows DEF JobInv
<1>4. Shaped'
  BY <1>1, <1>2 DEF JobInv, Shaped
<1>5. Sent'
  BY <1>1, <1>2, <1>3, RestingSent DEF Sending
<1>6. Placed'
  BY <1>1, <1>2 DEF JobInv, Placed, This, At, Resumable, Sending
<1>7. SourceKept'
  BY <1>2 DEF JobInv, SourceKept
<1> QED  BY <1>2, <1>3, <1>4, <1>5, <1>6, <1>7, OutcomesKeep DEF JobInv

LEMMA StageStep ==
    ASSUME JobInv, Stage PROVE JobInv'
<1>1. /\ This \in Uploads /\ job.pc = "stage"
      /\ UNCHANGED <<sess, manifest, fut, announced, target>>
      /\ source' = [source EXCEPT ![This] = "good"]
      /\ job' \in Jobs /\ job'.pc = "init" /\ job'.upload = This /\ job'.done = job.done
  BY JobFields DEF Stage, gateVars, At, Goto, JobInv, JobPCs, Placed
<1>2. Follows
  BY <1>1, SameFollows DEF JobInv
<1>3. \A u \in Uploads : source'[u] = source[u] \/ source'[u] = "good"
  BY <1>1 DEF JobInv, Shaped
<1>4. Shaped'
  BY <1>1 DEF JobInv, Shaped
<1>5. Sent'
  BY <1>1, <1>2, RestingSent DEF Sending
<1>6. Placed'
  BY <1>1 DEF JobInv, Placed, Shaped, This, At, Resumable, Sending
<1>7. SourceKept'
  BY <1>1, <1>3 DEF JobInv, SourceKept
<1> QED  BY <1>1, <1>2, <1>4, <1>5, <1>6, <1>7, OutcomesKeep DEF JobInv

\* An upload that was begun has a source, and its manifest is not written yet.
LEMMA InitStep ==
    ASSUME JobInv, InitUpload PROVE JobInv'
<1>1. /\ This \in Uploads /\ job.pc = "init" /\ source[This] # "none"
      /\ UNCHANGED <<manifest, source, fut, target>>
  BY DEF InitUpload, gateVars, diskVars, At, JobInv, Placed
<1>2. /\ job' \in Jobs
      /\ \/ job'.pc = "manifest" /\ job'.upload = This /\ job'.done = job.done /\ Became(This, "initialized")
         \/ job'.pc = "idle" /\ ~job'.done
  <2>1. \/ Goto("manifest") /\ Became(This, "initialized")
        \/ job' = NoJob
    BY DEF InitUpload
  <2>2. CASE Goto("manifest") /\ Became(This, "initialized")
    BY <2>2, JobFields DEF Goto, JobInv, JobPCs
  <2>3. CASE job' = NoJob
    BY <2>3, JobFields DEF JobInv
  <2> QED  BY <2>1, <2>2, <2>3
<1>3. UNCHANGED sess \/ Became(This, "initialized")
  BY DEF InitUpload
<1>4. announced' = announced \/ announced' = [announced EXCEPT ![This] = "error"]
  BY DEF InitUpload, Announce
<1>5. /\ sess' \in [Uploads -> Session]
      /\ \A u \in Uploads : \/ sess'[u] = sess[u]
                            \/ u = This /\ sess'[u].got = sess[u].got /\ sess'[u].state = "initialized"
  <2>1. CASE Became(This, "initialized")
    <3>1. sess[This] \in Session /\ sess'[This] = [sess[This] EXCEPT !.state = "initialized"]
      BY <1>1, <2>1 DEF JobInv, Shaped, Became
    <3>2. sess'[This] \in Session /\ sess'[This].got = sess[This].got /\ sess'[This].state = "initialized"
      BY <3>1 DEF Session, Active
    <3> QED  BY <2>1, <3>2 DEF JobInv, Shaped, Became
  <2> QED  BY <1>3, <2>1 DEF JobInv, Shaped
<1>6. Shaped'
  BY <1>1, <1>2, <1>4, <1>5 DEF JobInv, Shaped
<1>7. Whole'
  BY <1>5 DEF JobInv, Whole
<1>8. Sent'
  <2>1. job.done => sess'[This].got = Chunks
    BY <1>1, <1>5 DEF JobInv, Sent
  <2> QED  BY <1>1, <1>2, <2>1 DEF JobInv, Sent, Sending, At, This
<1>9. Placed'
  <2>1. Became(This, "initialized") => sess'[This].state # "none"
    BY <1>1 DEF Became, JobInv, Shaped, Session
  <2>2. manifest # None => sess'[manifest].state # "none"
    BY <1>5 DEF JobInv, Placed, Shaped
  <2> QED  BY <1>1, <1>2, <2>1, <2>2 DEF Placed, Resumable, Sending, At, This
<1>10. \A u \in Uploads : announced'[u] = announced[u] \/ announced'[u] = "error"
  BY <1>4 DEF JobInv, Shaped
<1>11. CompletedHasAll'
  BY <1>5, <1>10 DEF JobInv, CompletedHasAll
<1>12. SourceKept'
  BY <1>1, <1>5, <1>10 DEF JobInv, SourceKept
<1> QED  BY <1>6, <1>7, <1>8, <1>9, <1>11, <1>12 DEF JobInv

LEMMA ManifestStep ==
    ASSUME JobInv, WriteManifest PROVE JobInv'
<1>1. /\ This \in Uploads /\ job.pc = "manifest" /\ manifest' = This
      /\ source[This] # "none" /\ sess[This].state # "none"
      /\ UNCHANGED <<sess, source, fut, announced, target>>
      /\ job' \in Jobs /\ job'.pc = "register" /\ job'.upload = This /\ job'.done = job.done
  BY JobFields DEF WriteManifest, gateVars, At, Goto, JobInv, JobPCs, Placed
<1>2. Follows
  BY <1>1, SameFollows DEF JobInv
<1>3. Shaped'
  BY <1>1 DEF JobInv, Shaped
<1>4. Sent'
  BY <1>1 DEF JobInv, Sent, Sending, At, This
<1>5. Placed'
  BY <1>1 DEF Placed, Resumable, Sending, At, This
<1>6. SourceKept'
  BY <1>1 DEF JobInv, SourceKept
<1> QED  BY <1>1, <1>2, <1>3, <1>4, <1>5, <1>6, OutcomesKeep DEF JobInv

\* The outcome is what the session is found to be, or completed when nobody answers.
LEMMA ReportStep ==
    ASSUME JobInv, Report PROVE JobInv'
<1>1. /\ This \in Uploads /\ manifest = This /\ job.pc = "report"
      /\ sess[This].got = Chunks /\ sess[This].state # "none"
      /\ UNCHANGED <<sess, manifest, source, fut, target>>
  BY JobAssumption DEF Report, gateVars, diskVars, At, JobInv, Placed, Sent, Resumable, This
<1>2. job' \in Jobs /\ job'.pc = "unstage" /\ job'.upload = This /\ job'.done = job.done
  <2>1. job \in Jobs
    BY DEF JobInv, Shaped
  <2> QED  BY <2>1 DEF Report, Jobs, JobPCs, This
<1>3. \E s : s # "none" /\ announced' = [announced EXCEPT ![This] = s]
  BY <1>1 DEF Report, Announce
<1>4. Follows
  BY <1>1, SameFollows DEF JobInv
<1>5. announced'[This] # "none" /\ \A u \in Uploads \ {This} : announced'[u] = announced[u]
  BY <1>1, <1>3 DEF JobInv, Shaped
<1>6. Shaped'
  BY <1>1, <1>2, <1>3 DEF JobInv, Shaped
<1>7. Sent'
  BY <1>1, <1>2, <1>4, RestingSent DEF Sending
<1>8. Placed'
  BY <1>1, <1>2, <1>5 DEF JobInv, Placed, Resumable, Sending, At, This
<1>9. SourceKept'
  BY <1>1, <1>5 DEF JobInv, SourceKept
<1> QED  BY <1>1, <1>4, <1>5, <1>6, <1>7, <1>8, <1>9, OutcomesKeep DEF JobInv

LEMMA AbandonStep ==
    ASSUME JobInv, Abandon PROVE JobInv'
<1>1. /\ This \in Uploads /\ manifest = This /\ job.pc = "abandon"
      /\ UNCHANGED <<manifest, source, fut, target>>
      /\ announced' = [announced EXCEPT ![This] = "cancelled"]
      /\ job' \in Jobs /\ job'.pc = "unstage" /\ job'.upload = This /\ job'.done = job.done
  BY JobFields DEF Abandon, Announce, Goto, gateVars, diskVars, At, JobInv, JobPCs, Placed, Resumable
<1>2. Follows
  <2>1. Serve("cancel", This) \/ UNCHANGED sess
    BY DEF Abandon
  <2> QED  BY <1>1, <2>1, ServeFollows, SameFollows DEF JobInv, Ops
<1>3. announced'[This] = "cancelled" /\ \A u \in Uploads \ {This} : announced'[u] = announced[u]
  BY <1>1 DEF JobInv, Shaped
<1>4. Shaped'
  BY <1>1, <1>2 DEF JobInv, Shaped, Follows
<1>5. Sent'
  BY <1>1, <1>2, RestingSent DEF Sending
<1>6. Placed'
  BY <1>1, <1>2, <1>3 DEF JobInv, Placed, Resumable, Sending, At, This, Follows
<1>7. SourceKept'
  BY <1>1, <1>2, <1>3 DEF JobInv, SourceKept, Follows
<1> QED  BY <1>2, <1>3, <1>4, <1>5, <1>6, <1>7, OutcomesKeep DEF JobInv

\* The copies that go are of an upload whose outcome is shown.
LEMMA UnstageStep ==
    ASSUME JobInv, Unstage PROVE JobInv'
<1>1. /\ This \in Uploads /\ manifest = This /\ job.pc = "unstage" /\ announced[This] # "none"
      /\ UNCHANGED <<sess, manifest, fut, announced, target>>
      /\ source' = [source EXCEPT ![This] = "none"]
      /\ job' \in Jobs /\ job'.pc = "forget" /\ job'.upload = This /\ job'.done = job.done
  <2>1. This \in Uploads /\ manifest = This /\ job.pc = "unstage" /\ announced[This] # "none"
    BY DEF Unstage, At, JobInv, Placed, Resumable
  <2>2. UNCHANGED <<sess, manifest, fut, announced, target>>
    BY DEF Unstage, gateVars
  <2>3. source' = [source EXCEPT ![This] = "none"]
    BY <2>1, JobAssumption DEF Unstage
  <2>4. job' = [job EXCEPT !.pc = "forget"] /\ "forget" \in JobPCs
    BY DEF Unstage, Goto, JobPCs
  <2>5. job' \in Jobs /\ job'.pc = "forget" /\ job'.upload = This /\ job'.done = job.done
    BY <2>4, JobFields DEF JobInv
  <2> QED  BY <2>1, <2>2, <2>3, <2>5
<1>2. Follows
  BY <1>1, SameFollows DEF JobInv
<1>3. \A u \in Uploads \ {This} : source'[u] = source[u]
  BY <1>1 DEF JobInv, Shaped
<1>4. Shaped'
  BY <1>1 DEF JobInv, Shaped
<1>5. Sent'
  BY <1>1, <1>2, RestingSent DEF Sending
<1>6. Placed'
  BY <1>1 DEF JobInv, Placed, Resumable, Sending, At, This
<1>7. SourceKept'
  BY <1>1, <1>3 DEF JobInv, SourceKept
<1> QED  BY <1>1, <1>2, <1>4, <1>5, <1>6, <1>7, OutcomesKeep DEF JobInv

LEMMA ForgetStep ==
    ASSUME JobInv, Forget PROVE JobInv'
<1>1. /\ job.pc = "forget" /\ manifest' = None
      /\ UNCHANGED <<sess, source, fut, announced, target>>
      /\ job' \in Jobs /\ job'.pc = "idle" /\ ~job'.done
  BY JobFields DEF Forget, CloseGate, At, JobInv
<1>2. Follows
  BY <1>1, SameFollows DEF JobInv
<1>3. Shaped'
  BY <1>1 DEF JobInv, Shaped
<1>4. Sent'
  BY <1>1, <1>2, RestingSent DEF Sending
<1>5. Placed'
  BY <1>1 DEF Placed, Resumable, Sending, At, This
<1>6. SourceKept'
  BY <1>1, JobAssumption DEF SourceKept
<1> QED  BY <1>1, <1>2, <1>3, <1>4, <1>5, <1>6, OutcomesKeep DEF JobInv

-----------------------------------------------------------------------------
(* A new process.                                                          *)

\* Only what no manifest names is swept.
LEMMA BootStep ==
    ASSUME JobInv, Boot PROVE JobInv'
<1>1. /\ job.pc = "boot" /\ UNCHANGED <<sess, manifest, fut, announced, target>>
      /\ manifest \in Uploads \cup {None}
      /\ source' = [u \in Uploads |-> IF u = manifest THEN source[u] ELSE "none"]
  BY DEF Boot, gateVars, At, JobInv, Shaped
<1>2. /\ job' \in Jobs /\ ~job'.done
      /\ \/ job'.pc = "idle"
         \/ job'.pc = "verify" /\ manifest \in Uploads /\ job'.upload = manifest
  <2>1. CASE manifest = None
    BY <2>1, JobFields DEF Boot, JobInv
  <2>2. CASE manifest \in Uploads
    BY <2>2, JobAssumption DEF Boot, Jobs, NoJob, JobPCs
  <2> QED  BY <1>1, <2>1, <2>2
<1>3. Follows
  BY <1>1, SameFollows DEF JobInv
<1>4. Shaped'
  BY <1>1, <1>2 DEF JobInv, Shaped
<1>5. Sent'
  BY <1>1, <1>2, <1>3, RestingSent DEF Sending
<1>6. Placed'
  BY <1>1, <1>2 DEF JobInv, Placed, Resumable, Sending, At, This
<1>7. SourceKept'
  BY <1>1 DEF JobInv, SourceKept
<1> QED  BY <1>1, <1>3, <1>4, <1>5, <1>6, <1>7, OutcomesKeep DEF JobInv

LEMMA VerifyStep ==
    ASSUME JobInv, Verify PROVE JobInv'
<1>1. /\ This \in Uploads /\ manifest = This /\ job.pc = "verify"
      /\ UNCHANGED <<sess, manifest, source, fut, announced, target>>
      /\ job' \in Jobs /\ job'.pc \in {"view", "abandon"} /\ job'.upload = This /\ job'.done = job.done
  <2>1. PICK l \in {"view", "abandon"} : job' = [job EXCEPT !.pc = l]
    BY DEF Verify, Goto
  <2>2. job' \in Jobs /\ job'.pc = l /\ job'.upload = This /\ job'.done = job.done
    <3>1. job \in Jobs
      BY DEF JobInv, Shaped
    <3> QED  BY <2>1, <3>1 DEF Jobs, JobPCs, This
  <2> QED  BY <2>2 DEF Verify, gateVars, diskVars, At, JobInv, Placed, Resumable
<1>2. Follows
  BY <1>1, SameFollows DEF JobInv
<1>3. Shaped'
  BY <1>1 DEF JobInv, Shaped
<1>4. Sent'
  BY <1>1, <1>2, RestingSent DEF Sending
<1>5. Placed'
  BY <1>1 DEF JobInv, Placed, Resumable, Sending, At, This
<1>6. SourceKept'
  BY <1>1 DEF JobInv, SourceKept
<1> QED  BY <1>1, <1>2, <1>3, <1>4, <1>5, <1>6, OutcomesKeep DEF JobInv

\* What the session lists is taken for received, and nothing else.
LEMMA ViewStep ==
    ASSUME JobInv, View PROVE JobInv'
<1>1. /\ This \in Uploads /\ manifest = This /\ job.pc = "view"
      /\ UNCHANGED <<sess, manifest, source, announced, target>>
      /\ fut' = [c \in Chunks |-> IF c \in sess[This].got THEN "have" ELSE "new"]
  BY DEF View, gateVars, diskVars, At, JobInv, Placed, Resumable
<1>2. job' \in Jobs /\ job'.pc = "register" /\ job'.upload = This /\ job'.done = job.done
  <2>1. job \in Jobs
    BY DEF JobInv, Shaped
  <2> QED  BY <2>1 DEF View, Jobs, JobPCs, This
<1>3. Follows
  BY <1>1, SameFollows DEF JobInv
<1>4. Shaped'
  BY <1>1, <1>2 DEF JobInv, Shaped
<1>5. Sent'
  BY <1>1, <1>2 DEF JobInv, Sent, Sending, At, This
<1>6. Placed'
  BY <1>1, <1>2 DEF JobInv, Placed, Resumable, Sending, At, This
<1>7. SourceKept'
  BY <1>1 DEF JobInv, SourceKept
<1> QED  BY <1>1, <1>3, <1>4, <1>5, <1>6, <1>7, OutcomesKeep DEF JobInv

LEMMA ViewEndsStep ==
    ASSUME JobInv, ViewEnds PROVE JobInv'
<1>1. /\ This \in Uploads /\ manifest = This /\ job.pc = "view"
      /\ UNCHANGED <<sess, manifest, source, fut, target>>
  BY DEF ViewEnds, gateVars, diskVars, At, JobInv, Placed, Resumable
<1>2. \E s : /\ s \notin {"none"} /\ (s = "completed" => sess[This].state = "completed")
             /\ announced' = [announced EXCEPT ![This] = s]
  BY DEF ViewEnds, Announce, Terminal
<1>3. /\ job' \in Jobs
      /\ \/ job'.pc = "unstage" /\ job'.upload = This /\ job'.done = job.done
         \/ job'.pc = "idle" /\ ~job'.done
  <2>1. Goto("unstage") \/ job' = NoJob
    BY DEF ViewEnds
  <2>2. CASE Goto("unstage")
    BY <2>2, JobFields DEF Goto, JobInv, JobPCs
  <2>3. CASE job' = NoJob
    BY <2>3, JobFields DEF JobInv
  <2> QED  BY <2>1, <2>2, <2>3
<1>4. Follows
  BY <1>1, SameFollows DEF JobInv
<1>5. /\ announced'[This] # "none"
      /\ announced'[This] = "completed" => sess[This].got = Chunks
      /\ \A u \in Uploads \ {This} : announced'[u] = announced[u]
  BY <1>1, <1>2 DEF JobInv, Shaped, Whole
<1>6. Shaped'
  BY <1>1, <1>2, <1>3 DEF JobInv, Shaped
<1>7. Sent'
  BY <1>1, <1>3, <1>4, RestingSent DEF Sending
<1>8. Placed'
  BY <1>1, <1>3, <1>5 DEF JobInv, Placed, Resumable, Sending, At, This
<1>9. SourceKept'
  BY <1>1, <1>5 DEF JobInv, SourceKept
<1> QED  BY <1>1, <1>4, <1>5, <1>6, <1>7, <1>8, <1>9, OutcomesKeep DEF JobInv

LEMMA CrashStep ==
    ASSUME JobInv, Crash PROVE JobInv'
<1>1. /\ UNCHANGED <<sess, manifest, source, announced>> /\ target' = Default
      /\ fut' = [c \in Chunks |-> "new"]
      /\ job' \in Jobs /\ job'.pc = "boot" /\ ~job'.done
  BY JobFields DEF Crash, Idle, diskVars, JobInv
<1>2. Follows
  BY <1>1, SameFollows DEF JobInv
<1>3. Shaped'
  BY <1>1, PermitsAssumption DEF JobInv, Shaped, Permits
<1>4. Sent'
  BY <1>1 DEF Sent, At, This
<1>5. Placed'
  BY <1>1 DEF JobInv, Placed, Resumable, Sending, At, This
<1>6. SourceKept'
  BY <1>1 DEF JobInv, SourceKept
<1> QED  BY <1>1, <1>2, <1>3, <1>4, <1>5, <1>6, OutcomesKeep DEF JobInv

\* A source that changes is still there, if not what it was, or gone by another hand.
LEMMA ChangeStep ==
    ASSUME JobInv, NEW u \in Uploads, Change(u) PROVE JobInv'
<1>1. /\ UNCHANGED <<sess, manifest, fut, announced, target, job>>
      /\ \E s \in {"changed", "gone"} : source' = [source EXCEPT ![u] = s]
  BY DEF Change, gateVars, runVars
<1>2. Follows
  BY <1>1, SameFollows DEF JobInv
<1>3. \A v \in Uploads : source[v] # "none" => source'[v] # "none"
  BY <1>1 DEF JobInv, Shaped
<1>4. Shaped'
  BY <1>1 DEF JobInv, Shaped
<1>5. Sent'
  BY <1>1 DEF JobInv, Sent, At, This
<1>6. Placed'
  BY <1>1, <1>3 DEF JobInv, Placed, Resumable, Sending, At, This
<1>7. SourceKept'
  BY <1>1, <1>3 DEF JobInv, SourceKept
<1> QED  BY <1>1, <1>2, <1>4, <1>5, <1>6, <1>7, OutcomesKeep DEF JobInv

-----------------------------------------------------------------------------

LEMMA InitJob == Init => JobInv
<1> SUFFICES ASSUME Init PROVE JobInv
  OBVIOUS
<1>1. /\ sess = [u \in Uploads |-> [state |-> "none", got |-> {}]]
      /\ manifest = None /\ source = [u \in Uploads |-> "none"]
      /\ fut = [c \in Chunks |-> "new"] /\ announced = [u \in Uploads |-> "none"]
      /\ target = Default
  BY DEF Init, GateInit
<1>2. job \in Jobs /\ job.pc = "boot" /\ ~job.done
  BY DEF Init, NoJob, Jobs, JobPCs
<1>3. Shaped
  BY <1>1, <1>2, PermitsAssumption DEF Shaped, Session, Permits
<1>4. Whole /\ Sent /\ Placed /\ CompletedHasAll /\ SourceKept
  BY <1>1, <1>2, JobAssumption
     DEF Whole, Sent, Placed, CompletedHasAll, SourceKept, At, This, Resumable, Sending, Active
<1> QED  BY <1>3, <1>4 DEF JobInv

LEMMA NextJob == JobInv /\ [Next]_vars => JobInv'
<1> SUFFICES ASSUME JobInv, [Next]_vars PROVE JobInv'
  OBVIOUS
<1>1. CASE \E u \in Uploads : StartUpload(u) \/ SrvSweep(u) \/ Change(u)
  BY <1>1, StartStep, SweepStep, ChangeStep
<1>2. CASE Prepare
  BY <1>2, StageStep, InitStep, ManifestStep, BootStep, VerifyStep, ViewStep, ViewEndsStep DEF Prepare
<1>3. CASE Drive
  BY <1>3, RegisterStep, GreetStep, AutoResumeStep, ExhaustedStep, ReportStep, AbandonStep,
     UnstageStep, ForgetStep DEF Drive
<1>4. CASE Stalled \/ GrantNext \/ Crash
  BY <1>4, StalledStep, GrantStep, CrashStep
<1>5. CASE \E c \in Chunks : Future(c) \/ Put(c)
  BY <1>5, AcquireStep, ReadRangeStep, StopStep, LearnStep, TookStep, PutStep DEF Future
<1>6. CASE \E op \in Ops, u \in Uploads : Command(op, u) \/ Deliver(op, u) \/ Undelivered(op, u)
  BY <1>6, CommandStep, DeliverStep, UndeliveredStep
<1>7. CASE \E n \in Permits : ChangeSetting(n) \/ ApplySetting(n)
  BY <1>7, SettingStep
<1>8. CASE UNCHANGED vars
  <2>1. UNCHANGED <<sess, manifest, source, job, fut, announced, target>>
    BY <1>8 DEF vars, gateVars, diskVars, runVars
  <2>2. Follows
    BY <2>1, SameFollows DEF JobInv
  <2> QED  BY <2>1, <2>2, SessionStep DEF JobInv, Shaped, This
<1> QED  BY <1>1, <1>2, <1>3, <1>4, <1>5, <1>6, <1>7, <1>8 DEF Next

LEMMA JobInvariant == Spec => []JobInv
  BY InitJob, NextJob, PTL DEF Spec

\* An upload is shown as completed only when the server has every chunk of it, for any number
\* of chunks, permits, crashes, lost answers and commands (run_job, drive_upload,
\* send_chunk_resilient).
THEOREM CompletedIsReceived == Spec => []CompletedHasAll
<1>1. JobInv => CompletedHasAll
  BY DEF JobInv
<1> QED  BY JobInvariant, <1>1, PTL

\* What a resumable upload still has to read is not taken away by the app (sweep_staging,
\* clear_resume_state, uploads_resume_pending).
THEOREM ResumableHasSource == Spec => []SourceKept
<1>1. JobInv => SourceKept
  BY DEF JobInv
<1> QED  BY JobInvariant, <1>1, PTL

-----------------------------------------------------------------------------
(* The permits.                                                            *)

Line == Seq(Chunks \cup {Nobody})

\* Where shrinks stand in a line, and how many permits they wait for.
Owed(q) == {i \in DOMAIN q : q[i] = Nobody}

LEMMA OwedFinite ==
    ASSUME NEW q \in Line PROVE IsFiniteSet(Owed(q)) /\ Cardinality(Owed(q)) \in Nat
<1>1. Len(q) \in Nat /\ DOMAIN q = 1..Len(q)
  BY DEF Line
<1>2. IsFiniteSet(1..Len(q)) /\ Owed(q) \in SUBSET (1..Len(q))
  BY <1>1, FS_Interval DEF Owed
<1> QED  BY <1>2, FS_Subset, FS_CardinalityType

\* A chunk that joins the line is not owed.
LEMMA OwedAppend ==
    ASSUME NEW q \in Line, NEW c \in Chunks
    PROVE  Append(q, c) \in Line /\ Owed(Append(q, c)) = Owed(q)
<1>1. Append(q, c) \in Line /\ Len(Append(q, c)) = Len(q) + 1 /\ Len(q) \in Nat
  BY DEF Line
<1>2. Append(q, c)[Len(q) + 1] = c /\ \A i \in 1..Len(q) : Append(q, c)[i] = q[i]
  BY DEF Line
<1>3. c # Nobody
  BY PermitsAssumption
<1>4. DOMAIN Append(q, c) = 1..(Len(q) + 1) /\ DOMAIN q = 1..Len(q)
  BY <1>1 DEF Line
<1> QED  BY <1>1, <1>2, <1>3, <1>4 DEF Owed

\* A shrink joins it once for each permit.
LEMMA OwedShrink ==
    ASSUME NEW q \in Line, NEW n \in Nat
    PROVE  q \o Shrink(n) \in Line /\ Cardinality(Owed(q \o Shrink(n))) = Cardinality(Owed(q)) + n
<1> DEFINE r == q \o Shrink(n)
           added == (Len(q) + 1)..(Len(q) + n)
<1>1. Shrink(n) \in Line /\ Len(Shrink(n)) = n
  BY DEF Shrink, Line
<1>2. r \in Line /\ Len(q) \in Nat /\ DOMAIN q = 1..Len(q) /\ DOMAIN r = 1..(Len(q) + n)
  BY <1>1 DEF Line
<1>3. /\ \A i \in 1..Len(q) : r[i] = q[i]
      /\ \A i \in added : r[i] = Nobody
  BY <1>1 DEF Line, Shrink
<1>4. Owed(r) = Owed(q) \cup added /\ Owed(q) \cap added = {}
  BY <1>2, <1>3 DEF Owed
<1>5. IsFiniteSet(added) /\ Cardinality(added) = n
  <2>1. Len(q) + 1 \in Int /\ Len(q) + n \in Int
    BY <1>2
  <2>2. /\ IsFiniteSet(added)
        /\ Cardinality(added) =
               IF Len(q) + 1 > Len(q) + n THEN 0 ELSE (Len(q) + n) - (Len(q) + 1) + 1
    BY <2>1, FS_Interval
  <2> QED  BY <1>2, <2>2
<1>6. IsFiniteSet(Owed(q)) /\ Cardinality(Owed(q)) \in Nat
  BY OwedFinite
<1>7. Cardinality(Owed(r)) = Cardinality(Owed(q)) + Cardinality(added) - Cardinality({})
  <2> HIDE DEF r, added
  <2>1. Cardinality(Owed(q) \cup added)
            = Cardinality(Owed(q)) + Cardinality(added) - Cardinality(Owed(q) \cap added)
    BY <1>5, <1>6, FS_Union
  <2> QED  BY <2>1, <1>4
<1>8. Cardinality({}) = 0
  BY FS_EmptySet
<1> QED  BY <1>2, <1>5, <1>6, <1>7, <1>8

\* Who is served leaves the line, a permit less being owed if it was a shrink.
LEMMA OwedTail ==
    ASSUME NEW q \in Line, q # <<>>
    PROVE  /\ Tail(q) \in Line
           /\ Cardinality(Owed(Tail(q))) =
                  IF Head(q) = Nobody THEN Cardinality(Owed(q)) - 1 ELSE Cardinality(Owed(q))
<1>1. /\ Tail(q) \in Line /\ Len(q) \in Nat /\ Len(q) > 0 /\ Head(q) = q[1]
      /\ DOMAIN q = 1..Len(q) /\ DOMAIN Tail(q) = 1..(Len(q) - 1)
      /\ \A i \in 1..(Len(q) - 1) : Tail(q)[i] = q[i + 1]
  <2>1. q \in Seq(Chunks \cup {Nobody}) /\ Len(q) \in Nat /\ DOMAIN q = 1..Len(q) /\ Len(q) # 0
    BY EmptySeq DEF Line
  <2>2. Tail(q) \in Seq(Chunks \cup {Nobody}) /\ Len(Tail(q)) = Len(q) - 1
    BY <2>1
  <2> QED  BY <2>1, <2>2 DEF Line
<1> DEFINE shift == [i \in Owed(Tail(q)) |-> i + 1]
<1>2. shift \in Bijection(Owed(Tail(q)), Owed(q) \ {1})
  <2>1. shift \in [Owed(Tail(q)) -> Owed(q) \ {1}]
    BY <1>1 DEF Owed
  <2>2. \A i, j \in Owed(Tail(q)) : shift[i] = shift[j] => i = j
    BY <1>1 DEF Owed
  <2>3. \A j \in Owed(q) \ {1} : \E i \in Owed(Tail(q)) : shift[i] = j
    <3> SUFFICES ASSUME NEW j \in Owed(q) \ {1} PROVE j - 1 \in Owed(Tail(q)) /\ shift[j - 1] = j
      OBVIOUS
    <3>1. j \in 2..Len(q) /\ q[j] = Nobody
      BY <1>1 DEF Owed
    <3>2. j - 1 \in 1..(Len(q) - 1) /\ Tail(q)[j - 1] = q[j]
      BY <1>1, <3>1
    <3> QED  BY <1>1, <3>1, <3>2 DEF Owed
  <2> QED  BY <2>1, <2>2, <2>3 DEF Bijection, Injection, Surjection, IsInjective
<1>3. ExistsBijection(Owed(Tail(q)), Owed(q) \ {1}) /\ IsFiniteSet(Owed(Tail(q))) /\ IsFiniteSet(Owed(q))
  BY <1>1, <1>2, OwedFinite DEF ExistsBijection
<1>4. Cardinality(Owed(Tail(q))) = Cardinality(Owed(q) \ {1})
  BY <1>3, FS_Bijection
<1>5. Cardinality(Owed(q) \ {1}) = IF 1 \in Owed(q) THEN Cardinality(Owed(q)) - 1 ELSE Cardinality(Owed(q))
  BY <1>3, FS_RemoveElement
<1>6. 1 \in Owed(q) <=> Head(q) = Nobody
  BY <1>1 DEF Owed
<1> QED  BY <1>1, <1>4, <1>5, <1>6

\* What is left of a line without its chunks.
LEMMA OwedOnly ==
    ASSUME NEW n \in Nat
    PROVE  Shrink(n) \in Line /\ Cardinality(Owed(Shrink(n))) = n
<1>1. Shrink(n) \in Line /\ Owed(Shrink(n)) = 1..n
  BY DEF Shrink, Line, Owed
<1> QED  BY <1>1, FS_Interval

\* A chunk asks once, gives back what it was given, and is not in line for more.
InHand == {"check", "wire", "ok", "last", "err"}

Lined ==
    /\ \A c \in held : fut[c] \in InHand \cup {"queued"}
    /\ \A c \in Chunks : fut[c] \in InHand => c \in held
    /\ \A i \in DOMAIN queue :
        queue[i] # Nobody => fut[queue[i]] = "queued" /\ queue[i] \notin held
    /\ \A i, j \in DOMAIN queue : queue[i] # Nobody /\ queue[i] = queue[j] => i = j

GateShaped ==
    /\ held \subseteq Chunks /\ IsFiniteSet(held)
    /\ applied \in Nat /\ free \in Nat /\ queue \in Line

\* Before its gate opens a job has no chunk under way.
Unopened == job.pc \notin {"next", "resuming"} => \A c \in Chunks : fut[c] \in {"new", "have"}

GateInv == GateShaped /\ Lined /\ Unopened /\ Conserved

\* Only futures move, from hand to hand.
LEMMA HandsKeep ==
    ASSUME GateInv, JobInv, UNCHANGED gateVars, NEW c \in Chunks, NEW to \in InHand,
           fut' = [fut EXCEPT ![c] = to], c \in held, job'.pc \in {"next", "resuming"}
    PROVE  GateInv'
<1>1. fut'[c] = to /\ \A d \in Chunks \ {c} : fut'[d] = fut[d]
  BY DEF JobInv, Shaped
<1>2. Lined'
  <2>1. \A i \in DOMAIN queue : queue[i] # c
    BY PermitsAssumption DEF GateInv, Lined
  <2>2. \A i \in DOMAIN queue : queue[i] \in Chunks \cup {Nobody}
    BY DEF GateInv, GateShaped, Line
  <2> QED  BY <1>1, <2>1, <2>2 DEF GateInv, GateShaped, Lined, gateVars
<1> QED  BY <1>2 DEF GateInv, GateShaped, Unopened, Conserved, gateVars, Surplus

\* Neither permits nor futures are touched.
LEMMA StillGate ==
    ASSUME GateInv, UNCHANGED <<applied, free, queue, held, fut>>,
           job'.pc \in {"next", "resuming"} \/ job.pc \notin {"next", "resuming"}
    PROVE  GateInv'
  BY DEF GateInv, GateShaped, Lined, Unopened, Conserved, Surplus

\* Whoever is left in line when the futures go is a shrink, and the permits come back.
LEMMA DropKeeps ==
    ASSUME GateInv, DropAll, fut' = [c \in Chunks |-> "new"]
    PROVE  GateInv'
<1>1. Surplus \in Nat /\ Cardinality(held) \in Nat
  BY OwedFinite, FS_CardinalityType DEF GateInv, GateShaped, Surplus, Owed
<1>2. held' = {} /\ free' = free + Cardinality(held) /\ applied' = applied /\ queue' = Shrink(Surplus)
  BY DEF DropAll
<1>3. queue' \in Line /\ Surplus' = Surplus
  BY <1>1, <1>2, OwedOnly DEF Surplus, Owed
<1>4. IsFiniteSet({}) /\ Cardinality({}) = 0
  BY FS_EmptySet
<1>5. GateShaped'
  BY <1>1, <1>2, <1>3, <1>4 DEF GateInv, GateShaped
<1>6. Lined'
  BY <1>1, <1>2 DEF Lined, InHand, Shrink
<1>7. Conserved'
  BY <1>1, <1>2, <1>3, <1>4 DEF GateInv, GateShaped, Conserved
<1> QED  BY <1>5, <1>6, <1>7 DEF GateInv, Unopened

\* Steps of the job and the server that leave the gate and the futures alone.
LEMMA BesideGate ==
    ASSUME GateInv, JobInv, UNCHANGED <<gateVars, fut>>,
           job'.pc \in {"next", "resuming"} \/ job.pc \notin {"next", "resuming"}
    PROVE  GateInv'
  BY StillGate DEF gateVars

LEMMA PrepareGate ==
    ASSUME GateInv, JobInv, Prepare PROVE GateInv'
<1>1. job.pc \notin Sending
  BY DEF Prepare, Stage, InitUpload, WriteManifest, Boot, Verify, View, ViewEnds, At, Sending
<1>2. CASE View
  <2>1. \A c \in Chunks : fut[c] = "new"
    BY <1>1 DEF JobInv, Sent
  <2>2. held = {} /\ \A i \in DOMAIN queue : queue[i] = Nobody
    <3>1. \A i \in DOMAIN queue : queue[i] \in Chunks \cup {Nobody}
      BY DEF GateInv, GateShaped, Line
    <3> QED  BY <2>1, <3>1 DEF GateInv, GateShaped, Lined, InHand
  <2>3. UNCHANGED gateVars /\ \A c \in Chunks : fut'[c] \in {"new", "have"}
    BY <1>2 DEF View
  <2> QED  BY <2>2, <2>3
           DEF GateInv, GateShaped, Lined, InHand, Unopened, Conserved, Surplus, gateVars
<1>3. CASE ~View
  <2>1. UNCHANGED <<gateVars, fut>>
    BY <1>3 DEF Prepare, Stage, InitUpload, WriteManifest, Boot, Verify, ViewEnds
  <2> QED  BY <1>1, <2>1, BesideGate DEF Sending
<1> QED  BY <1>2, <1>3

LEMMA OpenStep ==
    ASSUME GateInv, JobInv, RegisterGate PROVE GateInv'
<1>1. /\ applied' = job.initial /\ free' = job.initial /\ queue' = <<>> /\ held' = {}
      /\ UNCHANGED fut /\ job.pc = "open"
  BY DEF RegisterGate, OpenGate, At
<1>2. job.initial \in Nat
  BY PermitsAssumption DEF JobInv, Shaped, Jobs, Permits
<1>3. IsFiniteSet({}) /\ Cardinality({}) = 0
  BY FS_EmptySet
<1>4. queue' \in Line /\ Owed(<<>>) = {}
  BY <1>1 DEF Line, Owed
<1>5. \A c \in Chunks : fut[c] \in {"new", "have"}
  BY <1>1 DEF GateInv, Unopened
<1> QED  BY <1>1, <1>2, <1>3, <1>4, <1>5
         DEF GateInv, GateShaped, Lined, InHand, Unopened, Conserved, Surplus, Owed

\* The gate is gone, with everybody in line.
LEMMA ClosedGate ==
    ASSUME GateInv, applied' = 0, free' = 0, queue' = <<>>, held' = {},
           \A c \in Chunks : fut'[c] = "new"
    PROVE  GateInv'
<1>1. IsFiniteSet({}) /\ queue' \in Line
  BY FS_EmptySet DEF Line
<1> QED  BY <1>1 DEF GateInv, GateShaped, Lined, InHand, Unopened, Conserved

LEMMA DriveGate ==
    ASSUME GateInv, JobInv, Drive PROVE GateInv'
<1>1. CASE Register \/ ReadTarget \/ Greet \/ Report \/ Abandon \/ Unstage
  <2>1. UNCHANGED <<gateVars, fut>> /\ job.pc \notin {"next", "resuming"}
    BY <1>1 DEF Register, ReadTarget, Greet, Report, Abandon, Unstage, At
  <2> QED  BY <2>1, BesideGate
<1>2. CASE RegisterGate
  BY <1>2, OpenStep
<1>3. CASE AutoResume
  <2>1. CASE job.done
    BY <1>3, <2>1, DropKeeps DEF AutoResume, Break, Idle
  <2>2. CASE ~job.done
    <3>1. UNCHANGED <<gateVars, fut>> /\ job'.pc = "next"
      BY <1>3, <2>2 DEF AutoResume, Goto, JobInv, Shaped, Jobs
    <3> QED  BY <3>1, BesideGate
  <2> QED  BY <2>1, <2>2
<1>4. CASE Exhausted
  BY <1>4, DropKeeps DEF Exhausted, Break, Idle
<1>5. CASE Forget
  <2>1. \A c \in Chunks : fut[c] = "new"
    BY <1>5 DEF Forget, At, JobInv, Sent, Sending
  <2> QED  BY <1>5, <2>1, ClosedGate DEF Forget, CloseGate
<1> QED  BY <1>1, <1>2, <1>3, <1>4, <1>5 DEF Drive

LEMMA AcquireGate ==
    ASSUME GateInv, JobInv, NEW c \in Chunks, Acquire(c) PROVE GateInv'
<1>1. /\ fut[c] = "new" /\ fut' = [fut EXCEPT ![c] = "queued"] /\ queue' = Append(queue, c)
      /\ UNCHANGED <<applied, free, held>> /\ job' = job /\ job.pc = "next"
  BY DEF Acquire, Fut, Ask, At
<1>2. fut'[c] = "queued" /\ \A d \in Chunks \ {c} : fut'[d] = fut[d]
  BY <1>1 DEF JobInv, Shaped
<1>3. queue' \in Line /\ Surplus' = Surplus
  BY <1>1, OwedAppend DEF GateInv, GateShaped, Surplus, Owed
<1>4. /\ DOMAIN queue' = 1..(Len(queue) + 1) /\ DOMAIN queue = 1..Len(queue) /\ Len(queue) \in Nat
      /\ queue'[Len(queue) + 1] = c /\ \A i \in 1..Len(queue) : queue'[i] = queue[i]
      /\ \A i \in 1..Len(queue) : queue[i] \in Chunks \cup {Nobody}
  BY <1>1 DEF GateInv, GateShaped, Line
<1>5. c \notin held /\ \A i \in DOMAIN queue : queue[i] # c
  BY <1>1, PermitsAssumption DEF GateInv, Lined, InHand
<1>6. Lined'
  <2>1. \A i \in DOMAIN queue' : queue'[i] # Nobody => fut'[queue'[i]] = "queued" /\ queue'[i] \notin held
    BY <1>2, <1>4, <1>5 DEF GateInv, Lined
  <2>2. \A i, j \in DOMAIN queue' : queue'[i] # Nobody /\ queue'[i] = queue'[j] => i = j
    BY <1>4, <1>5 DEF GateInv, Lined
  <2> QED  BY <1>1, <1>2, <1>5, <2>1, <2>2 DEF GateInv, GateShaped, Lined, InHand
<1> QED  BY <1>1, <1>3, <1>6 DEF GateInv, GateShaped, Unopened, Conserved

LEMMA FutureGate ==
    ASSUME GateInv, JobInv, NEW c \in Chunks, Future(c) PROVE GateInv'
<1>1. CASE Acquire(c)
  BY <1>1, AcquireGate
<1>2. CASE ReadRange(c)
  <2>1. CASE Break("abandon")
    BY <2>1, DropKeeps DEF Break, Idle
  <2>2. CASE Fut(c, "queued", "check") /\ UNCHANGED <<gateVars, job, fails>>
    BY <1>2, <2>2, HandsKeep DEF ReadRange, Fut, InHand, At
  <2> QED  BY <1>2, <2>1, <2>2 DEF ReadRange
<1>3. CASE Stop(c)
  BY <1>3, DropKeeps DEF Stop, Break, Idle
<1>4. CASE Send(c) \/ Fail(c)
  <2>1. /\ \E to \in InHand : fut' = [fut EXCEPT ![c] = to]
        /\ UNCHANGED <<gateVars, job>> /\ job.pc = "next" /\ fut[c] \in InHand
    BY <1>4 DEF Send, Fail, Fut, InHand, At
  <2> QED  BY <2>1, HandsKeep DEF GateInv, Lined
<1>5. CASE Learn(c)
  <2>1. CASE Break("report")
    BY <2>1, DropKeeps DEF Break, Idle
  <2>2. CASE /\ job' = [job EXCEPT !.cancelled = TRUE] /\ Fut(c, "err", "check") /\ UNCHANGED gateVars
    <3>1. job'.pc = "next" /\ fut[c] = "err" /\ fut' = [fut EXCEPT ![c] = "check"]
      BY <2>2 DEF Fut, At, JobInv, Shaped, Jobs
    <3> QED  BY <2>2, <3>1, HandsKeep DEF GateInv, Lined, InHand
  <2> QED  BY <1>5, <2>1, <2>2 DEF Learn
<1>6. CASE Took(c)
  <2>1. CASE ~job.auto /\ fut[c] = "last"
    BY <1>6, <2>1, DropKeeps DEF Took, Break, Idle
  <2>2. CASE ~(~job.auto /\ fut[c] = "last")
    <3>1. /\ fut[c] \in InHand /\ fut' = [fut EXCEPT ![c] = "have"]
          /\ held' = held \ {c} /\ free' = free + 1 /\ UNCHANGED <<applied, queue>>
      BY <1>6, <2>2 DEF Took, Release, InHand
    <3>2. job'.pc \in {"next", "resuming"}
      <4>1. job \in Jobs
        BY DEF JobInv, Shaped
      <4> QED  BY <1>6, <2>2, <4>1 DEF Took, Jobs
    <3>3. c \in held
      BY <3>1 DEF GateInv, Lined
    <3>4. fut'[c] = "have" /\ \A d \in Chunks \ {c} : fut'[d] = fut[d]
      BY <3>1 DEF JobInv, Shaped
    <3>5. IsFiniteSet(held') /\ Cardinality(held') = Cardinality(held) - 1 /\ Cardinality(held) \in Nat
      BY <3>1, <3>3, FS_RemoveElement, FS_CardinalityType DEF GateInv, GateShaped
    <3>6. Lined'
      <4>1. \A i \in DOMAIN queue : queue[i] \in Chunks \cup {Nobody}
        BY DEF GateInv, GateShaped, Line
      <4>2. \A i \in DOMAIN queue : queue[i] # c
        BY <3>3, PermitsAssumption DEF GateInv, Lined
      <4> QED  BY <3>1, <3>4, <4>1, <4>2 DEF GateInv, GateShaped, Lined, InHand
    <3>7. Surplus \in Nat
      BY OwedFinite DEF GateInv, GateShaped, Surplus, Owed
    <3>8. Conserved'
      BY <3>1, <3>5, <3>7 DEF GateInv, GateShaped, Conserved, Surplus
    <3> QED  BY <3>1, <3>2, <3>5, <3>6, <3>8 DEF GateInv, GateShaped, Unopened
  <2> QED  BY <2>1, <2>2
<1> QED  BY <1>1, <1>2, <1>3, <1>4, <1>5, <1>6 DEF Future

LEMMA PutGate ==
    ASSUME GateInv, JobInv, NEW c \in Chunks, Put(c) PROVE GateInv'
<1>1. /\ fut[c] = "wire" /\ \E to \in InHand : fut' = [fut EXCEPT ![c] = to]
      /\ UNCHANGED <<gateVars, job>> /\ job.pc \in {"next", "resuming"}
  BY DEF Put, PutOk, PutErr, InFlight, InHand
<1> QED  BY <1>1, HandsKeep DEF GateInv, Lined, InHand

LEMMA ResizeGate ==
    ASSUME GateInv, JobInv, NEW n \in Permits, ApplySetting(n) PROVE GateInv'
<1>1. /\ applied' = IF applied = 0 THEN 0 ELSE n
      /\ free' = IF applied # 0 /\ n > applied THEN free + (n - applied) ELSE free
      /\ queue' = IF n < applied THEN queue \o Shrink(applied - n) ELSE queue
      /\ UNCHANGED <<held, fut, job>>
  BY DEF ApplySetting, Resize, runVars
<1>2. n \in Nat /\ n > 0 /\ applied \in Nat /\ free \in Nat /\ queue \in Line
  BY PermitsAssumption DEF Permits, GateInv, GateShaped
<1>3. Surplus \in Nat /\ Cardinality(held) \in Nat
  BY <1>2, OwedFinite, FS_CardinalityType DEF GateInv, GateShaped, Surplus, Owed
<1>4. CASE n < applied
  <2>1. applied - n \in Nat /\ queue' = queue \o Shrink(applied - n)
    BY <1>1, <1>2, <1>4
  <2>2. queue' \in Line /\ Surplus' = Surplus + (applied - n)
    BY <1>2, <2>1, OwedShrink DEF Surplus, Owed
  <2>3. Lined'
    <3>1. Len(Shrink(applied - n)) = applied - n /\ Shrink(applied - n) \in Line
      BY <2>1 DEF Shrink, Line
    <3>2. /\ DOMAIN queue = 1..Len(queue) /\ DOMAIN queue' = 1..(Len(queue) + (applied - n))
          /\ Len(queue) \in Nat
      <4>1. queue' \in Line /\ Len(queue') = Len(queue) + Len(Shrink(applied - n))
        BY <1>2, <2>1, <3>1, ConcatProperties DEF Line
      <4> QED  BY <1>2, <3>1, <4>1, LenProperties DEF Line
    <3>3. /\ \A i \in DOMAIN queue : queue'[i] = queue[i]
          /\ \A i \in DOMAIN queue' \ DOMAIN queue : queue'[i] = Nobody
      <4>1. \A i \in 1..(Len(queue) + (applied - n)) :
                queue'[i] = IF i <= Len(queue) THEN queue[i] ELSE Shrink(applied - n)[i - Len(queue)]
        BY <1>2, <2>1, <3>1, ConcatProperties DEF Line
      <4>2. \A i \in 1..(applied - n) : Shrink(applied - n)[i] = Nobody
        BY DEF Shrink
      <4> QED  BY <2>1, <3>2, <4>1, <4>2
    <3> QED  BY <1>1, <3>3 DEF GateInv, Lined
  <2> QED  BY <1>1, <1>2, <1>3, <1>4, <2>2, <2>3 DEF GateInv, GateShaped, Unopened, Conserved
<1>5. CASE ~(n < applied)
  <2>1. UNCHANGED <<queue, held, fut, job>>
    BY <1>1, <1>5
  <2>2. GateShaped' /\ Conserved'
    BY <1>1, <1>2, <1>3, <1>5, <2>1 DEF GateInv, GateShaped, Conserved, Surplus
  <2> QED  BY <2>1, <2>2 DEF GateInv, Lined, Unopened
<1> QED  BY <1>4, <1>5

LEMMA GrantGate ==
    ASSUME GateInv, JobInv, GrantNext PROVE GateInv'
<1>1. /\ queue # <<>> /\ free > 0 /\ free' = free - 1 /\ queue' = Tail(queue)
      /\ held' = held \cup ({Head(queue)} \ {Nobody}) /\ UNCHANGED <<applied, fut, job>>
  BY DEF GrantNext, Grant, runVars
<1>2. queue \in Line /\ Surplus \in Nat /\ Cardinality(held) \in Nat /\ IsFiniteSet(held)
  BY OwedFinite, FS_CardinalityType DEF GateInv, GateShaped, Surplus, Owed
<1>3. /\ Len(queue) \in Nat /\ DOMAIN queue = 1..Len(queue) /\ Head(queue) = queue[1] /\ 1 \in DOMAIN queue
      /\ DOMAIN queue' = 1..(Len(queue) - 1) /\ \A i \in DOMAIN queue' : queue'[i] = queue[i + 1]
  <2>1. Len(queue) \in Nat \ {0} /\ DOMAIN queue = 1..Len(queue) /\ Head(queue) = queue[1]
    BY <1>1, <1>2, EmptySeq DEF Line
  <2>2. Len(queue') = Len(queue) - 1 /\ DOMAIN queue' = 1..Len(queue')
        /\ \A i \in 1..Len(queue') : queue'[i] = queue[i + 1]
    BY <1>1, <1>2, HeadTailProperties, LenProperties DEF Line
  <2> QED  BY <2>1, <2>2
<1>4. /\ queue' \in Line
      /\ Surplus' = IF Head(queue) = Nobody THEN Surplus - 1 ELSE Surplus
  BY <1>1, <1>2, OwedTail DEF Surplus, Owed
<1>5. Head(queue) = Nobody \/ (Head(queue) \in Chunks \ held /\ fut[Head(queue)] = "queued")
  BY <1>2, <1>3 DEF GateInv, Lined, Line
<1>6. /\ IsFiniteSet(held')
      /\ Cardinality(held') = IF Head(queue) = Nobody THEN Cardinality(held) ELSE Cardinality(held) + 1
  <2>1. CASE Head(queue) = Nobody
    BY <1>1, <1>2, <2>1
  <2>2. CASE Head(queue) \in Chunks \ held
    <3>1. held' = held \cup {Head(queue)} /\ Head(queue) # Nobody
      BY <1>1, <2>2, PermitsAssumption
    <3> QED  BY <1>2, <2>2, <3>1, FS_AddElement
  <2> QED  BY <1>5, <2>1, <2>2
<1>7. GateShaped' /\ Conserved'
  BY <1>1, <1>2, <1>4, <1>5, <1>6 DEF GateInv, GateShaped, Conserved
<1>8. Lined'
  <2>1. \A i \in DOMAIN queue' : i + 1 \in DOMAIN queue /\ i + 1 # 1
    BY <1>3
  <2>2. \A i \in DOMAIN queue' : queue'[i] # Nobody => queue'[i] # Head(queue)
    BY <1>3, <2>1 DEF GateInv, Lined
  <2>3. \A i \in DOMAIN queue' :
            queue'[i] # Nobody => fut'[queue'[i]] = "queued" /\ queue'[i] \notin held'
    BY <1>1, <1>3, <2>1, <2>2 DEF GateInv, Lined
  <2>4. \A i, j \in DOMAIN queue' : queue'[i] # Nobody /\ queue'[i] = queue'[j] => i = j
    <3> SUFFICES ASSUME NEW i \in DOMAIN queue', NEW j \in DOMAIN queue',
                        queue'[i] # Nobody, queue'[i] = queue'[j]
                 PROVE  i = j
      OBVIOUS
    <3>1. i + 1 = j + 1
      BY <1>3, <2>1 DEF GateInv, Lined
    <3> QED  BY <1>3, <3>1
  <2> QED  BY <1>1, <1>5, <2>3, <2>4 DEF GateInv, Lined
<1> QED  BY <1>1, <1>7, <1>8 DEF GateInv, Unopened

LEMMA InitGate == Init => GateInv
<1> SUFFICES ASSUME Init PROVE GateInv
  OBVIOUS
<1>1. applied = 0 /\ free = 0 /\ queue = <<>> /\ held = {} /\ \A c \in Chunks : fut[c] = "new"
  BY DEF Init, GateInit
<1>2. IsFiniteSet({}) /\ queue \in Line
  BY <1>1, FS_EmptySet DEF Line
<1> QED  BY <1>1, <1>2 DEF GateInv, GateShaped, Lined, InHand, Unopened, Conserved

LEMMA NextGate == GateInv /\ JobInv /\ [Next]_vars => GateInv'
<1> SUFFICES ASSUME GateInv, JobInv, [Next]_vars PROVE GateInv'
  OBVIOUS
<1>0. job \in Jobs
  BY DEF JobInv, Shaped
<1>1. CASE \E u \in Uploads : StartUpload(u) \/ SrvSweep(u) \/ Change(u)
  <2>1. UNCHANGED <<gateVars, fut>> /\ (job.pc = "idle" \/ job' = job)
    BY <1>1 DEF StartUpload, SrvSweep, Change, runVars, At
  <2> QED  BY <2>1, BesideGate
<1>2. CASE Prepare
  BY <1>2, PrepareGate
<1>3. CASE Drive
  BY <1>3, DriveGate
<1>4. CASE Stalled
  <2>1. UNCHANGED <<gateVars, fut>> /\ job'.pc = job.pc
    BY <1>0, <1>4 DEF Stalled, Jobs
  <2> QED  BY <2>1, BesideGate
<1>5. CASE GrantNext
  BY <1>5, GrantGate
<1>6. CASE Crash
  BY <1>6, ClosedGate DEF Crash, Idle
<1>7. CASE \E c \in Chunks : Future(c) \/ Put(c)
  BY <1>7, FutureGate, PutGate
<1>8. CASE \E op \in Ops, u \in Uploads : Command(op, u) \/ Deliver(op, u) \/ Undelivered(op, u)
  <2>1. PICK op \in Ops, u \in Uploads : Command(op, u) \/ Deliver(op, u) \/ Undelivered(op, u)
    BY <1>8
  <2>2. Flagged(op).pc = job.pc
    BY <1>0 DEF Flagged, Ops, Jobs
  <2>3. UNCHANGED <<gateVars, fut>> /\ job'.pc = job.pc
    BY <2>1, <2>2 DEF Command, Deliver, Undelivered, runVars
  <2> QED  BY <2>3, BesideGate
<1>9. CASE \E n \in Permits : ChangeSetting(n) \/ ApplySetting(n)
  <2>1. ASSUME NEW n \in Permits, ChangeSetting(n) PROVE GateInv'
    BY <2>1, StillGate DEF ChangeSetting, SetTarget, runVars
  <2> QED  BY <1>9, <2>1, ResizeGate
<1>10. CASE UNCHANGED vars
  BY <1>10, StillGate DEF vars, gateVars, runVars
<1> QED  BY <1>1, <1>2, <1>3, <1>4, <1>5, <1>6, <1>7, <1>8, <1>9, <1>10 DEF Next

\* `applied' is the truth about the permits however resizes, chunks, commands and crashes
\* overlap, for any number of each (resize_semaphore, drive_upload).
THEOREM PermitsConserved == Spec => []Conserved
<1>1. GateInv => Conserved
  BY DEF GateInv
<1> QED  BY InitGate, NextGate, JobInvariant, <1>1, PTL DEF Spec
=============================================================================
