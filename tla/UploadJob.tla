----------------------------- MODULE UploadJob ------------------------------
(***************************************************************************)
(* The app's side of an upload: commands/upload_commands.rs.  A job stages *)
(* its sources, declares a session, writes a manifest and sends the chunks *)
(* under a gate that a setting resizes (ChunkGate), beside a monitor that  *)
(* pauses on a stall and commands that pause, resume and cancel; after a   *)
(* crash the manifest lets a new process go on.                            *)
(*                                                                         *)
(* The server is Uploads seen from outside, each call one step.  One file  *)
(* stands for the files of a session, which are sent one after the other;  *)
(* its chunks are numbered.  Time is left out: a stall can be noticed      *)
(* whenever nothing is paused.  One job runs at a time, as the upload page *)
(* ensures (uploads/store.ts).                                             *)
(***************************************************************************)
EXTENDS ChunkGate

CONSTANTS
    Uploads,      \* picks, each of them a session and a staging directory
    None,         \* no manifest, or no upload
    PollEvery,    \* failures after which a chunk asks for the session's state
    Faults,       \* what goes wrong: "down", "lost", "crash", "change"
    MaxFaults,    \* bound: crashes and changed sources
    MaxCommands   \* bound: commands of the user

ASSUME JobAssumption == PollEvery \in Nat \ {0} /\ MaxFaults \in Nat /\ MaxCommands \in Nat /\ None \notin Uploads

VARIABLES
    sess,      \* the server's sessions: state, and the chunks received
    manifest,  \* the upload that upload_resume.json names
    source,    \* what stands where an upload's chunks are read from
    job,       \* the job: where it is, its upload and JobCtl's flags
    fut,       \* the futures of its chunks
    bad,       \* chunks whose bytes were read from a changed source
    fails,     \* failures of a chunk since it last asked for the session's state
    calls,     \* server calls of commands and of the stall monitor on their way
    announced, \* history: the outcome shown for an upload
    faults, commands

diskVars == <<manifest, source>>
runVars == <<job, fut, bad, fails>>
boundVars == <<faults, commands>>
vars == <<gateVars, sess, diskVars, runVars, calls, announced, boundVars>>

Active == {"initialized", "uploading", "paused"}
Terminal == {"completed", "cancelled"}
JobPCs == {"boot", "idle", "stage", "init", "manifest", "register", "gate", "open", "greet", "next",
           "resuming", "report", "abandon", "verify", "view", "unstage", "forget"}
FutStates == {"new", "queued", "check", "wire", "ok", "last", "err", "have"}
Ops == {"pause", "resume", "cancel"}

NoJob == [pc |-> "idle", upload |-> None, initial |-> 0, paused |-> FALSE, done |-> FALSE,
          cancelled |-> FALSE, manual |-> FALSE, auto |-> FALSE, active |-> FALSE]

Init ==
    /\ GateInit
    /\ sess = [u \in Uploads |-> [state |-> "none", got |-> {}]]
    /\ manifest = None /\ source = [u \in Uploads |-> "none"]
    /\ job = [NoJob EXCEPT !.pc = "boot"]
    /\ fut = [c \in Chunks |-> "new"] /\ bad = {} /\ fails = [c \in Chunks |-> 0]
    /\ calls = {}
    /\ announced = [u \in Uploads |-> "none"] /\ faults = 0 /\ commands = 0

At(l) == job.pc = l
This == job.upload
Goto(l) == job' = [job EXCEPT !.pc = l]
Announce(s) == announced' = [announced EXCEPT ![This] = s]
Registered == job.pc \in {"gate", "open", "greet", "next", "resuming", "report"}
\* Slot and gate stay registered while what follows the chunks is done.
Driving == Registered \/ (job.active /\ job.pc \in {"abandon", "unstage", "forget"})

Down == "down" \in Faults

-----------------------------------------------------------------------------
(* The server, one call at a time.                                         *)

Became(u, s) == sess' = [sess EXCEPT ![u].state = s]

\* pause, resume, cancel of services/uploads.rs: what a call does, if it is allowed.
Serve(op, u) ==
    LET s == sess[u].state IN
    CASE op = "pause" /\ s \in Active -> Became(u, "paused")
      [] op = "resume" /\ s = "paused" -> Became(u, "uploading")
      [] op = "cancel" /\ s \in Active -> Became(u, "cancelled")
      [] OTHER -> UNCHANGED sess

\* put_chunk: the last chunk completes the session, a paused one too, unless the server
\* stops before it is finalized.
Land(u, c, finalized) ==
    LET got == sess[u].got \cup {c} IN
    sess' = [sess EXCEPT ![u] =
        [state |-> IF got = Chunks /\ finalized THEN "completed"
                   ELSE IF @.state = "initialized" THEN "uploading" ELSE @.state,
         got |-> got]]

\* pause_stale_active, on a session without a chunk for a while.
SrvSweep(u) ==
    /\ sess[u].state \in {"initialized", "uploading"}
    /\ Became(u, "paused")
    /\ UNCHANGED <<gateVars, diskVars, runVars, calls, announced, boundVars>>

-----------------------------------------------------------------------------
(* run_job                                                                 *)

StartUpload(u) ==
    /\ At("idle") /\ sess[u].state = "none" /\ source[u] = "none" /\ announced[u] = "none"
    /\ job' = [NoJob EXCEPT !.pc = "stage", !.upload = u]
    /\ UNCHANGED <<gateVars, sess, diskVars, fut, bad, fails, calls, announced, boundVars>>

\* stage_file
Stage ==
    /\ At("stage")
    /\ source' = [source EXCEPT ![This] = "good"]
    /\ Goto("init")
    /\ UNCHANGED <<gateVars, sess, manifest, fut, bad, fails, calls, announced, boundVars>>

\* init_upload: refused while the account has an active session; an answer that is lost
\* leaves the session behind.
InitUpload ==
    LET refused == \E v \in Uploads : sess[v].state \in Active IN
    /\ At("init")
    /\ \/ ~refused /\ Became(This, "initialized") /\ Goto("manifest") /\ UNCHANGED announced
       \/ /\ refused \/ Down
          /\ job' = NoJob /\ Announce("error") /\ UNCHANGED sess
       \/ /\ ~refused /\ "lost" \in Faults /\ Became(This, "initialized")
          /\ job' = NoJob /\ Announce("error")
    /\ UNCHANGED <<gateVars, diskVars, fut, bad, fails, calls, boundVars>>

WriteManifest ==
    /\ At("manifest")
    /\ manifest' = This
    /\ Goto("register")
    /\ UNCHANGED <<gateVars, sess, source, fut, bad, fails, calls, announced, boundVars>>

-----------------------------------------------------------------------------
(* drive_upload                                                            *)

\* JobCtl::new, set, and the monitor is started
Register ==
    /\ At("register")
    /\ job' = [job EXCEPT !.pc = "gate", !.active = TRUE]
    /\ UNCHANGED <<gateVars, sess, diskVars, fut, bad, fails, calls, announced, boundVars>>

ReadTarget ==
    /\ At("gate")
    /\ job' = [job EXCEPT !.pc = "open", !.initial = target]
    /\ UNCHANGED <<gateVars, sess, diskVars, fut, bad, fails, calls, announced, boundVars>>

RegisterGate ==
    /\ At("open")
    /\ OpenGate(job.initial)
    /\ job' = [job EXCEPT !.pc = "greet", !.initial = 0]
    /\ UNCHANGED <<sess, diskVars, fut, bad, fails, calls, announced, boundVars>>

\* A session found paused is resumed, now or by the first chunk that lands.
Greet ==
    LET with(auto) == [job EXCEPT !.pc = "next", !.paused = FALSE, !.auto = auto] IN
    /\ At("greet")
    /\ \/ ~job.paused /\ job' = with(job.auto) /\ UNCHANGED sess
       \/ job.paused /\ sess[This].state = "paused" /\ Serve("resume", This) /\ job' = with(job.auto)
       \/ job.paused /\ (sess[This].state # "paused" \/ Down) /\ job' = with(TRUE) /\ UNCHANGED sess
    /\ UNCHANGED <<gateVars, diskVars, fut, bad, fails, calls, announced, boundVars>>

\* The futures are polled while the loop waits for the next of them.
Fut(c, from, to) == At("next") /\ fut[c] = from /\ fut' = [fut EXCEPT ![c] = to]

Acquire(c) ==
    /\ Fut(c, "new", "queued")
    /\ Ask(c)
    /\ UNCHANGED <<sess, diskVars, job, bad, fails, calls, announced, boundVars>>

\* The loop is left: the futures still in flight are dropped.
Idle == fut' = [c \in Chunks |-> "new"] /\ bad' = {} /\ fails' = [c \in Chunks |-> 0]
Break(l) == Goto(l) /\ Idle /\ DropAll

\* read_range: a file that is gone ends the upload.
ReadRange(c) ==
    /\ c \in held /\ At("next") /\ fut[c] = "queued"
    /\ \/ /\ source[This] \in {"none", "gone"} /\ Break("abandon")
       \/ /\ source[This] \in {"good", "changed"} /\ Fut(c, "queued", "check")
          /\ bad' = IF source[This] = "good" THEN bad ELSE bad \cup {c}
          /\ UNCHANGED <<gateVars, job, fails>>
    /\ UNCHANGED <<sess, diskVars, calls, announced, boundVars>>

\* Mutant: a paused chunk is not woken by a cancel.
StopUnpaused(c) ==
    /\ At("next") /\ fut[c] = "check" /\ job.cancelled /\ ~job.manual
    /\ Announce("cancelled") /\ Break("unstage")
    /\ UNCHANGED <<sess, diskVars, calls, boundVars>>

\* The job was cancelled, here or on the server.
Stop(c) ==
    /\ At("next") /\ fut[c] = "check" /\ job.cancelled
    /\ Announce("cancelled") /\ Break("unstage")
    /\ UNCHANGED <<sess, diskVars, calls, boundVars>>

Send(c) ==
    /\ ~job.cancelled /\ ~job.manual
    /\ Fut(c, "check", "wire")
    /\ UNCHANGED <<gateVars, sess, diskVars, job, bad, fails, calls, announced, boundVars>>

Takes(c) == sess[This].state \in Active /\ c \notin bad

\* A request in flight is answered while the loop is busy with another result, too.
InFlight(c) == job.pc \in {"next", "resuming"} /\ fut[c] = "wire"

\* The server has the chunk, and says so.
PutOk(c) ==
    /\ InFlight(c) /\ Takes(c)
    /\ Land(This, c, TRUE)
    /\ fut' = [fut EXCEPT ![c] = IF sess'[This].got = Chunks THEN "last" ELSE "ok"]
    /\ UNCHANGED <<gateVars, diskVars, job, bad, fails, calls, announced, boundVars>>

\* It refuses the chunk, is not reached, or its answer is lost.
PutErr(c) ==
    /\ InFlight(c)
    /\ fut' = [fut EXCEPT ![c] = "err"]
    /\ \/ (~Takes(c) \/ Down) /\ UNCHANGED sess
       \/ Takes(c) /\ "lost" \in Faults /\ \E finalized \in BOOLEAN : Land(This, c, finalized)
    /\ UNCHANGED <<gateVars, diskVars, job, bad, fails, calls, announced, boundVars>>

\* A failed send goes round again; every few of them the session is asked for.
Polls(c) == fails[c] + 1 = PollEvery
Counted(c) == fails' = [fails EXCEPT ![c] = IF Polls(c) THEN 0 ELSE @ + 1]

Fail(c) ==
    /\ Fut(c, "err", "check") /\ Counted(c)
    /\ ~Polls(c) \/ Down \/ sess[This].state \notin Terminal
    /\ UNCHANGED <<gateVars, sess, diskVars, job, bad, calls, announced, boundVars>>

\* The session turns out to be over.
Learn(c) ==
    /\ At("next") /\ fut[c] = "err" /\ Polls(c)
    /\ \/ sess[This].state = "completed" /\ Break("report")
       \/ /\ sess[This].state = "cancelled" /\ job' = [job EXCEPT !.cancelled = TRUE]
          /\ Fut(c, "err", "check") /\ Counted(c) /\ UNCHANGED <<gateVars, bad>>
    /\ UNCHANGED <<sess, diskVars, calls, announced, boundVars>>

\* The loop takes a result: the first success after a stall resumes the session first.
Took(c) ==
    /\ At("next") /\ fut[c] \in {"ok", "last"}
    /\ IF ~job.auto /\ fut[c] = "last" THEN Break("report")
       ELSE /\ Release(c)
            /\ fut' = [fut EXCEPT ![c] = "have"]
            /\ job' = [job EXCEPT !.auto = FALSE, !.done = fut[c] = "last",
                                  !.pc = IF job.auto THEN "resuming" ELSE "next"]
            /\ UNCHANGED <<bad, fails>>
    /\ UNCHANGED <<sess, diskVars, calls, announced, boundVars>>

AutoResume ==
    /\ At("resuming")
    /\ Serve("resume", This) \/ (Down /\ UNCHANGED sess)
    /\ IF job.done THEN Break("report") ELSE Goto("next") /\ UNCHANGED <<gateVars, fut, bad, fails>>
    /\ UNCHANGED <<diskVars, calls, announced, boundVars>>

\* Every chunk is through, though none of them was told it was the last.
Exhausted ==
    /\ At("next") /\ \A c \in Chunks : fut[c] = "have"
    /\ Break("report")
    /\ UNCHANGED <<sess, diskVars, calls, announced, boundVars>>

\* The report is fetched; without an answer the upload is shown as completed.
Report ==
    /\ At("report")
    /\ Announce(sess[This].state) \/ (Down /\ Announce("completed"))
    /\ job' = [job EXCEPT !.pc = "unstage", !.active = FALSE]
    /\ UNCHANGED <<gateVars, sess, diskVars, fut, bad, fails, calls, boundVars>>

\* A source that cannot be read, or has changed: the session is cancelled as far as possible.
Abandon ==
    /\ At("abandon")
    /\ Serve("cancel", This) \/ (Down /\ UNCHANGED sess)
    /\ Announce("cancelled") /\ Goto("unstage")
    /\ UNCHANGED <<gateVars, diskVars, fut, bad, fails, calls, boundVars>>

\* clear_resume_state: the copies, then the manifest.
Unstage ==
    /\ At("unstage")
    /\ source' = IF manifest = None THEN source ELSE [source EXCEPT ![manifest] = "none"]
    /\ Goto("forget")
    /\ UNCHANGED <<gateVars, sess, manifest, fut, bad, fails, calls, announced, boundVars>>

\* And the guards: the slot and the gate.
Forget ==
    /\ At("forget")
    /\ manifest' = None
    /\ job' = NoJob /\ CloseGate
    /\ UNCHANGED <<sess, source, fut, bad, fails, calls, announced, boundVars>>

-----------------------------------------------------------------------------
(* Resuming after a crash: uploads_resume_pending, run_resume_job.         *)

\* Mutant: the staging directory that is about to be resumed is not spared.
BootSwept ==
    /\ At("boot")
    /\ source' = [u \in Uploads |-> "none"]
    /\ job' = IF manifest = None THEN NoJob ELSE [NoJob EXCEPT !.pc = "verify", !.upload = manifest]
    /\ UNCHANGED <<gateVars, sess, manifest, fut, bad, fails, calls, announced, boundVars>>

\* sweep_staging removes every directory but the manifest's.
Boot ==
    /\ At("boot")
    /\ source' = [u \in Uploads |-> IF u = manifest THEN source[u] ELSE "none"]
    /\ job' = IF manifest = None THEN NoJob ELSE [NoJob EXCEPT !.pc = "verify", !.upload = manifest]
    /\ UNCHANGED <<gateVars, sess, manifest, fut, bad, fails, calls, announced, boundVars>>

\* Each file is read and hashed again.
Verify ==
    /\ At("verify")
    /\ Goto(IF source[This] = "good" THEN "view" ELSE "abandon")
    /\ UNCHANGED <<gateVars, sess, diskVars, fut, bad, fails, calls, announced, boundVars>>

\* Mutant: every declared chunk is taken for a received one.
ViewAll ==
    /\ At("view") /\ sess[This].state \in Active
    /\ fut' = [c \in Chunks |-> "have"]
    /\ job' = [job EXCEPT !.pc = "register", !.paused = sess[This].state = "paused"]
    /\ UNCHANGED <<gateVars, sess, diskVars, bad, fails, calls, announced, boundVars>>

\* The session, with the chunks it has: only the others are sent.
View ==
    /\ At("view") /\ sess[This].state \in Active
    /\ fut' = [c \in Chunks |-> IF c \in sess[This].got THEN "have" ELSE "new"]
    /\ job' = [job EXCEPT !.pc = "register", !.paused = sess[This].state = "paused"]
    /\ UNCHANGED <<gateVars, sess, diskVars, bad, fails, calls, announced, boundVars>>

\* A session that is over has nothing to resume; without an answer the manifest stays for
\* the next start.
ViewEnds ==
    /\ At("view")
    /\ \/ sess[This].state \in Terminal /\ Announce(sess[This].state) /\ Goto("unstage")
       \/ Down /\ Announce("error") /\ job' = NoJob
    /\ UNCHANGED <<gateVars, sess, diskVars, fut, bad, fails, calls, boundVars>>

-----------------------------------------------------------------------------
(* The stall monitor: its pause may arrive after a chunk that landed has already resumed   *)
(* the session.                                                                            *)

Stalled ==
    /\ job.active /\ ~job.cancelled /\ ~job.manual /\ ~job.auto
    /\ job' = [job EXCEPT !.auto = TRUE]
    /\ calls' = calls \cup {<<"pause", This>>}
    /\ UNCHANGED <<gateVars, sess, diskVars, fut, bad, fails, announced, boundVars>>

-----------------------------------------------------------------------------
(* Commands of the user: the flags of the job in the slot, then the call.  *)

Flagged(op) ==
    CASE op = "pause" -> [job EXCEPT !.manual = TRUE]
      [] op = "resume" -> [job EXCEPT !.manual = FALSE, !.auto = FALSE]
      [] op = "cancel" -> [job EXCEPT !.cancelled = TRUE]

\* uploads_pause, uploads_resume, uploads_cancel
Command(op, u) ==
    /\ commands < MaxCommands /\ commands' = commands + 1
    /\ sess[u].state \in Active
    /\ job' = IF Driving /\ This = u THEN Flagged(op) ELSE job
    /\ calls' = calls \cup {<<op, u>>}
    /\ UNCHANGED <<gateVars, sess, diskVars, fut, bad, fails, announced, faults>>

Deliver(op, u) ==
    /\ <<op, u>> \in calls
    /\ Serve(op, u)
    /\ calls' = calls \ {<<op, u>>}
    /\ UNCHANGED <<gateVars, diskVars, runVars, announced, boundVars>>

Undelivered(op, u) ==
    /\ Down /\ <<op, u>> \in calls
    /\ calls' = calls \ {<<op, u>>}
    /\ UNCHANGED <<gateVars, sess, diskVars, runVars, announced, boundVars>>

\* uploads_set_concurrency
ChangeSetting(n) ==
    /\ commands < MaxCommands /\ commands' = commands + 1
    /\ SetTarget(n)
    /\ UNCHANGED <<sess, diskVars, runVars, calls, announced, faults>>

ApplySetting(n) == Resize(n) /\ UNCHANGED <<sess, diskVars, runVars, calls, announced, boundVars>>
GrantNext == Grant /\ UNCHANGED <<sess, diskVars, runVars, calls, announced, boundVars>>

-----------------------------------------------------------------------------
(* Faults.                                                                 *)

Occurs(f) == f \in Faults /\ faults < MaxFaults /\ faults' = faults + 1

\* The process is killed and started again; calls on their way may still arrive.
Crash ==
    /\ Occurs("crash") /\ ~At("boot")
    /\ job' = [NoJob EXCEPT !.pc = "boot"]
    /\ Idle
    /\ target' = Default /\ settings' = {}
    /\ applied' = 0 /\ free' = 0 /\ queue' = <<>> /\ held' = {}
    /\ UNCHANGED <<sess, diskVars, calls, announced, commands>>

\* A source that was not copied changes, or is removed, before all of it is read.
Change(u) ==
    /\ Occurs("change") /\ source[u] = "good" /\ \E c \in Chunks : fut[c] \in {"new", "queued"}
    /\ \E s \in {"changed", "gone"} : source' = [source EXCEPT ![u] = s]
    /\ UNCHANGED <<gateVars, sess, manifest, runVars, calls, announced, commands>>

-----------------------------------------------------------------------------

Prepare == Stage \/ InitUpload \/ WriteManifest \/ Boot \/ Verify \/ View \/ ViewEnds
Drive == Register \/ ReadTarget \/ RegisterGate \/ Greet \/ AutoResume \/ Exhausted \/ Report
         \/ Abandon \/ Unstage \/ Forget
Future(c) == Acquire(c) \/ ReadRange(c) \/ Stop(c) \/ Send(c) \/ Fail(c) \/ Learn(c) \/ Took(c)
Put(c) == PutOk(c) \/ PutErr(c)

Next ==
    \/ \E u \in Uploads : StartUpload(u) \/ SrvSweep(u) \/ Change(u)
    \/ Prepare \/ Drive \/ Stalled \/ GrantNext \/ Crash
    \/ \E c \in Chunks : Future(c) \/ Put(c)
    \/ \E op \in Ops, u \in Uploads : Command(op, u) \/ Deliver(op, u) \/ Undelivered(op, u)
    \/ \E n \in Permits : ChangeSetting(n) \/ ApplySetting(n)

Spec == Init /\ [][Next]_vars

\* The runtime polls the job and every future of it, a request is answered or times out,
\* and the network comes back for every chunk that is sent, or session asked for, again
\* and again.
Fairness ==
    /\ WF_vars(Prepare \/ Drive) /\ WF_vars(GrantNext)
    /\ \A c \in Chunks : WF_vars(Future(c) \/ Put(c)) /\ SF_vars(PutOk(c) \/ Learn(c))

FairSpec == Spec /\ Fairness

-----------------------------------------------------------------------------
(* Properties.                                                             *)

\* The shape of the job, its futures, the sessions and what is on disk.
TypeOK ==
    /\ sess \in [Uploads -> [state : Active \cup Terminal \cup {"none"}, got : SUBSET Chunks]]
    /\ manifest \in Uploads \cup {None} /\ source \in [Uploads -> {"none", "good", "changed", "gone"}]
    /\ job \in [pc : JobPCs, upload : Uploads \cup {None}, initial : 0..MaxPermits, paused : BOOLEAN,
                done : BOOLEAN, cancelled : BOOLEAN, manual : BOOLEAN, auto : BOOLEAN, active : BOOLEAN]
    /\ fut \in [Chunks -> FutStates] /\ bad \subseteq Chunks /\ fails \in [Chunks -> 0..(PollEvery - 1)]
    /\ calls \subseteq Ops \X Uploads
    /\ announced \in [Uploads -> Active \cup Terminal \cup {"none", "error"}]
    /\ target \in Permits /\ settings \subseteq Permits /\ applied \in 0..MaxPermits
    /\ held \subseteq Chunks /\ free \in Nat

\* An upload is shown as completed only when the server has every chunk of it: whatever
\* was lost, sent twice, interrupted or resumed, no chunk was taken for sent that was not.
CompletedHasAll == \A u \in Uploads : announced[u] = "completed" => sess[u].got = Chunks

\* While the manifest names an upload that still needs chunks, what they are read from is
\* not taken away by the app itself, across any crash and sweep.
SourceKept ==
    \A u \in Uploads :
        manifest = u /\ sess[u].state \in Active /\ announced[u] = "none" => source[u] # "none"

\* A driven upload comes to an end unless the user pauses it or it has read a changed source, and a
\* cancelled one ends even then: no chunk is left without a permit by a resize, no lost
\* answer keeps the loop going, and no pause, stall or dead network holds a cancel up.
UploadEnds == At("next") ~> (~At("next") \/ (~job.cancelled /\ (job.manual \/ bad # {})))

\* "The server is already cancelled (by the command or remotely)": what is announced as
\* cancelled, and then forgotten, is over on the server, or its cancel is on its way.
CancelledOnServer ==
    \A u \in Uploads : announced[u] = "cancelled" => sess[u].state \notin Active \/ <<"cancel", u>> \in calls
=============================================================================
