---------------------------- MODULE EqualizerSync ----------------------------
(***************************************************************************)
(* A device's equalizer: the mirror of the server's state, the queue of    *)
(* edits the server has not seen, the conflicts set aside and the edits    *)
(* kept on the device, beside a server (EqualizerStore) that other devices *)
(* of the account write to and that can lose and regain its equalizer      *)
(* endpoints (a downgrade and an upgrade).                                 *)
(*                                                                         *)
(* A mutation and sync_now hold one lock; resolving a conflict does not.   *)
(* A request is two steps: the server serves it (or the network fails on   *)
(* the way there or back), then the device acts on what it got.  The user  *)
(* stays signed in.  Versions of the state's format, the ETag, the output  *)
(* bindings and the contents of the local layer are left out: the edits    *)
(* that reached the local layer are kept.                                  *)
(***************************************************************************)
EXTENDS EqualizerStore

CONSTANTS Mine,         \* profiles this device creates; others create the rest
          UserKinds,    \* kinds of edits the user makes
          OtherKinds,   \* kinds of requests other devices make
          MaxEdits,     \* bound on the user's edits
          MaxOthers,    \* bound on other devices' requests
          MaxFaults,    \* bound on lost messages, crashes and endpoint changes
          MaxResolves   \* bound on conflicts the user resolves

\* What the user sees: a row that only a queued edit has made has revision 0.
ShownProfile == [name : Names, revision : Nat]
ShownRule == [target : Targets, priority : Int, revision : Nat]
ShownState == [profiles : [Profiles -> ShownProfile \cup {None}],
               rules : [Rules -> ShownRule \cup {None}],
               default : Profiles \cup {None}, settings : Nat, revision : Nat]

ASSUME SyncAssumption ==
  /\ Mine \subseteq Profiles /\ Names # {}
  /\ None \notin ShownProfile \cup ShownRule \cup ShownState
  /\ {MaxEdits, MaxOthers, MaxFaults, MaxResolves} \subseteq Nat

VARIABLES
  served,      \* the server has the equalizer endpoints
  mirror,      \* the device's copy of the server's state
  complete,    \* the device has had a complete snapshot
  support,     \* what the device knows of the server
  queue,       \* pending_equalizer_ops, by the row's id
  conflicts,   \* equalizer_conflicts, by the id the row had in the queue
  local,       \* ids of the edits that reached the local layer
  pc,          \* what the holder of the lock does; "idle" when it is free
  task,        \* the user's edit the lock is held for
  answer,      \* the outcome of the request under way
  resolving,   \* a resolution under way
  done,        \* ids of the edits the server has acknowledged
  dropped,     \* ids of the edits refused to the user, or given up
  cut,         \* ids of the edits the device let go of without knowing whether the server has them
  rows,        \* row ids given to the queue
  made,        \* ids of profiles and rules ever created
  spent        \* per bound, how often it was used

device == <<mirror, complete, support, queue, conflicts, local>>
history == <<done, dropped, cut, rows, made, spent>>
syncVars == <<storeVars, served, device, pc, task, answer, resolving, history>>

Down == [code |-> "transport"]
Absent == [code |-> "unimplemented"]

\* Tables: rows by their ids.
NoRows == [r \in {} |-> None]
Some(table) == DOMAIN table # {}
Oldest(R) == CHOOSE r \in R : \A q \in R : r <= q
First(table) == table[Oldest(DOMAIN table)]
Without(table, R) == [r \in DOMAIN table \ R |-> table[r]]

Spend(what) == /\ spent[what] > 0
               /\ spent' = [spent EXCEPT ![what] = @ - 1]

-----------------------------------------------------------------------------
(* Queued operations. *)

\* The state the user sees: each queued edit over the mirror, with no
\* revisions of its own.  An update of a row that is not there fails.
Materialize(op, s) ==
  IF s = None THEN None
  ELSE
  CASE op.kind = "create profile" ->
         IF s.profiles[op.profile] # None THEN s
         ELSE [s EXCEPT !.profiles[op.profile] = [name |-> op.name, revision |-> 0]]
    [] op.kind = "update profile" ->
         IF s.profiles[op.profile] = None THEN None
         ELSE [s EXCEPT !.profiles[op.profile].name = op.name]
    [] op.kind = "delete profile" ->
         LET target == IF op.replacement \in Profiles THEN op.replacement ELSE Bypass
         IN  [s EXCEPT !.profiles[op.profile] = None,
                       !.rules = [r \in Rules |->
                          IF s.rules[r] # None /\ s.rules[r].target = op.profile
                          THEN [s.rules[r] EXCEPT !.target = target] ELSE s.rules[r]],
                       !.default = IF @ # op.profile THEN @
                                   ELSE IF target = Bypass THEN None ELSE target]
    [] op.kind = "default" -> [s EXCEPT !.default = op.profile]
    [] op.kind = "create rule" ->
         IF s.rules[op.rule] # None THEN s
         ELSE [s EXCEPT !.rules[op.rule] =
                 [target |-> op.target, priority |-> BottomPriority(s), revision |-> 0]]
    [] op.kind = "update rule" ->
         IF s.rules[op.rule] = None THEN None ELSE [s EXCEPT !.rules[op.rule].target = op.target]
    [] op.kind = "delete rule" -> [s EXCEPT !.rules[op.rule] = None]

Overlay[n \in 0 .. rows] ==
  IF n = 0 THEN mirror
  ELSE IF n \in DOMAIN queue THEN Materialize(queue[n].op, Overlay[n - 1]) ELSE Overlay[n - 1]

Snapshot == Overlay[rows]

Readable == Snapshot # None

\* Mutant: queued operations keep the revisions they were made with.
RebaseNot(op, s) == op

\* A queued operation expects the revisions of the state it will meet.
Rebase(op, s) ==
  CASE op.kind = "update profile" /\ s.profiles[op.profile] # None ->
         [op EXCEPT !.expected = s.profiles[op.profile].revision]
    [] op.kind = "delete profile" ->
         [op EXCEPT !.expected = IF s.profiles[op.profile] = None THEN @
                                 ELSE s.profiles[op.profile].revision,
                    !.settings = s.settings,
                    !.references = References(s, op.profile)]
    [] op.kind = "default" -> [op EXCEPT !.expected = s.settings]
    [] op.kind \in {"update rule", "delete rule"} /\ s.rules[op.rule] # None ->
         [op EXCEPT !.expected = s.rules[op.rule].revision]
    [] OTHER -> op

Group(op) ==
  CASE op.kind \in {"create profile", "update profile", "delete profile"} -> op.profile
    [] op.kind = "default" -> IF op.profile = None THEN "settings" ELSE op.profile
    [] op.kind \in {"create rule", "update rule"} ->
         IF op.target = Bypass THEN op.rule ELSE op.target
    [] op.kind = "delete rule" -> op.rule

\* The profiles and rules an operation depends on.
Entities(op) ==
  CASE op.kind \in {"create profile", "update profile"} -> {op.profile}
    [] op.kind = "delete profile" ->
         {op.profile} \cup {ref[1] : ref \in op.references} \cup ({op.replacement} \cap Profiles)
    [] op.kind = "default" -> {op.profile} \ {None}
    [] op.kind \in {"create rule", "update rule"} -> {op.rule} \cup ({op.target} \cap Profiles)
    [] op.kind = "delete rule" -> {op.rule}

\* The rows of the queue that share an entity with an operation.
Linked(q, op) == {r \in DOMAIN q : Entities(q[r].op) \cap Entities(op) # {}}

\* The queue with op behind it, all the rows of the groups merged in its own.  behind is
\* history: the rows it depended on.
Behind(q, id, op, merged, group) ==
  [r \in DOMAIN q \cup {rows + 1} |->
     IF r = rows + 1 THEN [id |-> id, op |-> op, group |-> group, behind |-> Linked(q, op)]
     ELSE IF q[r].group \in merged THEN [q[r] EXCEPT !.group = group] ELSE q[r]]

\* Mutant: rows are grouped by name only.
EnqueuedByName(q, id, op) == Behind(q, id, op, {}, Group(op))

\* All the groups op is linked to, by an entity or by name, become one:
\* that of their oldest row.
Enqueued(q, id, op) ==
  LET linked == Linked(q, op) \cup {r \in DOMAIN q : q[r].group = Group(op)}
  IN  Behind(q, id, op, {q[r].group : r \in linked},
             IF linked = {} THEN Group(op) ELSE q[Oldest(linked)].group)

Enqueue(id, op) ==
  /\ queue' = Enqueued(queue, id, op)
  /\ rows' = rows + 1

\* The edits the user can make of what is on the screen.
UserRequests(s) ==
  {op \in Creations(s) \cup Updates(s) \cup Deletions(s) :
     /\ op.kind \in UserKinds
     /\ Materialize(op, s) # s
     /\ op.kind = "create profile" => op.profile \in Mine \ made
     /\ op.kind = "create rule" => op.rule \notin made
     /\ op.kind \in {"create profile", "update profile"} => ~NameTaken(s, op.profile, op.name)
     /\ (op.kind = "delete profile" /\ op.replacement = None) =>
          s.default # op.profile /\ References(s, op.profile) = {}}

Created(op) == IF op.kind = "create profile" THEN {op.profile}
               ELSE IF op.kind = "create rule" THEN {op.rule} ELSE {}

-----------------------------------------------------------------------------
\* The device joins an account on which others may have made a profile.
Inherited ==
  {Empty} \cup {[Empty EXCEPT !.profiles[p] = [name |-> CHOOSE n \in Names : TRUE, revision |-> 1],
                             !.revision = 1] : p \in Profiles \ Mine}

SyncInit ==
  /\ state \in Inherited /\ log = << >> /\ seen = << >>
  /\ served = TRUE
  /\ mirror = Empty /\ complete = FALSE /\ support = "unknown"
  /\ queue = NoRows /\ conflicts = NoRows /\ local = {}
  /\ pc = "idle" /\ task = None /\ answer = None /\ resolving = None
  /\ done = {} /\ dropped = {} /\ cut = {} /\ rows = 0
  /\ made = Present(state.profiles)
  /\ spent = [edits |-> MaxEdits, others |-> MaxOthers, faults |-> MaxFaults,
               resolves |-> MaxResolves]

NextEdit == MaxEdits - spent.edits + 1

\* The lock is held for an edit.
Editing == pc \in {"probe", "direct"}

(* apply_mutation_or_local, up to its request. *)

\* The server is known to have no equalizer: the edit is the device's own.
EditLocally ==
  /\ pc = "idle" /\ support = "unsupported"
  /\ Spend("edits")
  /\ local' = local \cup {NextEdit}
  /\ UNCHANGED <<storeVars, served, mirror, complete, support, queue, conflicts, pc, task,
                 answer, resolving, done, dropped, cut, rows, made>>

\* An edit never overtakes older ones: it joins their queue.
Route(id, op) ==
  IF Some(queue)
  THEN Enqueue(id, op) /\ pc' = "idle" /\ task' = None
  ELSE pc' = "direct" /\ task' = [id |-> id, op |-> op] /\ UNCHANGED <<queue, rows>>

EditStart ==
  /\ pc = "idle" /\ support # "unsupported" /\ Readable
  /\ \E op \in UserRequests(Snapshot) :
       /\ Spend("edits")
       /\ made' = made \cup Created(op)
       /\ IF support = "unknown"
          THEN pc' = "probe" /\ task' = [id |-> NextEdit, op |-> op] /\ UNCHANGED <<queue, rows>>
          ELSE Route(NextEdit, op)
  /\ UNCHANGED <<storeVars, served, mirror, complete, support, conflicts, local, answer,
                 resolving, done, dropped, cut>>

(* sync_now takes the lock. *)
Loop(q) == IF Some(q) THEN "head" ELSE "pull"

SyncStart ==
  /\ pc = "idle"
  /\ pc' = IF support = "supported" THEN Loop(queue) ELSE "sync probe"
  /\ UNCHANGED <<storeVars, served, device, task, answer, resolving, history>>

-----------------------------------------------------------------------------
(* A request, from the device's side: what the server does with it. *)

Asking == pc \in {"probe", "sync probe", "direct", "head", "pull"} /\ answer = None

Outcome(s) ==
  IF ~served THEN Absent
  ELSE CASE pc \in {"probe", "sync probe", "pull"} -> Unchanged(s)
         [] pc = "direct" -> Serve(s, task.op)
         [] pc = "head" -> Serve(s, First(queue).op)

Served(s) == IF served THEN Outcome(s).state ELSE s

\* The call is answered.  It may be its REST attempt that is, behind a gRPC
\* attempt that the server served and whose answer was lost.
Request ==
  /\ Asking
  /\ \E s \in {state, Served(state)} :
       /\ state' = Served(s)
       /\ answer' = IF Outcome(s).code = "ok" THEN Outcome(s) ELSE [code |-> Outcome(s).code]
  /\ UNCHANGED <<log, seen, served, device, pc, task, resolving, history>>

\* The network fails before the server has the request, or after.
Lose ==
  /\ Asking /\ Spend("faults")
  /\ state' \in {state, Served(state)}
  /\ answer' = Down
  /\ UNCHANGED <<log, seen, served, device, pc, task, resolving, done, dropped, cut, rows, made>>

-----------------------------------------------------------------------------
(* What the device does with the outcome. *)

Mirrored(s) == mirror' = s /\ complete' = TRUE /\ support' = "supported"

Idle == pc' = "idle" /\ task' = None /\ answer' = None

\* probe_support, for a mutation: then the edit goes its way.
ProbeAnswered ==
  /\ pc = "probe" /\ answer # None
  /\ answer' = None
  /\ CASE answer.code = "ok" ->
            Mirrored(answer.state) /\ Route(task.id, task.op) /\ UNCHANGED local
       [] answer = Down ->
            Route(task.id, task.op) /\ UNCHANGED <<mirror, complete, support, local>>
       [] answer = Absent ->
            /\ support' = "unsupported" /\ local' = local \cup {task.id}
            /\ pc' = "idle" /\ task' = None
            /\ UNCHANGED <<mirror, complete, queue, rows>>
  /\ UNCHANGED <<storeVars, served, conflicts, resolving, done, dropped, cut, made, spent>>

\* probe_support, for sync_now.
SyncProbeAnswered ==
  /\ pc = "sync probe" /\ answer # None
  /\ answer' = None
  /\ CASE answer.code = "ok" -> Mirrored(answer.state) /\ pc' = Loop(queue)
       [] answer = Down -> pc' = "idle" /\ UNCHANGED <<mirror, complete, support>>
       [] answer = Absent ->
            pc' = "idle" /\ support' = "unsupported" /\ UNCHANGED <<mirror, complete>>
  /\ UNCHANGED <<storeVars, served, queue, conflicts, local, task, resolving, history>>

\* apply_synced_op, from its answer.
DirectAnswered ==
  /\ pc = "direct" /\ answer # None
  /\ Idle
  /\ CASE answer.code = "ok" ->
            /\ Mirrored(answer.state) /\ done' = done \cup {task.id}
            /\ UNCHANGED <<queue, rows, local, dropped, cut>>
       [] answer = Absent ->
            /\ support' = "unsupported" /\ local' = local \cup {task.id}
            /\ UNCHANGED <<mirror, complete, queue, rows, done, dropped, cut>>
       [] answer = Down ->
            /\ IF support = "unknown" \/ ~complete
               THEN /\ local' = local \cup {task.id} /\ cut' = cut \cup {task.id}
                    /\ UNCHANGED <<queue, rows>>
               ELSE Enqueue(task.id, task.op) /\ UNCHANGED <<local, cut>>
            /\ UNCHANGED <<mirror, complete, support, done, dropped>>
       [] OTHER ->
            /\ dropped' = dropped \cup {task.id}
            /\ UNCHANGED <<mirror, complete, support, queue, rows, local, done, cut>>
  /\ UNCHANGED <<storeVars, served, conflicts, resolving, made, spent>>

\* The state in the answer, the acknowledged row and the rows behind it
\* change in one transaction.
Acknowledge ==
  /\ answer.code = "ok"
  /\ Mirrored(answer.state)
  /\ queue' = [r \in DOMAIN queue \ {Oldest(DOMAIN queue)} |->
                 [queue[r] EXCEPT !.op = Rebase(@, answer.state)]]
  /\ done' = done \cup {First(queue).id}
  /\ pc' = Loop(queue')
  /\ UNCHANGED conflicts

\* move_dependency_to_conflicts.
SetAside ==
  /\ answer.code = "conflict"
  /\ LET grouped == {r \in DOMAIN queue : queue[r].group = First(queue).group}
     IN  /\ conflicts' = [r \in DOMAIN conflicts \cup grouped |->
              IF r \in grouped THEN [id |-> queue[r].id, op |-> queue[r].op, group |-> queue[r].group]
              ELSE conflicts[r]]
         /\ queue' = Without(queue, grouped)
  /\ pc' = Loop(queue')
  /\ UNCHANGED <<mirror, complete, support, done>>

\* The network failed, or the server refuses the row on its merits: it
\* stays at the head, and sync_now ends.
Stop ==
  /\ answer.code \in {"transport", "missing", "invalid"}
  /\ pc' = "idle"
  /\ UNCHANGED <<mirror, complete, support, queue, conflicts, done>>

\* The endpoint is gone: the edits go to the local layer.
Abandon ==
  /\ answer = Absent
  /\ pc' = "preserve"
  /\ UNCHANGED <<mirror, complete, support, queue, conflicts, done>>

HeadAnswered ==
  /\ pc = "head" /\ answer # None
  /\ Acknowledge \/ SetAside \/ Stop \/ Abandon
  /\ answer' = None
  /\ UNCHANGED <<storeVars, served, local, task, resolving, dropped, cut, rows, made, spent>>

\* Mutant: the queue is emptied once its head is copied.
PreserveHead ==
  /\ pc = "preserve"
  /\ local' = IF Some(queue) THEN local \cup {First(queue).id} ELSE local
  /\ queue' = NoRows /\ support' = "unsupported" /\ pc' = "idle"
  /\ UNCHANGED <<storeVars, served, mirror, complete, conflicts, task, answer, resolving, history>>

\* preserve_pending_as_local: one row after another is applied to the local
\* layer, then deleted; at the end the server is known to have no equalizer.
Preserve ==
  /\ pc = "preserve"
  /\ \/ /\ Some(queue) /\ First(queue).id \notin local
        /\ local' = local \cup {First(queue).id}
        /\ UNCHANGED <<queue, support, pc>>
     \/ /\ Some(queue) /\ First(queue).id \in local
        /\ queue' = Without(queue, {Oldest(DOMAIN queue)})
        /\ UNCHANGED <<local, support, pc>>
     \/ /\ ~Some(queue)
        /\ support' = "unsupported" /\ pc' = "idle"
        /\ UNCHANGED <<local, queue>>
  /\ UNCHANGED <<storeVars, served, mirror, complete, conflicts, task, answer, resolving, history>>

\* Mutant: a device that has a complete snapshot keeps it.
PullKept ==
  /\ pc = "pull" /\ answer # None
  /\ Idle
  /\ CASE answer.code = "ok" ->
            /\ complete' = TRUE /\ support' = "supported"
            /\ mirror' = IF complete THEN mirror ELSE answer.state
       [] answer = Absent -> support' = "unsupported" /\ UNCHANGED <<mirror, complete>>
       [] answer = Down -> UNCHANGED <<mirror, complete, support>>
  /\ UNCHANGED <<storeVars, served, queue, conflicts, local, resolving, history>>

\* The answer to a pull says nothing new when the revision is the known one.
PullAnswered ==
  /\ pc = "pull" /\ answer # None
  /\ Idle
  /\ CASE answer.code = "ok" ->
            /\ complete' = TRUE /\ support' = "supported"
            /\ mirror' = IF complete /\ mirror.revision = answer.state.revision THEN mirror
                         ELSE answer.state
       [] answer = Absent -> support' = "unsupported" /\ UNCHANGED <<mirror, complete>>
       [] answer = Down -> UNCHANGED <<mirror, complete, support>>
  /\ UNCHANGED <<storeVars, served, queue, conflicts, local, resolving, history>>

-----------------------------------------------------------------------------
(* Conflicts: resolve_conflict and discard_conflict, without the lock. *)

\* The user settles the conflicts of one group: they are queued again over
\* the mirror as it is now, kept in the local layer, or left to the server.
ResolveStart ==
  /\ resolving = None
  /\ \E c \in DOMAIN conflicts, how \in {"retry", "keep_local_copy", "keep_server"} :
       LET group == {d \in DOMAIN conflicts : conflicts[d].group = conflicts[c].group}
       IN  resolving' = [how |-> how, base |-> mirror, drop |-> group,
                         todo |-> IF how = "keep_server" THEN {} ELSE group]
  /\ Spend("resolves")
  /\ UNCHANGED <<storeVars, served, device, pc, task, answer, done, dropped, cut, rows, made>>

\* One conflict after another takes its way ...
ResolveNext ==
  /\ resolving # None /\ resolving.todo # {}
  /\ LET c == conflicts[Oldest(resolving.todo)]
     IN  IF resolving.how = "retry"
         THEN Enqueue(c.id, Rebase(c.op, resolving.base)) /\ UNCHANGED local
         ELSE local' = local \cup {c.id} /\ UNCHANGED <<queue, rows>>
  /\ resolving' = [resolving EXCEPT !.todo = @ \ {Oldest(@)}]
  /\ UNCHANGED <<storeVars, served, mirror, complete, support, conflicts, pc, task, answer,
                 done, dropped, cut, made, spent>>

\* ... and then all are deleted, one by one.
ResolveDrop ==
  /\ resolving # None /\ resolving.todo = {}
  /\ LET c == Oldest(resolving.drop)
     IN  /\ conflicts' = Without(conflicts, {c})
         /\ dropped' = IF resolving.how = "keep_server" THEN dropped \cup {conflicts[c].id}
                       ELSE dropped
         /\ resolving' = IF resolving.drop = {c} THEN None
                         ELSE [resolving EXCEPT !.drop = @ \ {c}]
  /\ UNCHANGED <<storeVars, served, mirror, complete, support, queue, local, pc, task, answer,
                 done, cut, rows, made, spent>>

Discard ==
  /\ resolving = None
  /\ \E c \in DOMAIN conflicts :
       /\ conflicts' = Without(conflicts, {c})
       /\ dropped' = dropped \cup {conflicts[c].id}
  /\ Spend("resolves")
  /\ UNCHANGED <<storeVars, served, mirror, complete, support, queue, local, pc, task, answer,
                 resolving, done, cut, rows, made>>

-----------------------------------------------------------------------------
(* The device stops and starts again; the server's endpoints go and come;  *)
(* another device of the account writes to the server.                     *)

\* A crash while sync_now waits for the server is a request that failed.  One amid
\* preserve_pending_as_local leaves a device that goes on from its mirror, although
\* the server may have what it handed to the local layer.
Crash ==
  /\ Editing \/ answer # None \/ pc = "preserve" \/ resolving # None
  /\ Spend("faults")
  /\ pc' = "idle" /\ task' = None /\ answer' = None /\ resolving' = None
  /\ cut' = cut \cup (IF Editing THEN {task.id} ELSE IF pc = "preserve" THEN local ELSE {})
  /\ UNCHANGED <<storeVars, served, device, done, dropped, rows, made>>

Redeploy ==
  /\ Spend("faults")
  /\ served' = ~served
  /\ UNCHANGED <<storeVars, device, pc, task, answer, resolving, done, dropped, cut, rows, made>>

OtherDevice ==
  /\ served
  /\ Spend("others")
  /\ \E op \in Requests(state) :
       /\ op.kind \in OtherKinds
       /\ op.kind = "create profile" => op.profile \notin Mine \cup made
       /\ op.kind = "create rule" => op.rule \notin made
       /\ Serve(state, op).state # state
       /\ state' = Serve(state, op).state
       /\ made' = made \cup Created(op)
  /\ UNCHANGED <<log, seen, served, device, pc, task, answer, resolving, done, dropped, cut, rows>>

Answered ==
  \/ ProbeAnswered \/ SyncProbeAnswered \/ DirectAnswered \/ HeadAnswered \/ PullAnswered

SyncNext ==
  \/ EditLocally \/ EditStart \/ SyncStart \/ Request \/ Lose \/ Answered \/ Preserve
  \/ ResolveStart \/ ResolveNext \/ ResolveDrop \/ Discard
  \/ Crash \/ Redeploy \/ OtherDevice

\* sync_now is called again and again, what holds the lock goes on, and the
\* server answers; nobody has to edit, to settle a conflict or to fail.
SyncFairness ==
  /\ WF_syncVars(SyncStart)
  /\ WF_syncVars(Request)
  /\ WF_syncVars(Answered)
  /\ WF_syncVars(Preserve)

SyncSpec == SyncInit /\ [][SyncNext]_syncVars /\ SyncFairness

-----------------------------------------------------------------------------
(* Properties. *)

Ids(table) == {table[r].id : r \in DOMAIN table}

\* Types of the device's and the lock's state.
SyncTypeOK ==
  /\ state \in State /\ mirror \in State
  /\ support \in {"unknown", "supported", "unsupported"}
  /\ pc \in {"idle", "probe", "sync probe", "direct", "head", "pull", "preserve"}
  /\ DOMAIN queue \subseteq 1 .. rows /\ Ids(queue) \subseteq 1 .. MaxEdits
  /\ pc = "head" => Some(queue)
  /\ \A ids \in {local, done, dropped, cut} : ids \subseteq 1 .. MaxEdits
  /\ (task # None) = Editing

\* Every edit the user made is under way, queued, in conflict, in the local
\* layer, acknowledged by the server, refused or given up, whatever failed;
\* only a crash during the edit itself can leave it unanswered.
EditsAccountedFor ==
  1 .. NextEdit - 1 =
    Ids(queue) \cup Ids(conflicts) \cup local \cup done \cup dropped \cup cut
    \cup IF Editing THEN {task.id} ELSE {}

\* Nobody else has written to the account.
Alone == spent.others = MaxOthers /\ made \cap Profiles \subseteq Mine

\* The device is not in conflict with itself: while nobody else writes, and it
\* has not let go of an edit that the server may have, no edit conflicts or is
\* refused, although answers are lost, requests are sent again, and edits made
\* on the device meet revisions they never saw.
NeverAgainstItself ==
  Alone /\ cut = {} => ~Some(conflicts) /\ dropped = {}

\* When an edit is set aside, so is every edit queued behind it that
\* depended on it: none of those reaches the server without it.
DependentsSetAside ==
  \A r \in DOMAIN queue : queue[r].behind \cap DOMAIN conflicts = {}

\* The head of the queue is refused on its merits and stays there.
Blocked == Some(queue) /\ Serve(state, First(queue).op).code \in {"missing", "invalid"}

\* In the end the queue has been replayed and the mirror is what the server
\* has, if the server has an equalizer and does not refuse the head.
Converges == <>[](Blocked \/ ~served \/ (~Some(queue) /\ mirror = state))

\* The same of every queue.
Replayed == <>[](~served \/ ~Some(queue))
=============================================================================
