--------------------------- MODULE EqualizerStore ---------------------------
(***************************************************************************)
(* The server's equalizer of one account: profiles, device rules, the      *)
(* default profile, and the audit log from which an administrator rolls a  *)
(* change back.  Every request runs in one transaction that holds the row  *)
(* lock of the account (begin_locked), so a request is one step.           *)
(*                                                                         *)
(* A profile's name stands for its whole content, and no two profiles of   *)
(* an account may share it.  A rule's selectors are its own: only what it  *)
(* selects, a profile or Bypass, and its priority are kept.  The limits on *)
(* the number of rows are left out, and so are other accounts.             *)
(***************************************************************************)
EXTENDS Integers, FiniteSets, Sequences

CONSTANTS Profiles,      \* ids of profiles
          Rules,         \* ids of device rules
          Names,         \* what a profile can hold
          Editors,       \* signed-in devices of the account
          None,          \* no row, no default
          Bypass,        \* the action of a rule that selects no profile
          MaxRevision    \* bound on the changes of a behaviour

VARIABLES state,   \* the rows of the account
          log,     \* the audit entries: images before and after each change
          seen     \* per device, the state its last answer carried

storeVars == <<state, log, seen>>

Targets == Profiles \cup {Bypass}

ProfileRow == [name : Names, revision : Nat \ {0}]
RuleRow == [target : Targets, priority : Int, revision : Nat \ {0}]

ASSUME StoreAssumption ==
  /\ MaxRevision \in Nat
  /\ IsFiniteSet(Rules)
  /\ None \notin Profiles \cup ProfileRow \cup RuleRow
  /\ Bypass \notin Profiles \cup {None}

State == [profiles : [Profiles -> ProfileRow \cup {None}],
          rules : [Rules -> RuleRow \cup {None}],
          default : Profiles \cup {None},
          settings : Nat,        \* settings_revision
          revision : Nat]        \* state_revision

Empty == [profiles |-> [p \in Profiles |-> None],
          rules |-> [r \in Rules |-> None],
          default |-> None, settings |-> 0, revision |-> 0]

-----------------------------------------------------------------------------
(* What the requests read. *)

Present(rows) == {x \in DOMAIN rows : rows[x] # None}

\* The rules that select p, with their revisions.
References(s, p) ==
  {<<r, s.rules[r].revision>> : r \in {q \in Present(s.rules) : s.rules[q].target = p}}

NameTaken(s, p, n) == \E q \in Present(s.profiles) \ {p} : s.profiles[q].name = n

Dangling(s, target) == target \in Profiles /\ s.profiles[target] = None

\* A rule that is created goes to the bottom of the order.
BottomPriority(s) ==
  IF Present(s.rules) = {} THEN 1
  ELSE (CHOOSE n \in {s.rules[r].priority : r \in Present(s.rules)} :
          \A r \in Present(s.rules) : n <= s.rules[r].priority) - 1

(* The answers of a request: refused, already so, or done in the next      *)
(* revision of the state.                                                  *)
Refused(code, s) == [code |-> code, state |-> s]
Unchanged(s) == [code |-> "ok", state |-> s]
Changed(s) == [code |-> "ok", state |-> [s EXCEPT !.revision = @ + 1]]

-----------------------------------------------------------------------------
(* The requests, each from the state it finds to its answer. *)

CreateProfile(s, op) ==
  LET old == s.profiles[op.profile]
  IN  IF old # None /\ old.name = op.name THEN Unchanged(s)
      ELSE IF old # None \/ NameTaken(s, op.profile, op.name) THEN Refused("conflict", s)
      ELSE Changed([s EXCEPT !.profiles[op.profile] = [name |-> op.name, revision |-> 1]])

UpdateProfile(s, op) ==
  LET old == s.profiles[op.profile]
  IN  IF op.expected < 1 THEN Refused("invalid", s)
      ELSE IF old = None THEN Refused("missing", s)
      ELSE IF old.name = op.name THEN Unchanged(s)
      ELSE IF old.revision # op.expected \/ NameTaken(s, op.profile, op.name)
           THEN Refused("conflict", s)
      ELSE Changed([s EXCEPT !.profiles[op.profile] =
                              [name |-> op.name, revision |-> old.revision + 1]])

\* The rows that select a deleted profile select the replacement instead:
\* Bypass is a rule's flat replacement, None the default's.
Repointed(s, p, replacement) ==
  [s EXCEPT !.profiles[p] = None,
            !.rules = [r \in Rules |->
              IF s.rules[r] # None /\ s.rules[r].target = p
              THEN [s.rules[r] EXCEPT !.target = replacement, !.revision = @ + 1]
              ELSE s.rules[r]],
            !.default = IF @ # p THEN @
                        ELSE IF replacement = Bypass THEN None ELSE replacement,
            !.settings = IF s.default = p THEN @ + 1 ELSE @]

\* Mutant: what selects the profile is not compared with what the device saw.
DeleteUnseen(s, op) ==
  LET old == s.profiles[op.profile]
      referenced == s.default = op.profile \/ References(s, op.profile) # {}
  IN  IF op.expected < 1 THEN Refused("invalid", s)
      ELSE IF old = None THEN Unchanged(s)
      ELSE IF old.revision # op.expected \/ (op.replacement = None /\ referenced)
           THEN Refused("conflict", s)
      ELSE IF op.replacement # None /\ Dangling(s, op.replacement) THEN Refused("missing", s)
      ELSE Changed(Repointed(s, op.profile,
                             IF op.replacement = None THEN Bypass ELSE op.replacement))

DeleteProfile(s, op) ==
  LET old == s.profiles[op.profile]
      referenced == s.default = op.profile \/ References(s, op.profile) # {}
  IN  IF op.expected < 1 \/ \E ref \in op.references : ref[2] < 1
      THEN Refused("invalid", s)
      ELSE IF old = None THEN Unchanged(s)
      ELSE IF \/ old.revision # op.expected
              \/ s.settings # op.settings
              \/ References(s, op.profile) # op.references
              \/ op.replacement = None /\ referenced
           THEN Refused("conflict", s)
      ELSE IF op.replacement # None /\ Dangling(s, op.replacement) THEN Refused("missing", s)
      ELSE Changed(Repointed(s, op.profile,
                             IF op.replacement = None THEN Bypass ELSE op.replacement))

\* Mutant: the settings' revision moves, the state's does not.
UpdateSettingsQuietly(s, op) ==
  IF s.default = op.profile THEN Unchanged(s)
  ELSE IF s.settings # op.expected THEN Refused("conflict", s)
  ELSE IF op.profile # None /\ s.profiles[op.profile] = None THEN Refused("missing", s)
  ELSE [code |-> "ok", state |-> [s EXCEPT !.default = op.profile, !.settings = @ + 1]]

UpdateSettings(s, op) ==
  IF s.default = op.profile THEN Unchanged(s)
  ELSE IF s.settings # op.expected THEN Refused("conflict", s)
  ELSE IF op.profile # None /\ s.profiles[op.profile] = None THEN Refused("missing", s)
  ELSE Changed([s EXCEPT !.default = op.profile, !.settings = @ + 1])

CreateRule(s, op) ==
  LET old == s.rules[op.rule]
  IN  IF old # None /\ old.target = op.target THEN Unchanged(s)
      ELSE IF old # None THEN Refused("conflict", s)
      ELSE IF Dangling(s, op.target) THEN Refused("missing", s)
      ELSE Changed([s EXCEPT !.rules[op.rule] =
             [target |-> op.target, priority |-> BottomPriority(s), revision |-> 1]])

UpdateRule(s, op) ==
  LET old == s.rules[op.rule]
  IN  IF op.expected < 1 THEN Refused("invalid", s)
      ELSE IF old = None THEN Refused("missing", s)
      ELSE IF old.target = op.target THEN Unchanged(s)
      ELSE IF old.revision # op.expected THEN Refused("conflict", s)
      ELSE IF Dangling(s, op.target) THEN Refused("missing", s)
      ELSE Changed([s EXCEPT !.rules[op.rule].target = op.target,
                             !.rules[op.rule].revision = @ + 1])

DeleteRule(s, op) ==
  LET old == s.rules[op.rule]
  IN  IF op.expected < 1 THEN Refused("invalid", s)
      ELSE IF old = None THEN Unchanged(s)
      ELSE IF old.revision # op.expected THEN Refused("conflict", s)
      ELSE Changed([s EXCEPT !.rules[op.rule] = None])

\* op.order is the complete sequence of <<rule, expected revision>>, top first.
Place(s, op, r) ==
  Len(op.order) + 1 - (CHOOSE i \in 1 .. Len(op.order) : op.order[i][1] = r)

ReorderRules(s, op) ==
  LET asked == {op.order[i] : i \in 1 .. Len(op.order)}
      complete == /\ {ref[1] : ref \in asked} = Present(s.rules)
                  /\ Cardinality({ref[1] : ref \in asked}) = Len(op.order)
  IN  IF \E ref \in asked : ref[2] < 1 THEN Refused("invalid", s)
      ELSE IF ~complete THEN Refused("conflict", s)
      ELSE IF \A r \in Present(s.rules) : s.rules[r].priority = Place(s, op, r) THEN Unchanged(s)
      ELSE IF \E ref \in asked : s.rules[ref[1]].revision # ref[2] THEN Refused("conflict", s)
      ELSE Changed([s EXCEPT !.rules = [r \in Rules |->
             IF s.rules[r] = None \/ s.rules[r].priority = Place(s, op, r) THEN s.rules[r]
             ELSE [s.rules[r] EXCEPT !.priority = Place(s, op, r), !.revision = @ + 1]]])

Serve(s, op) ==
  CASE op.kind = "create profile" -> CreateProfile(s, op)
    [] op.kind = "update profile" -> UpdateProfile(s, op)
    [] op.kind = "delete profile" -> DeleteProfile(s, op)
    [] op.kind = "default" -> UpdateSettings(s, op)
    [] op.kind = "create rule" -> CreateRule(s, op)
    [] op.kind = "update rule" -> UpdateRule(s, op)
    [] op.kind = "delete rule" -> DeleteRule(s, op)
    [] op.kind = "reorder" -> ReorderRules(s, op)

-----------------------------------------------------------------------------
(* Rolling back a change: its rows get the contents of the before image,   *)
(* at a revision above any they had.                                       *)

ChangedRows(change, rows) ==
  {x \in DOMAIN change.before[rows] : change.before[rows][x] # change.after[rows][x]}

SettingsChanged(change) ==
  change.before.default # change.after.default \/ change.before.settings # change.after.settings

\* Nothing the change touched has changed since, nor who selects the
\* profiles it touched.
AfterImageMatches(s, change) ==
  /\ \A p \in ChangedRows(change, "profiles") :
       /\ s.profiles[p] = change.after.profiles[p]
       /\ References(s, p) = References(change.after, p)
       /\ (s.default = p) = (change.after.default = p)
  /\ \A r \in ChangedRows(change, "rules") : s.rules[r] = change.after.rules[r]
  /\ SettingsChanged(change) => /\ s.default = change.after.default
                                /\ s.settings = change.after.settings

RevisionOf(row) == IF row = None THEN 0 ELSE row.revision

Larger(m, n) == IF m > n THEN m ELSE n

Restored(now, before) ==
  IF before = None THEN None
  ELSE [before EXCEPT !.revision = Larger(@, RevisionOf(now)) + 1]

RolledBack(s, change) ==
  [profiles |-> [p \in Profiles |->
     IF p \in ChangedRows(change, "profiles")
     THEN Restored(s.profiles[p], change.before.profiles[p]) ELSE s.profiles[p]],
   rules |-> [r \in Rules |->
     IF r \in ChangedRows(change, "rules")
     THEN Restored(s.rules[r], change.before.rules[r]) ELSE s.rules[r]],
   default |-> IF SettingsChanged(change) THEN change.before.default ELSE s.default,
   settings |-> IF SettingsChanged(change) THEN s.settings + 1 ELSE s.settings,
   revision |-> s.revision + 1]

\* Mutant: only the unique names, no foreign keys.
ConsistentNames(s) ==
  \A p \in Present(s.profiles) : ~NameTaken(s, p, s.profiles[p].name)

\* The schema's unique names and deferred foreign keys, which the commit
\* of a rollback relies on: a row it brings back may select a profile that
\* was deleted, or have a name that was taken, since.
Consistent(s) ==
  /\ \A r \in Present(s.rules) : ~Dangling(s, s.rules[r].target)
  /\ s.default # None => s.profiles[s.default] # None
  /\ \A p \in Present(s.profiles) : ~NameTaken(s, p, s.profiles[p].name)

-----------------------------------------------------------------------------
(* The requests a device builds from the state it has.  Ids are fresh      *)
(* UUIDs: only a request sent again uses one a second time, and it carries *)
(* what it carried the first time.                                         *)

\* The row x was first created as, None if it never was.
FirstRow(rows, x) ==
  LET born == {k \in 1 .. Len(log) : log[k].after[rows][x] # None}
  IN  IF born = {} THEN None
      ELSE log[CHOOSE k \in born : \A l \in born : k <= l].after[rows][x]

Creations(s) ==
  {op \in [kind : {"create profile"}, profile : Profiles, name : Names] :
     FirstRow("profiles", op.profile) # None =>
       FirstRow("profiles", op.profile).name = op.name}
  \cup
  {op \in [kind : {"create rule"}, rule : Rules, target : Present(s.profiles) \cup {Bypass}] :
     FirstRow("rules", op.rule) # None => FirstRow("rules", op.rule).target = op.target}

ProfileUpdate(s, p, n) ==
  [kind |-> "update profile", profile |-> p, name |-> n, expected |-> s.profiles[p].revision]

RuleUpdate(s, r, target) ==
  [kind |-> "update rule", rule |-> r, target |-> target, expected |-> s.rules[r].revision]

DefaultUpdate(s, p) == [kind |-> "default", profile |-> p, expected |-> s.settings]

Updates(s) ==
  {ProfileUpdate(s, p, n) : p \in Present(s.profiles), n \in Names}
  \cup {RuleUpdate(s, r, t) : r \in Present(s.rules), t \in Present(s.profiles) \cup {Bypass}}
  \cup {DefaultUpdate(s, p) : p \in Present(s.profiles) \cup {None}}

\* A deletion names what selects the profile and what takes its place:
\* another profile, Bypass for flat, None to be refused if anything does.
ProfileDeletion(s, p, q) ==
  [kind |-> "delete profile", profile |-> p, replacement |-> q,
   expected |-> s.profiles[p].revision, settings |-> s.settings,
   references |-> References(s, p)]

RuleDeletion(s, r) == [kind |-> "delete rule", rule |-> r, expected |-> s.rules[r].revision]

Deletions(s) ==
  {op \in {ProfileDeletion(s, p, q) : p \in Present(s.profiles),
                                      q \in Present(s.profiles) \cup {Bypass, None}} :
     op.replacement # op.profile}
  \cup {RuleDeletion(s, r) : r \in Present(s.rules)}

Reorders(s) ==
  LET size == Cardinality(Present(s.rules))
  IN  {[kind |-> "reorder", order |-> [i \in 1 .. size |-> <<f[i], s.rules[f[i]].revision>>]] :
         f \in {g \in [1 .. size -> Present(s.rules)] :
                  \A r \in Present(s.rules) : \E i \in 1 .. size : g[i] = r}}

Requests(s) == Creations(s) \cup Updates(s) \cup Deletions(s) \cup Reorders(s)

-----------------------------------------------------------------------------
StoreInit ==
  /\ state = Empty
  /\ log = << >>
  /\ seen = [e \in Editors |-> Empty]

\* A transaction commits s: with an audit entry, unless nothing changed.
Commit(s) ==
  /\ state' = s
  /\ log' = IF s = state THEN log ELSE Append(log, [before |-> state, after |-> s])

\* The device asks for the state, with the revision it knows: the server
\* sends nothing when that is the current one.
Fetch(e) ==
  /\ seen' = [seen EXCEPT ![e] = IF @.revision = state.revision THEN @ ELSE state]
  /\ UNCHANGED <<state, log>>

\* The device's request runs, and its answer carries the state or is lost.
Edit(e) ==
  \E op \in Requests(seen[e]) :
    LET answer == Serve(state, op)
    IN  /\ state.revision < MaxRevision
        /\ answer.code = "ok"
        /\ Commit(answer.state)
        /\ \/ seen' = [seen EXCEPT ![e] = answer.state]
           \/ UNCHANGED seen

\* An administrator rolls a change back, from the current revision: with
\* another one, or when the schema objects, nothing happens.
Rollback ==
  /\ state.revision < MaxRevision
  /\ \E k \in 1 .. Len(log) :
       LET target == RolledBack(state, log[k])
       IN  /\ AfterImageMatches(state, log[k])
           /\ Consistent(target)
           /\ Commit(target)
  /\ UNCHANGED seen

StoreNext == Rollback \/ \E e \in Editors : Fetch(e) \/ Edit(e)

StoreSpec == StoreInit /\ [][StoreNext]_storeVars

-----------------------------------------------------------------------------
(* Properties. *)

\* Types of the rows, the log and what the devices have seen.
StoreTypeOK ==
  /\ state \in State
  /\ \A k \in 1 .. Len(log) : log[k].before \in State /\ log[k].after \in State
  /\ seen \in [Editors -> State]

\* No rule and no default selects a profile that is not there: whatever a
\* deletion repoints, and whatever a rollback brings back afterwards.
NoDangling ==
  /\ \A r \in Present(state.rules) : ~Dangling(state, state.rules[r].target)
  /\ state.default # None => state.profiles[state.default] # None

\* A state revision names one state: a device that the server answers
\* "not modified" has exactly what the server has.
SeenAtRevision ==
  \A e \in Editors : seen[e].revision = state.revision => seen[e] = state

\* The row x has been there in every state since revision n.
Lived(rows, x, n) ==
  \A k \in 1 .. Len(log) : log[k].after.revision >= n => log[k].after[rows][x] # None

\* Compare-and-swap: whatever rows of the server a device's request would
\* change are, at that moment, as the device saw them, however old its
\* state is and whatever was rolled back in between.  A row that was gone
\* and came back under its id is exempt: its revisions start over.
StaleNeverWins ==
  \A e \in Editors : \A op \in Requests(seen[e]) :
    LET after == Serve(state, op).state
    IN  /\ \A p \in Present(state.profiles) :
             /\ after.profiles[p] # state.profiles[p]
             /\ Lived("profiles", p, seen[e].revision)
             => state.profiles[p] = seen[e].profiles[p]
        /\ \A r \in Present(state.rules) :
             /\ after.rules[r] # state.rules[r]
             /\ Lived("rules", r, seen[e].revision)
             => state.rules[r] = seen[e].rules[r]
        /\ after.default # state.default => state.default = seen[e].default
=============================================================================
