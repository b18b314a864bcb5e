-------------------------- MODULE EqualizerProofs ---------------------------
(***************************************************************************)
(* Theorems about the equalizer, for any profiles, rules, names, devices   *)
(* and number of changes.                                                  *)
(*                                                                         *)
(* On the server, whatever a request or a rollback does, it advances the   *)
(* account: a row that stays is the same or has a higher revision, and so  *)
(* have the settings.  The audit log therefore holds one state per         *)
(* revision, and a row the log shows was never away since a revision is    *)
(* either the one it was then or a newer one.                              *)
(*                                                                         *)
(* On the device, no edit of the user's is lost, and what depends on an    *)
(* edit that is set aside is set aside with it, whatever is lost,          *)
(* interrupted, resolved or written by others.                             *)
(*                                                                         *)
(* By itself on its account, the device has no conflict.  An edit is taken *)
(* for what it does, whatever revisions it expects: its view.  Each queued *)
(* edit fits the view that the mirror and the edits before it give, so the *)
(* server, once it has come that far, takes it; and taken twice, because   *)
(* an answer was lost, it is done once.                                    *)
(***************************************************************************)
EXTENDS EqualizerSync, FiniteSetTheorems, WellFoundedInduction, TLAPS

-----------------------------------------------------------------------------
(* The account on the server (EqualizerStore).                             *)

\* No rule and no default of s selects a profile that is not there.
Whole(s) ==
  /\ \A r \in Present(s.rules) : ~Dangling(s, s.rules[r].target)
  /\ s.default # None => s.profiles[s.default] # None

\* The bottom of the order sinks by at most one per revision.
Low(s) == \A r \in Present(s.rules) : -s.revision <= s.rules[r].priority

\* The row x is what it was, or newer, unless it was or is not there.
Newer(table, old, x) ==
  old[x] # None /\ table[x] # None => table[x] = old[x] \/ table[x].revision > old[x].revision

\* No row and no setting of t is older than in s.
Follows(s, t) ==
  /\ \A p \in Profiles : Newer(t.profiles, s.profiles, p)
  /\ \A r \in Rules : Newer(t.rules, s.rules, r)
  /\ (t.settings = s.settings /\ t.default = s.default) \/ t.settings > s.settings

\* What one change of an account does, whichever it is.
Advances(s, t) ==
  /\ t \in State /\ t.revision = s.revision + 1
  /\ Follows(s, t)
  /\ Low(s) => Low(t)
  /\ Whole(s) => Whole(t)

\* Writing a profile at a higher revision advances the account:
\* create_equalizer_profile and update_equalizer_profile.
LEMMA ProfileWritten ==
  ASSUME NEW s \in State, NEW p \in Profiles, NEW row \in ProfileRow,
         s.profiles[p] # None => row.revision > s.profiles[p].revision
  PROVE  Advances(s, Changed([s EXCEPT !.profiles[p] = row]).state)
<1> DEFINE t == Changed([s EXCEPT !.profiles[p] = row]).state
<1>1. t = [profiles |-> [s.profiles EXCEPT ![p] = row], rules |-> s.rules,
           default |-> s.default, settings |-> s.settings, revision |-> s.revision + 1]
  BY DEF Changed, State
<1>3. row # None  BY StoreAssumption
<1>7. [s.profiles EXCEPT ![p] = row] \in [Profiles -> ProfileRow \cup {None}]  BY DEF State
<1> HIDE DEF t
<1>2. t \in State  BY <1>1, <1>7 DEF State
<1>4. Follows(s, t)  BY <1>1, <1>3 DEF Follows, Newer, State
<1>5. Low(s) => Low(t)  BY <1>1 DEF Low, Present, State, RuleRow
<1>6. Whole(s) => Whole(t)  BY <1>1, <1>3 DEF Whole, Present, Dangling, State
<1> QED  BY <1>1, <1>2, <1>4, <1>5, <1>6 DEF Advances, t

\* So does writing a rule that selects a profile that is there, not far
\* below the others: create_equalizer_rule and update_equalizer_rule.
LEMMA RuleWritten ==
  ASSUME NEW s \in State, NEW r \in Rules, NEW row \in RuleRow,
         ~Dangling(s, row.target), Low(s) => -s.revision - 1 <= row.priority,
         s.rules[r] # None => row.revision > s.rules[r].revision
  PROVE  Advances(s, Changed([s EXCEPT !.rules[r] = row]).state)
<1> DEFINE t == Changed([s EXCEPT !.rules[r] = row]).state
<1>1. t = [profiles |-> s.profiles, rules |-> [s.rules EXCEPT ![r] = row],
           default |-> s.default, settings |-> s.settings, revision |-> s.revision + 1]
  BY DEF Changed, State
<1>2. [s.rules EXCEPT ![r] = row] \in [Rules -> RuleRow \cup {None}]  BY DEF State
<1> HIDE DEF t
<1>3. t \in State  BY <1>1, <1>2 DEF State
<1>4. Follows(s, t)  BY <1>1 DEF Follows, Newer, State
<1>5. Low(s) => Low(t)  BY <1>1 DEF Low, Present, State, RuleRow
<1>6. Whole(s) => Whole(t)  BY <1>1 DEF Whole, Present, Dangling, State
<1> QED  BY <1>1, <1>3, <1>4, <1>5, <1>6 DEF Advances, t

\* So does deleting a rule: delete_equalizer_rule.
LEMMA RuleDeleted ==
  ASSUME NEW s \in State, NEW r \in Rules
  PROVE  Advances(s, Changed([s EXCEPT !.rules[r] = None]).state)
<1> DEFINE t == Changed([s EXCEPT !.rules[r] = None]).state
<1>1. t = [profiles |-> s.profiles, rules |-> [s.rules EXCEPT ![r] = None],
           default |-> s.default, settings |-> s.settings, revision |-> s.revision + 1]
  BY DEF Changed, State
<1>2. [s.rules EXCEPT ![r] = None] \in [Rules -> RuleRow \cup {None}]  BY DEF State
<1> HIDE DEF t
<1>3. t \in State  BY <1>1, <1>2 DEF State
<1>4. Follows(s, t)  BY <1>1 DEF Follows, Newer, State
<1>5. Low(s) => Low(t)  BY <1>1 DEF Low, Present, State, RuleRow
<1>6. Whole(s) => Whole(t)  BY <1>1 DEF Whole, Present, Dangling, State
<1> QED  BY <1>1, <1>3, <1>4, <1>5, <1>6 DEF Advances, t

\* So does selecting another default that is there: update_equalizer_settings.
LEMMA DefaultWritten ==
  ASSUME NEW s \in State, NEW p \in Profiles \cup {None}, p # None => s.profiles[p] # None
  PROVE  Advances(s, Changed([s EXCEPT !.default = p, !.settings = @ + 1]).state)
<1> DEFINE t == Changed([s EXCEPT !.default = p, !.settings = @ + 1]).state
<1>1. t = [profiles |-> s.profiles, rules |-> s.rules, default |-> p,
           settings |-> s.settings + 1, revision |-> s.revision + 1]
  BY DEF Changed, State
<1> HIDE DEF t
<1>3. t \in State  BY <1>1 DEF State
<1>4. Follows(s, t)  BY <1>1 DEF Follows, Newer, State
<1>5. Low(s) => Low(t)  BY <1>1 DEF Low, Present, State, RuleRow
<1>6. Whole(s) => Whole(t)  BY <1>1 DEF Whole, Present, Dangling, State
<1> QED  BY <1>1, <1>3, <1>4, <1>5, <1>6 DEF Advances, t

\* A rule that is pointed at another target stays a rule, one revision on.
LEMMA RowReplaced ==
  ASSUME NEW row \in RuleRow, NEW q \in Targets
  PROVE  LET new == [row EXCEPT !.target = q, !.revision = @ + 1]
         IN  /\ new \in RuleRow /\ new.target = q
             /\ new.priority = row.priority /\ new.revision = row.revision + 1
<1> DEFINE new == [row EXCEPT !.target = q, !.revision = @ + 1]
           moved == [row EXCEPT !.target = q]
<1>1. new = [moved EXCEPT !.revision = @ + 1]  OBVIOUS
<1>2. moved = [target |-> q, priority |-> row.priority, revision |-> row.revision]
  BY DEF RuleRow
<1>5. new = [target |-> q, priority |-> row.priority, revision |-> row.revision + 1]
  <2> HIDE DEF moved, new
  <2> QED  BY <1>1, <1>2
<1>3. row.priority \in Int /\ row.revision \in Nat  BY DEF RuleRow
<1> HIDE DEF new
<1>4. new \in RuleRow  BY <1>5, <1>3 DEF RuleRow
<1> QED  BY <1>5, <1>4 DEF new

\* Deleting a profile, what selected it selecting its replacement, advances
\* the account: delete_equalizer_profile.
LEMMA ProfileReplaced ==
  ASSUME NEW s \in State, NEW p \in Profiles, NEW q \in Targets, q # p, ~Dangling(s, q)
  PROVE  Advances(s, Changed(Repointed(s, p, q)).state)
<1> DEFINE t == Changed(Repointed(s, p, q)).state
           table == [r \in Rules |-> IF s.rules[r] # None /\ s.rules[r].target = p
                                    THEN [s.rules[r] EXCEPT !.target = q, !.revision = @ + 1]
                                    ELSE s.rules[r]]
           new == IF s.default # p THEN s.default ELSE IF q = Bypass THEN None ELSE q
           count == IF s.default = p THEN s.settings + 1 ELSE s.settings
<1>1. t = [profiles |-> [s.profiles EXCEPT ![p] = None], rules |-> table,
           default |-> new, settings |-> count, revision |-> s.revision + 1]
  BY DEF Changed, Repointed, State
<1>2. \A r \in Rules : s.rules[r] # None => s.rules[r] \in RuleRow  BY DEF State
<1>3. \A r \in Rules :
        /\ s.rules[r] = None => table[r] = None
        /\ s.rules[r] # None =>
             /\ table[r] \in RuleRow /\ table[r] # None
             /\ table[r].priority = s.rules[r].priority
             /\ table[r].target = IF s.rules[r].target = p THEN q ELSE s.rules[r].target
             /\ table[r] = s.rules[r] \/ table[r].revision > s.rules[r].revision
  <2> SUFFICES ASSUME NEW r \in Rules, s.rules[r] # None
               PROVE  /\ table[r] \in RuleRow /\ table[r] # None
                      /\ table[r].priority = s.rules[r].priority
                      /\ table[r].target = IF s.rules[r].target = p THEN q ELSE s.rules[r].target
                      /\ table[r] = s.rules[r] \/ table[r].revision > s.rules[r].revision
    OBVIOUS
  <2> DEFINE row == s.rules[r]
             next == [row EXCEPT !.target = q, !.revision = @ + 1]
  <2>1. row \in RuleRow /\ row.revision \in Nat  BY <1>2 DEF RuleRow
  <2>2. /\ next \in RuleRow /\ next.target = q
        /\ next.priority = row.priority /\ next.revision = row.revision + 1
    BY <2>1, RowReplaced
  <2>3. table[r] = IF row.target = p THEN next ELSE row  OBVIOUS
  <2>4. table[r] # None  BY <2>1, <2>2, <2>3, StoreAssumption
  <2> HIDE DEF row, next, table
  <2> QED  BY <2>1, <2>2, <2>3, <2>4 DEF row
<1>4. table \in [Rules -> RuleRow \cup {None}]  BY <1>3
<1>5. new \in Profiles \cup {None} /\ count \in Nat  BY DEF State, Targets
<1>6. [s.profiles EXCEPT ![p] = None] \in [Profiles -> ProfileRow \cup {None}]  BY DEF State
<1> HIDE DEF table, t
<1>7. t \in State  BY <1>1, <1>4, <1>5, <1>6 DEF State
<1>8. Follows(s, t)
  <2>1. \A x \in Profiles : Newer(t.profiles, s.profiles, x)  BY <1>1 DEF Newer, State
  <2>2. \A r \in Rules : Newer(t.rules, s.rules, r)  BY <1>1, <1>3 DEF Newer
  <2>3. (t.settings = s.settings /\ t.default = s.default) \/ t.settings > s.settings
    BY <1>1 DEF State
  <2> QED  BY <2>1, <2>2, <2>3 DEF Follows
<1>9. Low(s) => Low(t)
  <2> SUFFICES ASSUME Low(s), NEW r \in Present(t.rules)
               PROVE  -t.revision <= t.rules[r].priority
    BY DEF Low
  <2>1. r \in Rules /\ s.rules[r] # None /\ t.rules[r].priority = s.rules[r].priority
    BY <1>1, <1>3, <1>4 DEF Present
  <2>2. -s.revision <= s.rules[r].priority /\ s.rules[r].priority \in Int
    BY <2>1, <1>2 DEF Low, Present, State, RuleRow
  <2> QED  BY <2>1, <2>2, <1>1 DEF State
<1>10. Whole(s) => Whole(t)
  <2> SUFFICES ASSUME Whole(s) PROVE Whole(t)  OBVIOUS
  <2>1. ASSUME NEW r \in Present(t.rules) PROVE ~Dangling(t, t.rules[r].target)
    <3>1. /\ r \in Rules /\ s.rules[r] # None
          /\ t.rules[r].target = IF s.rules[r].target = p THEN q ELSE s.rules[r].target
      BY <1>1, <1>3, <1>4 DEF Present
    <3>2. ~Dangling(s, s.rules[r].target)  BY <3>1 DEF Whole, Present, State
    <3>3. t.profiles = [s.profiles EXCEPT ![p] = None] /\ DOMAIN s.profiles = Profiles
      BY <1>1 DEF State
    <3> QED  BY <3>1, <3>2, <3>3 DEF Dangling
  <2>2. t.default # None => t.profiles[t.default] # None
    BY <1>1, StoreAssumption DEF Whole, Dangling, State, Targets
  <2> QED  BY <2>1, <2>2 DEF Whole
<1> QED  BY <1>1, <1>7, <1>8, <1>9, <1>10 DEF Advances, t

(* The bottom of the order *)

\* The order of the naturals, as a relation.
Less == {p \in Nat \X Nat : p[1] < p[2]}

\* Naturals do not descend for ever.
LEMMA LessWellFounded == IsWellFoundedOn(Less, Nat)
<1>1. OpToRel(<, Nat) = Less  BY Zenon DEF OpToRel, Less
<1> QED  BY <1>1, NatLessThanWellFounded, Zenon

\* Integers that are bounded below have a least one.
LEMMA LeastInteger ==
  ASSUME NEW S \in SUBSET Int, S # {}, NEW b \in Int, \A n \in S : b <= n
  PROVE  \E m \in S : \A n \in S : m <= n
<1> DEFINE T == {n - b : n \in S}
<1>1. T \subseteq Nat  OBVIOUS
<1>2. T # {}  OBVIOUS
<1>3. \E x \in T : \A y \in T : ~(<<y, x>> \in Less)
  <2> HIDE DEF T
  <2> QED  BY LessWellFounded, <1>1, <1>2, WFMin, Zenon
<1>4. PICK x \in T : \A y \in T : ~(<<y, x>> \in Less)  BY <1>3
<1>5. PICK m \in S : x = m - b  OBVIOUS
<1>6. \A n \in S : ~(n - b < m - b)  BY <1>1, <1>4, <1>5 DEF Less
<1> QED  BY <1>6

\* The priority create_equalizer_rule gives is an integer, one below the
\* lowest at most: the CHOOSE in BottomPriority has something to choose.
LEMMA BottomIsLow ==
  ASSUME NEW s \in State, Low(s)
  PROVE  BottomPriority(s) \in Int /\ -s.revision - 1 <= BottomPriority(s)
<1> DEFINE S == {s.rules[r].priority : r \in Present(s.rules)}
<1>1. \A r \in Present(s.rules) : s.rules[r].priority \in Int  BY DEF Present, State, RuleRow
<1>2. s.revision \in Nat  BY DEF State
<1>3. CASE Present(s.rules) = {}  BY <1>2, <1>3 DEF BottomPriority
<1>4. CASE Present(s.rules) # {}
  <2>1. S \in SUBSET Int /\ S # {}  BY <1>1, <1>4
  <2> DEFINE b == -s.revision
  <2>2. b \in Int /\ \A n \in S : b <= n  BY <1>2 DEF Low
  <2>3. \E m \in S : \A n \in S : m <= n
    <3> HIDE DEF S, b
    <3> QED  BY <2>1, <2>2, LeastInteger
  <2> DEFINE m == CHOOSE n \in S : \A r \in Present(s.rules) : n <= s.rules[r].priority
  <2>4. m \in S  BY <2>3
  <2>5. m \in Int /\ -s.revision <= m
    <3> HIDE DEF S, m, b
    <3> QED  BY <2>1, <2>2, <2>4 DEF b
  <2>6. BottomPriority(s) = m - 1  BY <1>4 DEF BottomPriority
  <2> HIDE DEF m
  <2> QED  BY <2>5, <2>6, <1>2
<1> QED  BY <1>3, <1>4

(* What a request that is not refused requires, and does *)

\* A profile is created only under a fresh id.
LEMMA CreateProfileEffect ==
  ASSUME NEW s \in State, NEW op, CreateProfile(s, op).state # s
  PROVE  /\ s.profiles[op.profile] = None
         /\ CreateProfile(s, op).state =
              Changed([s EXCEPT !.profiles[op.profile] = [name |-> op.name, revision |-> 1]]).state
  BY DEF CreateProfile, Unchanged, Refused

\* A profile is updated only at the expected revision.
LEMMA UpdateProfileEffect ==
  ASSUME NEW s \in State, NEW op, UpdateProfile(s, op).state # s
  PROVE  LET old == s.profiles[op.profile]
         IN  /\ old # None /\ old.revision = op.expected
             /\ UpdateProfile(s, op).state =
                  Changed([s EXCEPT !.profiles[op.profile] =
                            [name |-> op.name, revision |-> old.revision + 1]]).state
  BY DEF UpdateProfile, Unchanged, Refused

\* A profile is deleted only at the expected revisions, with exactly the
\* references the device named, and for a replacement that is there.
LEMMA DeleteProfileEffect ==
  ASSUME NEW s \in State, NEW op, DeleteProfile(s, op).state # s
  PROVE  /\ s.profiles[op.profile] # None /\ s.profiles[op.profile].revision = op.expected
         /\ s.settings = op.settings /\ References(s, op.profile) = op.references
         /\ op.replacement # None => ~Dangling(s, op.replacement)
         /\ DeleteProfile(s, op).state =
              Changed(Repointed(s, op.profile,
                        IF op.replacement = None THEN Bypass ELSE op.replacement)).state
  BY DEF DeleteProfile, Unchanged, Refused

\* The default changes only at the expected revision of the settings.
LEMMA UpdateSettingsEffect ==
  ASSUME NEW s \in State, NEW op, UpdateSettings(s, op).state # s
  PROVE  /\ s.settings = op.expected
         /\ op.profile # None => s.profiles[op.profile] # None
         /\ UpdateSettings(s, op).state =
              Changed([s EXCEPT !.default = op.profile, !.settings = @ + 1]).state
  BY DEF UpdateSettings, Unchanged, Refused

\* A rule is created only under a fresh id, for a profile that is there.
LEMMA CreateRuleEffect ==
  ASSUME NEW s \in State, NEW op, CreateRule(s, op).state # s
  PROVE  /\ s.rules[op.rule] = None /\ ~Dangling(s, op.target)
         /\ CreateRule(s, op).state =
              Changed([s EXCEPT !.rules[op.rule] =
                [target |-> op.target, priority |-> BottomPriority(s), revision |-> 1]]).state
  BY DEF CreateRule, Unchanged, Refused

\* A rule is updated only at the expected revision, to a profile that is there.
LEMMA UpdateRuleEffect ==
  ASSUME NEW s \in State, NEW op, op.rule \in Rules, UpdateRule(s, op).state # s
  PROVE  LET old == s.rules[op.rule]
         IN  /\ old # None /\ old.revision = op.expected /\ ~Dangling(s, op.target)
             /\ UpdateRule(s, op).state =
                  Changed([s EXCEPT !.rules[op.rule] =
                            [old EXCEPT !.target = op.target, !.revision = @ + 1]]).state
<1> DEFINE old == s.rules[op.rule]
           row == [old EXCEPT !.target = op.target, !.revision = @ + 1]
<1>1. /\ old # None /\ old.revision = op.expected /\ ~Dangling(s, op.target)
      /\ UpdateRule(s, op).state = Changed([s EXCEPT !.rules[op.rule].target = op.target,
                                                     !.rules[op.rule].revision = @ + 1]).state
  BY DEF UpdateRule, Unchanged, Refused
<1>2. [s EXCEPT !.rules[op.rule].target = op.target,
                !.rules[op.rule].revision = @ + 1] = [s EXCEPT !.rules[op.rule] = row]
  BY DEF State
<1> QED  BY <1>1, <1>2

\* A rule is deleted only at the expected revision.
LEMMA DeleteRuleEffect ==
  ASSUME NEW s \in State, NEW op, DeleteRule(s, op).state # s
  PROVE  /\ s.rules[op.rule] # None /\ s.rules[op.rule].revision = op.expected
         /\ DeleteRule(s, op).state = Changed([s EXCEPT !.rules[op.rule] = None]).state
  BY DEF DeleteRule, Unchanged, Refused

\* The rules of s in the order of op.
Moved(s, op) ==
  [r \in Rules |->
    IF s.rules[r] = None \/ s.rules[r].priority = Place(s, op, r) THEN s.rules[r]
    ELSE [s.rules[r] EXCEPT !.priority = Place(s, op, r), !.revision = @ + 1]]

\* The rules are reordered only if the request names them all, at the
\* revisions they have.
LEMMA ReorderRulesEffect ==
  ASSUME NEW s \in State, NEW op, ReorderRules(s, op).state # s
  PROVE  LET asked == {op.order[i] : i \in 1 .. Len(op.order)}
         IN  /\ {ref[1] : ref \in asked} = Present(s.rules)
             /\ \A ref \in asked : s.rules[ref[1]].revision = ref[2]
             /\ ReorderRules(s, op).state = Changed([s EXCEPT !.rules = Moved(s, op)]).state
<1> DEFINE asked == {op.order[i] : i \in 1 .. Len(op.order)}
           refs == {ref[1] : ref \in asked}
           result == Changed([s EXCEPT !.rules = Moved(s, op)]).state
<1>1. ReorderRules(s, op) =
        IF \E ref \in asked : ref[2] < 1 THEN Refused("invalid", s)
        ELSE IF ~(refs = Present(s.rules) /\ Cardinality(refs) = Len(op.order))
             THEN Refused("conflict", s)
        ELSE IF \A r \in Present(s.rules) : s.rules[r].priority = Place(s, op, r)
             THEN Unchanged(s)
        ELSE IF \E ref \in asked : s.rules[ref[1]].revision # ref[2] THEN Refused("conflict", s)
        ELSE Changed([s EXCEPT !.rules = Moved(s, op)])
  BY Zenon DEF ReorderRules, Moved
<1> HIDE DEF asked, refs
<1>2. /\ refs = Present(s.rules)
      /\ ~ \E ref \in asked : s.rules[ref[1]].revision # ref[2]
      /\ ReorderRules(s, op).state = result
  BY <1>1 DEF Unchanged, Refused
<1> QED  BY <1>2 DEF asked, refs

(* What each request leaves alone *)

\* Creating a profile leaves every row there is alone.
LEMMA CreateProfileTouches ==
  ASSUME NEW s \in State, NEW op, CreateProfile(s, op).state # s
  PROVE  LET t == CreateProfile(s, op).state
         IN  /\ \A p \in Present(s.profiles) : t.profiles[p] = s.profiles[p]
             /\ t.rules = s.rules /\ t.default = s.default
<1> DEFINE t == CreateProfile(s, op).state
           row == [name |-> op.name, revision |-> 1]
<1>1. /\ s.profiles[op.profile] = None
      /\ t = Changed([s EXCEPT !.profiles[op.profile] = row]).state
  BY CreateProfileEffect
<1> HIDE DEF t, row
<1>2. t = [profiles |-> [s.profiles EXCEPT ![op.profile] = row], rules |-> s.rules,
           default |-> s.default, settings |-> s.settings, revision |-> s.revision + 1]
  BY <1>1 DEF Changed, State
<1>3. \A p \in Present(s.profiles) : t.profiles[p] = s.profiles[p]
  BY <1>1, <1>2 DEF Present, State
<1> QED  BY <1>2, <1>3 DEF t

\* Updating a profile leaves the other rows alone.
LEMMA UpdateProfileTouches ==
  ASSUME NEW s \in State, NEW op, UpdateProfile(s, op).state # s
  PROVE  LET t == UpdateProfile(s, op).state
         IN  /\ s.profiles[op.profile].revision = op.expected
             /\ \A p \in Profiles \ {op.profile} : t.profiles[p] = s.profiles[p]
             /\ t.rules = s.rules /\ t.default = s.default
<1> DEFINE t == UpdateProfile(s, op).state
           row == [name |-> op.name, revision |-> s.profiles[op.profile].revision + 1]
<1>1. /\ s.profiles[op.profile].revision = op.expected
      /\ t = Changed([s EXCEPT !.profiles[op.profile] = row]).state
  BY UpdateProfileEffect
<1> HIDE DEF t, row
<1>2. t = [profiles |-> [s.profiles EXCEPT ![op.profile] = row], rules |-> s.rules,
           default |-> s.default, settings |-> s.settings, revision |-> s.revision + 1]
  BY <1>1 DEF Changed, State
<1>3. \A p \in Profiles \ {op.profile} : t.profiles[p] = s.profiles[p]
  BY <1>2 DEF State
<1> QED  BY <1>1, <1>2, <1>3 DEF t

\* Deleting a profile leaves alone the other profiles and the rules that do
\* not select it.
LEMMA DeleteProfileTouches ==
  ASSUME NEW s \in State, NEW op, DeleteProfile(s, op).state # s
  PROVE  LET t == DeleteProfile(s, op).state
         IN  /\ s.profiles[op.profile].revision = op.expected
             /\ s.settings = op.settings /\ References(s, op.profile) = op.references
             /\ \A p \in Profiles \ {op.profile} : t.profiles[p] = s.profiles[p]
             /\ \A r \in Present(s.rules) :
                  s.rules[r].target # op.profile => t.rules[r] = s.rules[r]
<1> DEFINE t == DeleteProfile(s, op).state
           q == IF op.replacement = None THEN Bypass ELSE op.replacement
<1>1. /\ s.profiles[op.profile].revision = op.expected
      /\ s.settings = op.settings /\ References(s, op.profile) = op.references
      /\ t = Changed(Repointed(s, op.profile, q)).state
  BY DeleteProfileEffect
<1> HIDE DEF t, q
<1> DEFINE u == Repointed(s, op.profile, q)
<1>2. /\ u.profiles = [s.profiles EXCEPT ![op.profile] = None]
      /\ u.rules = [r \in Rules |->
                     IF s.rules[r] # None /\ s.rules[r].target = op.profile
                     THEN [s.rules[r] EXCEPT !.target = q, !.revision = @ + 1] ELSE s.rules[r]]
  BY DEF Repointed, State
<1>3. t.profiles = u.profiles /\ t.rules = u.rules
  BY <1>1 DEF Changed, Repointed, State
<1> HIDE DEF u
<1>4. \A p \in Profiles \ {op.profile} : t.profiles[p] = s.profiles[p]
  BY <1>2, <1>3 DEF State
<1>5. \A r \in Present(s.rules) : s.rules[r].target # op.profile => t.rules[r] = s.rules[r]
  BY <1>2, <1>3 DEF Present, State
<1> QED  BY <1>1, <1>4, <1>5 DEF t

\* Selecting a default leaves the rows alone.
LEMMA UpdateSettingsTouches ==
  ASSUME NEW s \in State, NEW op, UpdateSettings(s, op).state # s
  PROVE  LET t == UpdateSettings(s, op).state
         IN  s.settings = op.expected /\ t.profiles = s.profiles /\ t.rules = s.rules
<1> DEFINE t == UpdateSettings(s, op).state
<1>1. /\ s.settings = op.expected
      /\ t = Changed([s EXCEPT !.default = op.profile, !.settings = @ + 1]).state
  BY UpdateSettingsEffect
<1> HIDE DEF t
<1>2. t = [profiles |-> s.profiles, rules |-> s.rules, default |-> op.profile,
           settings |-> s.settings + 1, revision |-> s.revision + 1]
  BY <1>1 DEF Changed, State
<1> QED  BY <1>1, <1>2 DEF t

\* Creating a rule leaves every row there is alone.
LEMMA CreateRuleTouches ==
  ASSUME NEW s \in State, NEW op, CreateRule(s, op).state # s
  PROVE  LET t == CreateRule(s, op).state
         IN  /\ \A r \in Present(s.rules) : t.rules[r] = s.rules[r]
             /\ t.profiles = s.profiles /\ t.default = s.default
<1> DEFINE t == CreateRule(s, op).state
           row == [target |-> op.target, priority |-> BottomPriority(s), revision |-> 1]
<1>1. s.rules[op.rule] = None /\ t = Changed([s EXCEPT !.rules[op.rule] = row]).state
  BY CreateRuleEffect
<1> HIDE DEF t, row
<1>2. t = [profiles |-> s.profiles, rules |-> [s.rules EXCEPT ![op.rule] = row],
           default |-> s.default, settings |-> s.settings, revision |-> s.revision + 1]
  BY <1>1 DEF Changed, State
<1>3. \A r \in Present(s.rules) : t.rules[r] = s.rules[r]
  BY <1>1, <1>2 DEF Present, State
<1> QED  BY <1>2, <1>3 DEF t

\* Updating a rule leaves the other rows alone.
LEMMA UpdateRuleTouches ==
  ASSUME NEW s \in State, NEW op, op.rule \in Rules, UpdateRule(s, op).state # s
  PROVE  LET t == UpdateRule(s, op).state
         IN  /\ s.rules[op.rule].revision = op.expected
             /\ \A r \in Rules \ {op.rule} : t.rules[r] = s.rules[r]
             /\ t.profiles = s.profiles /\ t.default = s.default
<1> DEFINE t == UpdateRule(s, op).state
           row == [s.rules[op.rule] EXCEPT !.target = op.target, !.revision = @ + 1]
<1>1. /\ s.rules[op.rule].revision = op.expected
      /\ t = Changed([s EXCEPT !.rules[op.rule] = row]).state
  BY UpdateRuleEffect
<1> HIDE DEF t, row
<1>2. t = [profiles |-> s.profiles, rules |-> [s.rules EXCEPT ![op.rule] = row],
           default |-> s.default, settings |-> s.settings, revision |-> s.revision + 1]
  BY <1>1 DEF Changed, State
<1>3. \A r \in Rules \ {op.rule} : t.rules[r] = s.rules[r]  BY <1>2 DEF State
<1> QED  BY <1>1, <1>2, <1>3 DEF t

\* Deleting a rule leaves the other rows alone.
LEMMA DeleteRuleTouches ==
  ASSUME NEW s \in State, NEW op, DeleteRule(s, op).state # s
  PROVE  LET t == DeleteRule(s, op).state
         IN  /\ s.rules[op.rule].revision = op.expected
             /\ \A r \in Rules \ {op.rule} : t.rules[r] = s.rules[r]
             /\ t.profiles = s.profiles /\ t.default = s.default
<1> DEFINE t == DeleteRule(s, op).state
<1>1. /\ s.rules[op.rule].revision = op.expected
      /\ t = Changed([s EXCEPT !.rules[op.rule] = None]).state
  BY DeleteRuleEffect
<1> HIDE DEF t
<1>2. t = [profiles |-> s.profiles, rules |-> [s.rules EXCEPT ![op.rule] = None],
           default |-> s.default, settings |-> s.settings, revision |-> s.revision + 1]
  BY <1>1 DEF Changed, State
<1>3. \A r \in Rules \ {op.rule} : t.rules[r] = s.rules[r]  BY <1>2 DEF State
<1> QED  BY <1>1, <1>2, <1>3 DEF t

\* Reordering leaves the profiles and the default alone, and had every rule
\* at the revision the device named.
LEMMA ReorderRulesTouches ==
  ASSUME NEW s \in State, NEW op, ReorderRules(s, op).state # s
  PROVE  LET t == ReorderRules(s, op).state
         IN  /\ \A r \in Present(s.rules) : \E i \in 1 .. Len(op.order) :
                  op.order[i][1] = r /\ op.order[i][2] = s.rules[r].revision
             /\ t.profiles = s.profiles /\ t.default = s.default
<1> DEFINE t == ReorderRules(s, op).state
           asked == {op.order[i] : i \in 1 .. Len(op.order)}
<1>1. /\ {ref[1] : ref \in asked} = Present(s.rules)
      /\ \A ref \in asked : s.rules[ref[1]].revision = ref[2]
      /\ t = Changed([s EXCEPT !.rules = Moved(s, op)]).state
  BY ReorderRulesEffect
<1> HIDE DEF t
<1>2. t = [profiles |-> s.profiles, rules |-> Moved(s, op),
           default |-> s.default, settings |-> s.settings, revision |-> s.revision + 1]
  BY <1>1 DEF Changed, State
<1>3. \A r \in Present(s.rules) : \E i \in 1 .. Len(op.order) :
        op.order[i][1] = r /\ op.order[i][2] = s.rules[r].revision
  BY <1>1
<1> QED  BY <1>2, <1>3 DEF t

(* The requests *)

\* The creation of a profile, if it changes anything, advances the account.
LEMMA CreateProfileAdvances ==
  ASSUME NEW s \in State, NEW op, op.profile \in Profiles, op.name \in Names,
         CreateProfile(s, op).state # s
  PROVE  Advances(s, CreateProfile(s, op).state)
<1> DEFINE row == [name |-> op.name, revision |-> 1]
<1>1. row \in ProfileRow  BY DEF ProfileRow
<1>2. /\ s.profiles[op.profile] = None
      /\ CreateProfile(s, op).state = Changed([s EXCEPT !.profiles[op.profile] = row]).state
  BY CreateProfileEffect
<1> HIDE DEF row
<1> QED  BY <1>1, <1>2, ProfileWritten

\* So does an update of a profile.
LEMMA UpdateProfileAdvances ==
  ASSUME NEW s \in State, NEW op, op.profile \in Profiles, op.name \in Names,
         UpdateProfile(s, op).state # s
  PROVE  Advances(s, UpdateProfile(s, op).state)
<1> DEFINE old == s.profiles[op.profile]
           row == [name |-> op.name, revision |-> old.revision + 1]
<1>1. /\ old # None
      /\ UpdateProfile(s, op).state = Changed([s EXCEPT !.profiles[op.profile] = row]).state
  BY UpdateProfileEffect
<1>2. old \in ProfileRow /\ old.revision \in Nat  BY <1>1 DEF State, ProfileRow
<1>3. row \in ProfileRow /\ row.revision > old.revision  BY <1>2 DEF ProfileRow
<1> HIDE DEF row
<1> QED  BY <1>1, <1>3, ProfileWritten

\* So does the deletion of a profile.
LEMMA DeleteProfileAdvances ==
  ASSUME NEW s \in State, NEW op, op.profile \in Profiles,
         op.replacement \in (Profiles \ {op.profile}) \cup {Bypass, None},
         DeleteProfile(s, op).state # s
  PROVE  Advances(s, DeleteProfile(s, op).state)
<1> DEFINE q == IF op.replacement = None THEN Bypass ELSE op.replacement
<1>1. q \in Targets /\ q # op.profile  BY StoreAssumption DEF Targets
<1>2. /\ op.replacement # None => ~Dangling(s, op.replacement)
      /\ DeleteProfile(s, op).state = Changed(Repointed(s, op.profile, q)).state
  BY DeleteProfileEffect
<1>3. ~Dangling(s, q)  BY <1>2, StoreAssumption DEF Dangling
<1> HIDE DEF q
<1> QED  BY <1>1, <1>2, <1>3, ProfileReplaced

\* So does another default.
LEMMA UpdateSettingsAdvances ==
  ASSUME NEW s \in State, NEW op, op.profile \in Profiles \cup {None},
         UpdateSettings(s, op).state # s
  PROVE  Advances(s, UpdateSettings(s, op).state)
  BY UpdateSettingsEffect, DefaultWritten

\* So does the creation of a rule.
LEMMA CreateRuleAdvances ==
  ASSUME NEW s \in State, NEW op, op.rule \in Rules, op.target \in Targets, Low(s),
         CreateRule(s, op).state # s
  PROVE  Advances(s, CreateRule(s, op).state)
<1> DEFINE row == [target |-> op.target, priority |-> BottomPriority(s), revision |-> 1]
<1>1. /\ row \in RuleRow /\ row.target = op.target /\ -s.revision - 1 <= row.priority
  BY BottomIsLow DEF RuleRow
<1>2. /\ s.rules[op.rule] = None /\ ~Dangling(s, op.target)
      /\ CreateRule(s, op).state = Changed([s EXCEPT !.rules[op.rule] = row]).state
  BY CreateRuleEffect
<1> HIDE DEF row
<1> QED  BY <1>1, <1>2, RuleWritten

\* So does an update of a rule.
LEMMA UpdateRuleAdvances ==
  ASSUME NEW s \in State, NEW op, op.rule \in Rules, op.target \in Targets,
         UpdateRule(s, op).state # s
  PROVE  Advances(s, UpdateRule(s, op).state)
<1> DEFINE old == s.rules[op.rule]
           row == [old EXCEPT !.target = op.target, !.revision = @ + 1]
<1>1. /\ old # None /\ ~Dangling(s, op.target)
      /\ UpdateRule(s, op).state = Changed([s EXCEPT !.rules[op.rule] = row]).state
  BY UpdateRuleEffect
<1>2. old \in RuleRow  BY <1>1 DEF State
<1>3. /\ row \in RuleRow /\ row.target = op.target
      /\ row.priority = old.priority /\ row.revision = old.revision + 1
  BY <1>2, RowReplaced
<1>4. row.revision > old.revision  BY <1>2, <1>3 DEF RuleRow
<1>5. Low(s) => -s.revision - 1 <= row.priority
  BY <1>1, <1>2, <1>3 DEF Low, Present, State, RuleRow
<1> HIDE DEF row
<1> QED  BY <1>1, <1>3, <1>4, <1>5, RuleWritten

\* So does the deletion of a rule.
LEMMA DeleteRuleAdvances ==
  ASSUME NEW s \in State, NEW op, op.rule \in Rules, DeleteRule(s, op).state # s
  PROVE  Advances(s, DeleteRule(s, op).state)
  BY DeleteRuleEffect, RuleDeleted

\* A rule that is moved stays a rule, one revision on.
LEMMA RowMoved ==
  ASSUME NEW row \in RuleRow, NEW n \in Int
  PROVE  LET new == [row EXCEPT !.priority = n, !.revision = @ + 1]
         IN  /\ new \in RuleRow /\ new.target = row.target
             /\ new.priority = n /\ new.revision = row.revision + 1
<1> DEFINE new == [row EXCEPT !.priority = n, !.revision = @ + 1]
           moved == [row EXCEPT !.priority = n]
<1>1. new = [moved EXCEPT !.revision = @ + 1]  OBVIOUS
<1>2. moved = [target |-> row.target, priority |-> n, revision |-> row.revision]
  BY DEF RuleRow
<1>3. new = [target |-> row.target, priority |-> n, revision |-> row.revision + 1]
  <2> HIDE DEF moved, new
  <2> QED  BY <1>1, <1>2
<1>4. row.target \in Targets /\ row.revision \in Nat  BY DEF RuleRow
<1> HIDE DEF new
<1>5. new \in RuleRow  BY <1>3, <1>4 DEF RuleRow
<1> QED  BY <1>3, <1>5 DEF new

\* A reordering advances the account: every rule gets a place above the bottom.
LEMMA ReorderRulesAdvances ==
  ASSUME NEW s \in State, NEW op, op.order \in Seq(Rules \X Nat),
         ReorderRules(s, op).state # s
  PROVE  Advances(s, ReorderRules(s, op).state)
<1> DEFINE table == Moved(s, op)
           t == Changed([s EXCEPT !.rules = table]).state
<1>1. /\ {ref[1] : ref \in {op.order[i] : i \in 1 .. Len(op.order)}} = Present(s.rules)
      /\ ReorderRules(s, op).state = t
  BY ReorderRulesEffect
<1>2. \A r \in Present(s.rules) : Place(s, op, r) \in Int /\ Place(s, op, r) >= 1
  <2> SUFFICES ASSUME NEW r \in Present(s.rules)
               PROVE  Place(s, op, r) \in Int /\ Place(s, op, r) >= 1
    OBVIOUS
  <2>1. \E i \in 1 .. Len(op.order) : op.order[i][1] = r  BY <1>1
  <2> DEFINE i == CHOOSE i \in 1 .. Len(op.order) : op.order[i][1] = r
  <2>2. i \in 1 .. Len(op.order) /\ Place(s, op, r) = Len(op.order) + 1 - i
    BY <2>1 DEF Place
  <2>3. Len(op.order) \in Nat  OBVIOUS
  <2> HIDE DEF i
  <2> QED  BY <2>2, <2>3
<1>3. \A r \in Rules :
        /\ s.rules[r] = None => table[r] = None
        /\ s.rules[r] # None =>
             /\ table[r] \in RuleRow /\ table[r] # None
             /\ table[r].priority = s.rules[r].priority \/ table[r].priority >= 1
             /\ table[r].target = s.rules[r].target
             /\ table[r] = s.rules[r] \/ table[r].revision > s.rules[r].revision
  <2> SUFFICES ASSUME NEW r \in Rules, s.rules[r] # None
               PROVE  /\ table[r] \in RuleRow /\ table[r] # None
                      /\ table[r].priority = s.rules[r].priority \/ table[r].priority >= 1
                      /\ table[r].target = s.rules[r].target
                      /\ table[r] = s.rules[r] \/ table[r].revision > s.rules[r].revision
    BY DEF Moved
  <2> DEFINE row == s.rules[r]
             n == Place(s, op, r)
             next == [row EXCEPT !.priority = n, !.revision = @ + 1]
  <2>1. row \in RuleRow /\ row.revision \in Nat  BY DEF State, RuleRow
  <2>2. n \in Int /\ n >= 1  BY <1>2 DEF Present, State
  <2>3. /\ next \in RuleRow /\ next.target = row.target
        /\ next.priority = n /\ next.revision = row.revision + 1
    <3> HIDE DEF row, n
    <3> QED  BY <2>1, <2>2, RowMoved
  <2>4. table[r] = IF row.priority = n THEN row ELSE next  BY DEF Moved
  <2> HIDE DEF row, n, next, table
  <2>5. table[r] # None  BY <2>1, <2>3, <2>4, StoreAssumption
  <2> QED  BY <2>1, <2>2, <2>3, <2>4, <2>5 DEF row
<1>4. table \in [Rules -> RuleRow \cup {None}]  BY <1>3 DEF Moved
<1>5. t = [profiles |-> s.profiles, rules |-> table, default |-> s.default,
           settings |-> s.settings, revision |-> s.revision + 1]
  <2> HIDE DEF table
  <2> QED  BY DEF Changed, State
<1> HIDE DEF table, t
<1>6. t \in State  BY <1>4, <1>5 DEF State
<1>7. Follows(s, t)  BY <1>3, <1>5 DEF Follows, Newer, State
<1>8. Low(s) => Low(t)
  <2> SUFFICES ASSUME Low(s), NEW r \in Present(t.rules)
               PROVE  -t.revision <= t.rules[r].priority
    BY DEF Low
  <2>1. /\ r \in Rules /\ s.rules[r] # None
        /\ t.rules[r].priority = s.rules[r].priority \/ t.rules[r].priority >= 1
    BY <1>3, <1>4, <1>5 DEF Present
  <2>2. -s.revision <= s.rules[r].priority /\ s.rules[r].priority \in Int
    BY <2>1 DEF Low, Present, State, RuleRow
  <2>3. s.revision \in Nat /\ t.revision = s.revision + 1  BY <1>5 DEF State
  <2>4. t.rules[r].priority \in Int  BY <1>3, <1>5, <2>1 DEF RuleRow
  <2> QED  BY <2>1, <2>2, <2>3, <2>4
<1>9. Whole(s) => Whole(t)
  <2> SUFFICES ASSUME Whole(s) PROVE Whole(t)  OBVIOUS
  <2>1. ASSUME NEW r \in Present(t.rules) PROVE ~Dangling(t, t.rules[r].target)
    <3>1. r \in Rules /\ s.rules[r] # None /\ t.rules[r].target = s.rules[r].target
      BY <1>3, <1>4, <1>5 DEF Present
    <3>2. ~Dangling(s, s.rules[r].target)  BY <3>1 DEF Whole, Present, State
    <3> QED  BY <1>5, <3>1, <3>2 DEF Dangling
  <2> QED  BY <1>5, <2>1 DEF Whole
<1> QED  BY <1>1, <1>5, <1>6, <1>7, <1>8, <1>9 DEF Advances

(* What a device asks for *)

\* The order a device asks for is a sequence of its rules.
LEMMA OrderTyped ==
  ASSUME NEW s \in State, NEW op \in Reorders(s)
  PROVE  op.order \in Seq(Rules \X Nat)
<1>1. Cardinality(Present(s.rules)) \in Nat
  <2>1. Present(s.rules) \subseteq Rules  BY DEF Present, State
  <2>2. IsFiniteSet(Present(s.rules))  BY <2>1, StoreAssumption, FS_Subset
  <2> QED  BY <2>2, FS_CardinalityType
<1>2. PICK f \in [1 .. Cardinality(Present(s.rules)) -> Present(s.rules)] :
        op = [kind |-> "reorder",
              order |-> [i \in 1 .. Cardinality(Present(s.rules)) |->
                          <<f[i], s.rules[f[i]].revision>>]]
  BY Zenon DEF Reorders
<1>3. \A r \in Present(s.rules) : r \in Rules /\ s.rules[r].revision \in Nat
  BY DEF Present, State, RuleRow
<1> DEFINE size == Cardinality(Present(s.rules))
<1>4. \A i \in 1 .. size : <<f[i], s.rules[f[i]].revision>> \in Rules \X Nat  BY <1>2, <1>3
<1> HIDE DEF size
<1>5. op.order = [i \in 1 .. size |-> <<f[i], s.rules[f[i]].revision>>]  BY <1>2 DEF size
<1>6. size \in Nat  BY <1>1 DEF size
<1> QED  BY <1>4, <1>5, <1>6

\* An update expects the revision its device saw.
LEMMA UpdateKinds ==
  ASSUME NEW s \in State, NEW op \in Updates(s)
  PROVE  \/ /\ op.kind = "update profile" /\ op.profile \in Present(s.profiles)
            /\ op.name \in Names /\ op.expected = s.profiles[op.profile].revision
         \/ /\ op.kind = "update rule" /\ op.rule \in Present(s.rules)
            /\ op.target \in Present(s.profiles) \cup {Bypass}
            /\ op.expected = s.rules[op.rule].revision
         \/ /\ op.kind = "default" /\ op.profile \in Present(s.profiles) \cup {None}
            /\ op.expected = s.settings
<1>1. CASE \E p \in Present(s.profiles), n \in Names : op = ProfileUpdate(s, p, n)
  <2>1. PICK p \in Present(s.profiles), n \in Names : op = ProfileUpdate(s, p, n)  BY <1>1
  <2>2. /\ op.kind = "update profile" /\ op.profile = p /\ op.name = n
        /\ op.expected = s.profiles[p].revision
    BY <2>1 DEF ProfileUpdate
  <2> QED  BY <2>2
<1>2. CASE \E r \in Present(s.rules), t \in Present(s.profiles) \cup {Bypass} :
             op = RuleUpdate(s, r, t)
  <2>1. PICK r \in Present(s.rules), t \in Present(s.profiles) \cup {Bypass} :
          op = RuleUpdate(s, r, t)
    BY <1>2
  <2>2. /\ op.kind = "update rule" /\ op.rule = r /\ op.target = t
        /\ op.expected = s.rules[r].revision
    BY <2>1 DEF RuleUpdate
  <2> QED  BY <2>2
<1>3. CASE \E p \in Present(s.profiles) \cup {None} : op = DefaultUpdate(s, p)
  <2>1. PICK p \in Present(s.profiles) \cup {None} : op = DefaultUpdate(s, p)  BY <1>3
  <2>2. op.kind = "default" /\ op.profile = p /\ op.expected = s.settings
    BY <2>1 DEF DefaultUpdate
  <2> QED  BY <2>2
<1>4. \/ \E p \in Present(s.profiles), n \in Names : op = ProfileUpdate(s, p, n)
      \/ \E r \in Present(s.rules), t \in Present(s.profiles) \cup {Bypass} :
           op = RuleUpdate(s, r, t)
      \/ \E p \in Present(s.profiles) \cup {None} : op = DefaultUpdate(s, p)
  BY DEF Updates
<1> QED  BY <1>1, <1>2, <1>3, <1>4

\* A deletion expects the revisions and references its device saw.
LEMMA DeletionKinds ==
  ASSUME NEW s \in State, NEW op \in Deletions(s)
  PROVE  \/ /\ op.kind = "delete profile" /\ op.profile \in Present(s.profiles)
            /\ op.replacement \in (Present(s.profiles) \ {op.profile}) \cup {Bypass, None}
            /\ op.expected = s.profiles[op.profile].revision
            /\ op.settings = s.settings /\ op.references = References(s, op.profile)
         \/ /\ op.kind = "delete rule" /\ op.rule \in Present(s.rules)
            /\ op.expected = s.rules[op.rule].revision
<1>1. CASE \E r \in Present(s.rules) : op = RuleDeletion(s, r)
  <2>1. PICK r \in Present(s.rules) : op = RuleDeletion(s, r)  BY <1>1
  <2>2. op.kind = "delete rule" /\ op.rule = r /\ op.expected = s.rules[r].revision
    BY <2>1 DEF RuleDeletion
  <2> QED  BY <2>2
<1>2. CASE /\ op.replacement # op.profile
           /\ \E p \in Present(s.profiles), q \in Present(s.profiles) \cup {Bypass, None} :
                op = ProfileDeletion(s, p, q)
  <2>1. PICK p \in Present(s.profiles), q \in Present(s.profiles) \cup {Bypass, None} :
          op = ProfileDeletion(s, p, q)
    BY <1>2
  <2>2. /\ op.kind = "delete profile" /\ op.profile = p /\ op.replacement = q
        /\ op.expected = s.profiles[p].revision
        /\ op.settings = s.settings /\ op.references = References(s, p)
    BY <2>1 DEF ProfileDeletion
  <2> QED  BY <1>2, <2>2
<1>3. \/ \E r \in Present(s.rules) : op = RuleDeletion(s, r)
      \/ /\ op.replacement # op.profile
         /\ \E p \in Present(s.profiles), q \in Present(s.profiles) \cup {Bypass, None} :
              op = ProfileDeletion(s, p, q)
  BY DEF Deletions
<1> QED  BY <1>1, <1>2, <1>3

\* Whatever a device asks for, from whatever state it has: the request
\* changes nothing or advances the account.
LEMMA ServeAdvances ==
  ASSUME NEW s \in State, Low(s), NEW old \in State, NEW op \in Requests(old),
         Serve(s, op).state # s
  PROVE  Advances(s, Serve(s, op).state)
<1>1. CASE op \in Creations(old)
  <2>1. CASE op.kind = "create profile"
    <3>1. op.profile \in Profiles /\ op.name \in Names  BY <1>1, <2>1 DEF Creations
    <3>2. Serve(s, op) = CreateProfile(s, op)  BY <2>1 DEF Serve
    <3> QED  BY <3>1, <3>2, CreateProfileAdvances
  <2>2. CASE op.kind = "create rule"
    <3>1. op.rule \in Rules /\ op.target \in Targets
      BY <1>1, <2>2 DEF Creations, Present, State, Targets
    <3>2. Serve(s, op) = CreateRule(s, op)  BY <2>2 DEF Serve
    <3> QED  BY <3>1, <3>2, CreateRuleAdvances
  <2> QED  BY <1>1, <2>1, <2>2 DEF Creations
<1>2. CASE op \in Updates(old)
  <2>1. CASE op.kind = "update profile"
    <3>1. op.profile \in Profiles /\ op.name \in Names
      BY <1>2, <2>1, UpdateKinds DEF Present, State
    <3>2. Serve(s, op) = UpdateProfile(s, op)  BY <2>1 DEF Serve
    <3> QED  BY <3>1, <3>2, UpdateProfileAdvances
  <2>2. CASE op.kind = "update rule"
    <3>1. op.rule \in Rules /\ op.target \in Targets
      BY <1>2, <2>2, UpdateKinds DEF Present, State, Targets
    <3>2. Serve(s, op) = UpdateRule(s, op)  BY <2>2 DEF Serve
    <3> QED  BY <3>1, <3>2, UpdateRuleAdvances
  <2>3. CASE op.kind = "default"
    <3>1. op.profile \in Profiles \cup {None}  BY <1>2, <2>3, UpdateKinds DEF Present, State
    <3>2. Serve(s, op) = UpdateSettings(s, op)  BY <2>3 DEF Serve
    <3> QED  BY <3>1, <3>2, UpdateSettingsAdvances
  <2> QED  BY <1>2, <2>1, <2>2, <2>3, UpdateKinds
<1>3. CASE op \in Deletions(old)
  <2>1. CASE op.kind = "delete profile"
    <3>1. /\ op.profile \in Profiles
          /\ op.replacement \in (Profiles \ {op.profile}) \cup {Bypass, None}
      BY <1>3, <2>1, DeletionKinds DEF Present, State
    <3>2. Serve(s, op) = DeleteProfile(s, op)  BY <2>1 DEF Serve
    <3> QED  BY <3>1, <3>2, DeleteProfileAdvances
  <2>2. CASE op.kind = "delete rule"
    <3>1. op.rule \in Rules  BY <1>3, <2>2, DeletionKinds DEF Present, State
    <3>2. Serve(s, op) = DeleteRule(s, op)  BY <2>2 DEF Serve
    <3> QED  BY <3>1, <3>2, DeleteRuleAdvances
  <2> QED  BY <1>3, <2>1, <2>2, DeletionKinds
<1>4. CASE op \in Reorders(old)
  <2>1. op.kind = "reorder"  BY <1>4 DEF Reorders
  <2>2. Serve(s, op) = ReorderRules(s, op)  BY <2>1 DEF Serve
  <2> QED  BY <1>4, <2>2, OrderTyped, ReorderRulesAdvances
<1> QED  BY <1>1, <1>2, <1>3, <1>4 DEF Requests

(* Rolling back *)

\* Rolling back gives a profile a revision above the one it had.
LEMMA RestoredProfile ==
  ASSUME NEW now \in ProfileRow \cup {None}, NEW old \in ProfileRow \cup {None}
  PROVE  /\ Restored(now, old) \in ProfileRow \cup {None}
         /\ now # None /\ Restored(now, old) # None => Restored(now, old).revision > now.revision
<1>1. CASE old = None  BY <1>1 DEF Restored
<1>2. CASE old # None
  <2> DEFINE n == Larger(old.revision, RevisionOf(now)) + 1
  <2>1. n \in Nat \ {0} /\ (now # None => n > now.revision)
    BY <1>2 DEF Larger, RevisionOf, ProfileRow
  <2>2. Restored(now, old) = [name |-> old.name, revision |-> n]
    BY <1>2 DEF Restored, ProfileRow
  <2>3. old.name \in Names  BY <1>2 DEF ProfileRow
  <2> HIDE DEF n
  <2> QED  BY <2>1, <2>2, <2>3 DEF ProfileRow
<1> QED  BY <1>1, <1>2

\* Rolling back gives a rule a revision above the one it had, and the
\* priority of the before image.
LEMMA RestoredRule ==
  ASSUME NEW now \in RuleRow \cup {None}, NEW old \in RuleRow \cup {None}
  PROVE  /\ Restored(now, old) \in RuleRow \cup {None}
         /\ now # None /\ Restored(now, old) # None => Restored(now, old).revision > now.revision
         /\ Restored(now, old) # None => old # None /\ Restored(now, old).priority = old.priority
<1>1. CASE old = None  BY <1>1 DEF Restored
<1>2. CASE old # None
  <2> DEFINE n == Larger(old.revision, RevisionOf(now)) + 1
  <2>1. n \in Nat \ {0} /\ (now # None => n > now.revision)
    BY <1>2 DEF Larger, RevisionOf, RuleRow
  <2>2. Restored(now, old) = [target |-> old.target, priority |-> old.priority, revision |-> n]
    BY <1>2 DEF Restored, RuleRow
  <2>3. old.target \in Targets /\ old.priority \in Int  BY <1>2 DEF RuleRow
  <2> HIDE DEF n
  <2> QED  BY <1>2, <2>1, <2>2, <2>3 DEF RuleRow
<1> QED  BY <1>1, <1>2

\* A rollback the schema accepts advances the account: the before image
\* brings back contents, never revisions.
LEMMA RollbackAdvances ==
  ASSUME NEW s \in State, NEW change \in [before : State, after : State],
         Low(s), Low(change.before), change.before.revision <= s.revision,
         Consistent(RolledBack(s, change))
  PROVE  Advances(s, RolledBack(s, change))
<1> DEFINE t == RolledBack(s, change)
           old == change.before
<1>1. t = [profiles |-> t.profiles, rules |-> t.rules, default |-> t.default,
           settings |-> t.settings, revision |-> s.revision + 1]
  BY DEF RolledBack
<1>2. \A p \in Profiles :
        /\ t.profiles[p] \in ProfileRow \cup {None}
        /\ Newer(t.profiles, s.profiles, p)
  <2> SUFFICES ASSUME NEW p \in Profiles
               PROVE  /\ t.profiles[p] \in ProfileRow \cup {None}
                      /\ Newer(t.profiles, s.profiles, p)
    OBVIOUS
  <2> DEFINE row == Restored(s.profiles[p], old.profiles[p])
  <2>1. t.profiles[p] = s.profiles[p] \/ t.profiles[p] = row  BY DEF RolledBack
  <2>2. s.profiles[p] \in ProfileRow \cup {None} /\ old.profiles[p] \in ProfileRow \cup {None}
    BY DEF State
  <2>3. /\ row \in ProfileRow \cup {None}
        /\ s.profiles[p] # None /\ row # None => row.revision > s.profiles[p].revision
    BY <2>2, RestoredProfile
  <2> HIDE DEF t, row
  <2> QED  BY <2>1, <2>2, <2>3 DEF Newer
<1>3. \A r \in Rules :
        /\ t.rules[r] \in RuleRow \cup {None}
        /\ Newer(t.rules, s.rules, r)
        /\ t.rules[r] # None => \/ s.rules[r] # None /\ t.rules[r].priority = s.rules[r].priority
                                \/ old.rules[r] # None /\ t.rules[r].priority = old.rules[r].priority
  <2> SUFFICES ASSUME NEW r \in Rules
               PROVE  /\ t.rules[r] \in RuleRow \cup {None}
                      /\ Newer(t.rules, s.rules, r)
                      /\ t.rules[r] # None =>
                           \/ s.rules[r] # None /\ t.rules[r].priority = s.rules[r].priority
                           \/ old.rules[r] # None /\ t.rules[r].priority = old.rules[r].priority
    OBVIOUS
  <2> DEFINE row == Restored(s.rules[r], old.rules[r])
  <2>1. t.rules[r] = s.rules[r] \/ t.rules[r] = row  BY DEF RolledBack
  <2>2. s.rules[r] \in RuleRow \cup {None} /\ old.rules[r] \in RuleRow \cup {None}
    BY DEF State
  <2>3. /\ row \in RuleRow \cup {None}
        /\ s.rules[r] # None /\ row # None => row.revision > s.rules[r].revision
        /\ row # None => old.rules[r] # None /\ row.priority = old.rules[r].priority
    BY <2>2, RestoredRule
  <2> HIDE DEF t, row
  <2> QED  BY <2>1, <2>2, <2>3 DEF Newer
<1>4. /\ t.default \in Profiles \cup {None} /\ t.settings \in Nat
      /\ (t.settings = s.settings /\ t.default = s.default) \/ t.settings > s.settings
  BY DEF RolledBack, State
<1>5. DOMAIN t.profiles = Profiles /\ DOMAIN t.rules = Rules
      /\ t.profiles = [p \in Profiles |-> t.profiles[p]] /\ t.rules = [r \in Rules |-> t.rules[r]]
  BY DEF RolledBack
<1>6. t.revision = s.revision + 1 /\ s.revision \in Nat  BY DEF RolledBack, State
<1> HIDE DEF t
<1>7. t.profiles \in [Profiles -> ProfileRow \cup {None}]
      /\ t.rules \in [Rules -> RuleRow \cup {None}]
  BY <1>2, <1>3, <1>5
<1>8. t \in State  BY <1>1, <1>4, <1>6, <1>7 DEF State
<1>9. Follows(s, t)  BY <1>2, <1>3, <1>4 DEF Follows
<1>10. Low(t)
  <2> SUFFICES ASSUME NEW r \in Present(t.rules) PROVE -t.revision <= t.rules[r].priority
    BY DEF Low
  <2>1. r \in Rules /\ t.rules[r] # None  BY <1>5 DEF Present
  <2>2. CASE s.rules[r] # None /\ t.rules[r].priority = s.rules[r].priority
    <3>1. -s.revision <= s.rules[r].priority /\ s.rules[r].priority \in Int
      BY <2>1, <2>2 DEF Low, Present, State, RuleRow
    <3> QED  BY <2>2, <3>1, <1>6
  <2>3. CASE old.rules[r] # None /\ t.rules[r].priority = old.rules[r].priority
    <3>1. /\ -old.revision <= old.rules[r].priority /\ old.rules[r].priority \in Int
          /\ old.revision \in Nat
      BY <2>1, <2>3 DEF Low, Present, State, RuleRow
    <3> QED  BY <2>3, <3>1, <1>6
  <2> QED  BY <2>1, <2>2, <2>3, <1>3
<1>11. Whole(t)  BY DEF Consistent, Whole, t
<1> QED  BY <1>6, <1>8, <1>9, <1>10, <1>11 DEF Advances, t

(* The inductive invariant *)

\* The state that had revision n.
Past(n) == IF n = 0 THEN Empty ELSE log[n].after

\* A row that was never away since revision n is the one it was, or newer.
Aged(table, x, n) ==
  (\A k \in n .. Len(log) : Past(k)[table][x] # None) =>
    state[table][x] = Past(n)[table][x] \/ state[table][x].revision > Past(n)[table][x].revision

\* The log holds one state per revision, the account is in the last, and it
\* has advanced from each of the others.
History ==
  /\ log \in Seq([before : State, after : State])
  /\ \A n \in 0 .. Len(log) : n = Len(log) => state = Past(n)
  /\ \A n \in 1 .. Len(log) : log[n].before = Past(n - 1)
  /\ \A n \in 0 .. Len(log) : Past(n).revision = n /\ Low(Past(n))
  /\ Whole(state)
  /\ \A n \in 0 .. Len(log) :
       /\ \A p \in Profiles : Aged("profiles", p, n)
       /\ \A r \in Rules : Aged("rules", r, n)
       /\ \/ state.settings = Past(n).settings /\ state.default = Past(n).default
          \/ state.settings > Past(n).settings

\* What a device has seen is a state of the past.
SeenPast ==
  /\ seen \in [Editors -> State]
  /\ \A e \in Editors : \E n \in 0 .. Len(log) : seen[e] = Past(n)

StoreInv == History /\ SeenPast

\* The account without rows is a state as it should be.
LEMMA EmptyTyped == Empty \in State /\ Low(Empty) /\ Whole(Empty)
<1>1. Empty \in State  BY DEF Empty, State
<1>2. Present(Empty.rules) = {} /\ Empty.default = None  BY DEF Empty, Present
<1> QED  BY <1>1, <1>2 DEF Low, Whole

\* The past consists of states.
LEMMA PastTyped ==
  ASSUME History
  PROVE  /\ Len(log) \in Nat /\ state \in State
         /\ \A n \in 0 .. Len(log) : Past(n) \in State
<1>1. Len(log) \in Nat  BY DEF History
<1>2. \A n \in 1 .. Len(log) : log[n].after \in State
  <2> DEFINE T == [before : State, after : State]
  <2>1. \A n \in 1 .. Len(log) : log[n] \in T
    <3> HIDE DEF T
    <3>1. log \in Seq(T)  BY DEF History, T
    <3> QED  BY <3>1
  <2> QED  BY <2>1
<1>3. \A n \in 0 .. Len(log) : Past(n) \in State  BY <1>1, <1>2, EmptyTyped DEF Past
<1>4. Len(log) \in 0 .. Len(log)  BY <1>1
<1> QED  BY <1>1, <1>3, <1>4 DEF History

\* The inductive invariant holds initially.
LEMMA StoreInitInv == StoreInit => StoreInv
<1> SUFFICES ASSUME StoreInit PROVE StoreInv  OBVIOUS
<1> USE DEF StoreInit
<1>1. log = << >> /\ Len(log) = 0 /\ log \in Seq([before : State, after : State])  OBVIOUS
<1>2. Past(0) = Empty /\ state = Empty  BY DEF Past
<1>3. Empty.revision = 0  BY DEF Empty
<1>4. \A n \in 0 .. Len(log) : n = 0  BY <1>1
<1>5. \A x : Aged("profiles", x, 0) /\ Aged("rules", x, 0)  BY <1>2 DEF Aged
<1>6. History  BY <1>1, <1>2, <1>3, <1>4, <1>5, EmptyTyped DEF History
<1>7. SeenPast  BY <1>1, <1>2, <1>3, EmptyTyped DEF SeenPast
<1> QED  BY <1>6, <1>7 DEF StoreInv

\* What a commit of t does to the history.
LEMMA CommitKeeps ==
  ASSUME History, NEW t, Advances(state, t), Commit(t)
  PROVE  /\ History' /\ Len(log)' = Len(log) + 1
         /\ \A n \in 0 .. Len(log) : Past(n)' = Past(n)
<1>0. Len(log) \in Nat  BY PastTyped
<1> PICK N \in Nat : N = Len(log)  BY <1>0
<1> DEFINE T == [before : State, after : State]
           entry == [before |-> state, after |-> t]
<1>1. /\ state \in State /\ state = Past(N) /\ state.revision = N
      /\ \A n \in 0 .. N : Past(n) \in State
  <2>1. N \in 0 .. Len(log)  OBVIOUS
  <2> QED  BY <2>1, PastTyped DEF History
<1>2. t \in State /\ t.revision = N + 1  BY <1>1 DEF Advances
<1>3. state' = t /\ log' = Append(log, entry)
  BY <1>1, <1>2 DEF Commit
<1>4. entry \in T  BY <1>1, <1>2
<1>5. /\ log' \in Seq(T) /\ Len(log') = N + 1 /\ log'[N + 1] = entry
      /\ \A n \in 1 .. N : log'[n] = log[n]
  <2> HIDE DEF entry, T
  <2>1. log \in Seq(T)  BY DEF History, T
  <2> QED  BY <2>1, <1>3, <1>4
<1>6. entry.before = state /\ entry.after = t  OBVIOUS
<1> HIDE DEF entry
<1>7. \A n \in 0 .. N : Past(n)' = Past(n)  BY <1>1, <1>5 DEF Past
<1>8. Past(N + 1)' = t  BY <1>1, <1>5, <1>6 DEF Past
<1>9. \A n \in 1 .. N + 1 : log'[n].before = Past(n - 1)'
  <2> SUFFICES ASSUME NEW n \in 1 .. N + 1 PROVE log'[n].before = Past(n - 1)'  OBVIOUS
  <2>1. CASE n = N + 1
    <3>1. n - 1 = N /\ N \in 0 .. N  BY <2>1, <1>1
    <3> QED  BY <2>1, <3>1, <1>1, <1>5, <1>6, <1>7
  <2>2. CASE n \in 1 .. N
    <3>1. n - 1 \in 0 .. N  BY <2>2, <1>1
    <3>2. log[n].before = Past(n - 1)  BY <2>2 DEF History
    <3> QED  BY <2>2, <3>1, <3>2, <1>5, <1>7
  <2> QED  BY <2>1, <2>2, <1>1
<1>10. \A n \in 0 .. N + 1 : Past(n)'.revision = n /\ Low(Past(n)')
  <2> SUFFICES ASSUME NEW n \in 0 .. N + 1 PROVE Past(n)'.revision = n /\ Low(Past(n)')
    OBVIOUS
  <2>1. CASE n = N + 1
    <3>1. Low(state)  BY <1>1 DEF History
    <3> QED  BY <2>1, <3>1, <1>2, <1>8 DEF Advances
  <2>2. CASE n \in 0 .. N
    <3>1. Past(n).revision = n /\ Low(Past(n))  BY <2>2 DEF History
    <3> QED  BY <2>2, <3>1, <1>7
  <2> QED  BY <2>1, <2>2, <1>1
<1>11. Whole(t)  BY DEF History, Advances
<1>12. \A n \in 0 .. N + 1 : \A p \in Profiles : Aged("profiles", p, n)'
  <2> SUFFICES ASSUME NEW n \in 0 .. N + 1, NEW p \in Profiles,
                      \A k \in n .. N + 1 : Past(k)'.profiles[p] # None
               PROVE  \/ t.profiles[p] = Past(n)'.profiles[p]
                      \/ t.profiles[p].revision > Past(n)'.profiles[p].revision
    BY <1>3, <1>5 DEF Aged
  <2>1. CASE n = N + 1  BY <2>1, <1>8
  <2>2. CASE n \in 0 .. N
    <3>1. \A k \in n .. N : k \in n .. N + 1 /\ k \in 0 .. N  BY <2>2, <1>1
    <3>2. \A k \in n .. N : Past(k).profiles[p] # None  BY <3>1, <1>7
    <3>3. Aged("profiles", p, n)  BY <2>2 DEF History
    <3>4. \/ state.profiles[p] = Past(n).profiles[p]
          \/ state.profiles[p].revision > Past(n).profiles[p].revision
      BY <3>2, <3>3 DEF Aged
    <3>5. N + 1 \in n .. N + 1 /\ N \in n .. N /\ n \in n .. N  BY <2>2, <1>1
    <3>6. t.profiles[p] # None /\ state.profiles[p] # None /\ Past(n).profiles[p] # None
      BY <3>2, <3>5, <1>1, <1>8
    <3>7. t.profiles[p] = state.profiles[p] \/ t.profiles[p].revision > state.profiles[p].revision
      BY <3>6 DEF Advances, Follows, Newer
    <3>8. /\ t.profiles[p].revision \in Nat /\ state.profiles[p].revision \in Nat
          /\ Past(n).profiles[p].revision \in Nat
      BY <3>6, <2>2, <1>1, <1>2 DEF State, ProfileRow
    <3> QED  BY <3>4, <3>7, <3>8, <2>2, <1>7
  <2> QED  BY <2>1, <2>2, <1>1
<1>13. \A n \in 0 .. N + 1 : \A r \in Rules : Aged("rules", r, n)'
  <2> SUFFICES ASSUME NEW n \in 0 .. N + 1, NEW r \in Rules,
                      \A k \in n .. N + 1 : Past(k)'.rules[r] # None
               PROVE  \/ t.rules[r] = Past(n)'.rules[r]
                      \/ t.rules[r].revision > Past(n)'.rules[r].revision
    BY <1>3, <1>5 DEF Aged
  <2>1. CASE n = N + 1  BY <2>1, <1>8
  <2>2. CASE n \in 0 .. N
    <3>1. \A k \in n .. N : k \in n .. N + 1 /\ k \in 0 .. N  BY <2>2, <1>1
    <3>2. \A k \in n .. N : Past(k).rules[r] # None  BY <3>1, <1>7
    <3>3. Aged("rules", r, n)  BY <2>2 DEF History
    <3>4. \/ state.rules[r] = Past(n).rules[r]
          \/ state.rules[r].revision > Past(n).rules[r].revision
      BY <3>2, <3>3 DEF Aged
    <3>5. N + 1 \in n .. N + 1 /\ N \in n .. N /\ n \in n .. N  BY <2>2, <1>1
    <3>6. t.rules[r] # None /\ state.rules[r] # None /\ Past(n).rules[r] # None
      BY <3>2, <3>5, <1>1, <1>8
    <3>7. t.rules[r] = state.rules[r] \/ t.rules[r].revision > state.rules[r].revision
      BY <3>6 DEF Advances, Follows, Newer
    <3>8. /\ t.rules[r].revision \in Nat /\ state.rules[r].revision \in Nat
          /\ Past(n).rules[r].revision \in Nat
      BY <3>6, <2>2, <1>1, <1>2 DEF State, RuleRow
    <3> QED  BY <3>4, <3>7, <3>8, <2>2, <1>7
  <2> QED  BY <2>1, <2>2, <1>1
<1>14. \A n \in 0 .. N + 1 : \/ t.settings = Past(n)'.settings /\ t.default = Past(n)'.default
                             \/ t.settings > Past(n)'.settings
  <2> SUFFICES ASSUME NEW n \in 0 .. N + 1
               PROVE  \/ t.settings = Past(n)'.settings /\ t.default = Past(n)'.default
                      \/ t.settings > Past(n)'.settings
    OBVIOUS
  <2>1. CASE n = N + 1  BY <2>1, <1>8
  <2>2. CASE n \in 0 .. N
    <3>1. \/ state.settings = Past(n).settings /\ state.default = Past(n).default
          \/ state.settings > Past(n).settings
      BY <2>2 DEF History
    <3>2. \/ t.settings = state.settings /\ t.default = state.default
          \/ t.settings > state.settings
      BY DEF Advances, Follows
    <3>3. t.settings \in Nat /\ state.settings \in Nat /\ Past(n).settings \in Nat
      BY <2>2, <1>1, <1>2 DEF State
    <3> QED  BY <2>2, <3>1, <3>2, <3>3, <1>7
  <2> QED  BY <2>1, <2>2, <1>1
<1>15. History'
  <2>1. \A n \in 0 .. N + 1 : n = N + 1 => state' = Past(n)'  BY <1>3, <1>8
  <2> QED  BY <2>1, <1>3, <1>5, <1>8, <1>9, <1>10, <1>11, <1>12, <1>13, <1>14 DEF History, T
<1> QED  BY <1>3, <1>5, <1>7, <1>15

\* The devices' views stay past states when the history grows.
LEMMA SeenKept ==
  ASSUME StoreInv, Len(log)' \in Nat, Len(log) <= Len(log)', History', state' \in State,
         \A n \in 0 .. Len(log) : Past(n)' = Past(n), seen' \in [Editors -> State],
         \A e \in Editors : seen'[e] = seen[e] \/ seen'[e] = state'
  PROVE  SeenPast'
<1> SUFFICES ASSUME NEW e \in Editors
             PROVE  \E n \in 0 .. Len(log)' : seen'[e] = Past(n)'
  BY DEF SeenPast
<1>1. Len(log) \in Nat  BY PastTyped DEF StoreInv
<1>2. CASE seen'[e] = seen[e]
  <2>1. PICK n \in 0 .. Len(log) : seen[e] = Past(n)  BY DEF StoreInv, SeenPast
  <2> QED  BY <1>1, <1>2, <2>1
<1>3. CASE seen'[e] = state'
  <2>1. PICK n \in 0 .. Len(log)' : n = Len(log)'  OBVIOUS
  <2>2. state' = Past(n)'  BY <2>1 DEF History
  <2> QED  BY <1>3, <2>2
<1> QED  BY <1>2, <1>3

\* Every step keeps the inductive invariant.
LEMMA StoreNextInv == StoreInv /\ [StoreNext]_storeVars => StoreInv'
<1> SUFFICES ASSUME StoreInv, [StoreNext]_storeVars PROVE StoreInv'  OBVIOUS
<1>1. /\ Len(log) \in Nat /\ state \in State /\ state.revision = Len(log) /\ Low(state)
      /\ Whole(state) /\ seen \in [Editors -> State] /\ state = Past(Len(log))
  <2>1. Len(log) \in 0 .. Len(log)  BY PastTyped DEF StoreInv
  <2> QED  BY <2>1, PastTyped DEF StoreInv, History, SeenPast
<1>2. CASE UNCHANGED storeVars
  <2>1. state' = state /\ log' = log /\ seen' = seen  BY <1>2 DEF storeVars
  <2>2. \A n \in 0 .. Len(log) : Past(n)' = Past(n)  BY <2>1 DEF Past
  <2>3. History'  BY <2>1, <2>2 DEF StoreInv, History, Past, Aged
  <2>4. SeenPast'  BY <2>1, <2>2 DEF StoreInv, SeenPast
  <2> QED  BY <2>3, <2>4 DEF StoreInv
<1>3. ASSUME NEW e \in Editors, Fetch(e) PROVE StoreInv'
  <2>1. state' = state /\ log' = log  BY <1>3 DEF Fetch
  <2>2. \A n \in 0 .. Len(log) : Past(n)' = Past(n)  BY <2>1 DEF Past
  <2>3. History'  BY <2>1, <2>2 DEF StoreInv, History, Past, Aged
  <2>4. /\ seen' \in [Editors -> State]
        /\ \A x \in Editors : seen'[x] = seen[x] \/ seen'[x] = state'
    BY <1>1, <1>3, <2>1 DEF Fetch
  <2>5. SeenPast'  BY <1>1, <2>1, <2>2, <2>3, <2>4, SeenKept
  <2> QED  BY <2>3, <2>5 DEF StoreInv
<1>4. ASSUME NEW e \in Editors, Edit(e) PROVE StoreInv'
  <2>1. PICK op \in Requests(seen[e]) :
          /\ Commit(Serve(state, op).state)
          /\ \/ seen' = [seen EXCEPT ![e] = Serve(state, op).state]
             \/ UNCHANGED seen
    BY <1>4 DEF Edit
  <2> DEFINE t == Serve(state, op).state
  <2>2. t = state \/ Advances(state, t)  BY <1>1, <2>1, ServeAdvances
  <2>3. state' = t  BY <2>1 DEF Commit
  <2> HIDE DEF t
  <2>4. t \in State  BY <1>1, <2>2 DEF Advances
  <2>5. /\ seen' \in [Editors -> State]
        /\ \A x \in Editors : seen'[x] = seen[x] \/ seen'[x] = state'
    BY <1>1, <2>1, <2>3, <2>4 DEF t
  <2>6. CASE t = state
    <3>1. state' = state /\ log' = log  BY <2>1, <2>6 DEF Commit, t
    <3>2. \A n \in 0 .. Len(log) : Past(n)' = Past(n)  BY <3>1 DEF Past
    <3>3. History'  BY <3>1, <3>2 DEF StoreInv, History, Past, Aged
    <3>4. SeenPast'  BY <1>1, <2>5, <3>1, <3>2, <3>3, SeenKept
    <3> QED  BY <3>3, <3>4 DEF StoreInv
  <2>7. CASE Advances(state, t)
    <3>1. /\ History' /\ Len(log)' = Len(log) + 1
          /\ \A n \in 0 .. Len(log) : Past(n)' = Past(n)
      BY <2>1, <2>7, CommitKeeps DEF StoreInv, t
    <3>2. SeenPast'  BY <1>1, <2>3, <2>4, <2>5, <3>1, SeenKept
    <3> QED  BY <3>1, <3>2 DEF StoreInv
  <2> QED  BY <2>2, <2>6, <2>7
<1>5. ASSUME Rollback PROVE StoreInv'
  <2>1. PICK k \in 1 .. Len(log) : /\ Consistent(RolledBack(state, log[k]))
                                   /\ Commit(RolledBack(state, log[k]))
    BY <1>5 DEF Rollback
  <2> DEFINE t == RolledBack(state, log[k])
  <2>2. log[k] \in [before : State, after : State]
    <3> DEFINE T == [before : State, after : State]
    <3> HIDE DEF T
    <3>1. log \in Seq(T)  BY DEF StoreInv, History, T
    <3>2. log[k] \in T  BY <3>1
    <3> QED  BY <3>2 DEF T
  <2>3. Low(log[k].before) /\ log[k].before.revision <= state.revision
    <3>1. k - 1 \in 0 .. Len(log) /\ k - 1 <= Len(log)  BY <1>1
    <3> QED  BY <3>1, <1>1 DEF StoreInv, History
  <2>4. Advances(state, t)  BY <1>1, <2>1, <2>2, <2>3, RollbackAdvances
  <2>5. state' = t /\ UNCHANGED seen  BY <1>5, <2>1 DEF Commit, Rollback
  <2>6. /\ History' /\ Len(log)' = Len(log) + 1
        /\ \A n \in 0 .. Len(log) : Past(n)' = Past(n)
    BY <2>1, <2>4, CommitKeeps DEF StoreInv
  <2> HIDE DEF t
  <2>7. SeenPast'  BY <1>1, <2>4, <2>5, <2>6, SeenKept DEF Advances
  <2> QED  BY <2>6, <2>7 DEF StoreInv
<1> QED  BY <1>2, <1>3, <1>4, <1>5 DEF StoreNext

\* Whatever the devices and the administrator do, the history stays as
\* described: the audit log of equalizer_pg.rs holds one state per revision.
THEOREM StoreInvariant == StoreSpec => []StoreInv
  BY StoreInitInv, StoreNextInv, PTL DEF StoreSpec

\* Every request and every rollback keeps the types of the rows and the log.
THEOREM StoreTyped == StoreSpec => []StoreTypeOK
<1>1. StoreInv => StoreTypeOK
  <2> SUFFICES ASSUME StoreInv PROVE StoreTypeOK  OBVIOUS
  <2> DEFINE T == [before : State, after : State]
  <2>1. \A k \in 1 .. Len(log) : log[k] \in T
    <3> HIDE DEF T
    <3>1. log \in Seq(T)  BY DEF StoreInv, History, T
    <3> QED  BY <3>1
  <2>2. state \in State  BY PastTyped DEF StoreInv
  <2> QED  BY <2>1, <2>2 DEF StoreTypeOK, StoreInv, SeenPast
<1> QED  BY <1>1, StoreInvariant, PTL

\* A device whose revision is the server's has the server's state, so the
\* answer "not modified" of get_state is right.
THEOREM RevisionNamesState == StoreSpec => []SeenAtRevision
<1>1. StoreInv => SeenAtRevision
  <2> SUFFICES ASSUME StoreInv, NEW e \in Editors, seen[e].revision = state.revision
               PROVE  seen[e] = state
    BY DEF SeenAtRevision
  <2>1. PICK n \in 0 .. Len(log) : seen[e] = Past(n)  BY DEF StoreInv, SeenPast
  <2>2. Len(log) \in 0 .. Len(log)  BY PastTyped DEF StoreInv
  <2>3. seen[e].revision = n /\ state = Past(Len(log)) /\ state.revision = Len(log)
    BY <2>1, <2>2 DEF StoreInv, History
  <2> QED  BY <2>1, <2>3
<1> QED  BY <1>1, StoreInvariant, PTL

\* Deletions and rollbacks never leave a rule or a default that selects a
\* profile that is not there.
THEOREM NothingDangles == StoreSpec => []NoDangling
<1>1. StoreInv => NoDangling  BY DEF StoreInv, History, Whole, NoDangling
<1> QED  BY <1>1, StoreInvariant, PTL

(* Compare-and-swap *)

\* Serve dispatches on the kind of the request.
LEMMA ServeByKind ==
  ASSUME NEW s, NEW op
  PROVE  /\ op.kind = "create profile" => Serve(s, op) = CreateProfile(s, op)
         /\ op.kind = "update profile" => Serve(s, op) = UpdateProfile(s, op)
         /\ op.kind = "delete profile" => Serve(s, op) = DeleteProfile(s, op)
         /\ op.kind = "default" => Serve(s, op) = UpdateSettings(s, op)
         /\ op.kind = "create rule" => Serve(s, op) = CreateRule(s, op)
         /\ op.kind = "update rule" => Serve(s, op) = UpdateRule(s, op)
         /\ op.kind = "delete rule" => Serve(s, op) = DeleteRule(s, op)
         /\ op.kind = "reorder" => Serve(s, op) = ReorderRules(s, op)
  BY DEF Serve

\* A creation is of a profile or of a rule.
LEMMA CreationKinds ==
  ASSUME NEW s \in State, NEW op \in Creations(s)
  PROVE  \/ op.kind = "create profile" /\ op.profile \in Profiles
         \/ op.kind = "create rule" /\ op.rule \in Rules
  BY DEF Creations

\* A reordering names rules its device saw, at the revisions it saw.
LEMMA ReorderKind ==
  ASSUME NEW s \in State, NEW op \in Reorders(s)
  PROVE  /\ op.kind = "reorder"
         /\ \A i \in 1 .. Len(op.order) :
              /\ op.order[i][1] \in Present(s.rules)
              /\ op.order[i][2] = s.rules[op.order[i][1]].revision
<1> DEFINE size == Cardinality(Present(s.rules))
<1>1. PICK f \in [1 .. size -> Present(s.rules)] :
        op = [kind |-> "reorder", order |-> [i \in 1 .. size |-> <<f[i], s.rules[f[i]].revision>>]]
  BY Zenon DEF Reorders
<1>2. size \in Nat
  <2>1. Present(s.rules) \subseteq Rules  BY DEF Present, State
  <2>2. IsFiniteSet(Present(s.rules))  BY <2>1, StoreAssumption, FS_Subset
  <2> QED  BY <2>2, FS_CardinalityType
<1> HIDE DEF size
<1>3. /\ op.kind = "reorder"
      /\ op.order = [i \in 1 .. size |-> <<f[i], s.rules[f[i]].revision>>]
  BY <1>1
<1>4. Len(op.order) = size  BY <1>2, <1>3
<1>5. \A i \in 1 .. size : /\ op.order[i] = <<f[i], s.rules[f[i]].revision>>
                          /\ f[i] \in Present(s.rules)
  BY <1>3
<1>6. ASSUME NEW i \in 1 .. size
      PROVE  /\ op.order[i][1] \in Present(s.rules)
             /\ op.order[i][2] = s.rules[op.order[i][1]].revision
  <2>1. op.order[i][1] = f[i] /\ op.order[i][2] = s.rules[f[i]].revision  BY <1>5
  <2> QED  BY <1>5, <2>1
<1> QED  BY <1>3, <1>4, <1>6

\* A request changes a profile that is there only if its device saw it, at
\* the revision it has.
LEMMA ProfilesCompared ==
  ASSUME NEW s \in State, NEW old \in State, NEW op \in Requests(old),
         NEW p \in Present(s.profiles), Serve(s, op).state.profiles[p] # s.profiles[p]
  PROVE  p \in Present(old.profiles) /\ s.profiles[p].revision = old.profiles[p].revision
<1>1. p \in Profiles  BY DEF Present, State
<1>2. Serve(s, op).state # s /\ Serve(s, op).state.profiles # s.profiles  OBVIOUS
<1>3. CASE op \in Creations(old)
  <2>1. CASE op.kind = "create profile"
    <3>1. Serve(s, op) = CreateProfile(s, op)  BY <2>1, ServeByKind
    <3> QED  BY <1>2, <3>1, CreateProfileTouches
  <2>2. CASE op.kind = "create rule"
    <3>1. Serve(s, op) = CreateRule(s, op)  BY <2>2, ServeByKind
    <3> QED  BY <1>2, <3>1, CreateRuleTouches
  <2> QED  BY <1>3, <2>1, <2>2, CreationKinds
<1>4. CASE op \in Updates(old)
  <2>1. CASE op.kind = "update profile"
    <3>1. Serve(s, op) = UpdateProfile(s, op)  BY <2>1, ServeByKind
    <3>2. p = op.profile /\ s.profiles[p].revision = op.expected
      BY <1>1, <1>2, <3>1, UpdateProfileTouches
    <3> QED  BY <1>4, <2>1, <3>2, UpdateKinds
  <2>2. CASE op.kind = "update rule"
    <3>1. op.rule \in Rules  BY <1>4, <2>2, UpdateKinds DEF Present, State
    <3>2. Serve(s, op) = UpdateRule(s, op)  BY <2>2, ServeByKind
    <3> QED  BY <1>2, <3>1, <3>2, UpdateRuleTouches
  <2>3. CASE op.kind = "default"
    <3>1. Serve(s, op) = UpdateSettings(s, op)  BY <2>3, ServeByKind
    <3> QED  BY <1>2, <3>1, UpdateSettingsTouches
  <2> QED  BY <1>4, <2>1, <2>2, <2>3, UpdateKinds
<1>5. CASE op \in Deletions(old)
  <2>1. CASE op.kind = "delete profile"
    <3>1. Serve(s, op) = DeleteProfile(s, op)  BY <2>1, ServeByKind
    <3>2. p = op.profile /\ s.profiles[p].revision = op.expected
      BY <1>1, <1>2, <3>1, DeleteProfileTouches
    <3> QED  BY <1>5, <2>1, <3>2, DeletionKinds
  <2>2. CASE op.kind = "delete rule"
    <3>1. Serve(s, op) = DeleteRule(s, op)  BY <2>2, ServeByKind
    <3> QED  BY <1>2, <3>1, DeleteRuleTouches
  <2> QED  BY <1>5, <2>1, <2>2, DeletionKinds
<1>6. CASE op \in Reorders(old)
  <2>1. Serve(s, op) = ReorderRules(s, op)  BY <1>6, ReorderKind, ServeByKind
  <2> QED  BY <1>2, <2>1, ReorderRulesTouches
<1> QED  BY <1>3, <1>4, <1>5, <1>6 DEF Requests

\* The same of a rule, also of one a deletion points elsewhere.
LEMMA RulesCompared ==
  ASSUME NEW s \in State, NEW old \in State, NEW op \in Requests(old),
         NEW r \in Present(s.rules), Serve(s, op).state.rules[r] # s.rules[r]
  PROVE  r \in Present(old.rules) /\ s.rules[r].revision = old.rules[r].revision
<1>1. r \in Rules  BY DEF Present, State
<1>2. Serve(s, op).state # s /\ Serve(s, op).state.rules # s.rules  OBVIOUS
<1>3. CASE op \in Creations(old)
  <2>1. CASE op.kind = "create profile"
    <3>1. Serve(s, op) = CreateProfile(s, op)  BY <2>1, ServeByKind
    <3> QED  BY <1>2, <3>1, CreateProfileTouches
  <2>2. CASE op.kind = "create rule"
    <3>1. Serve(s, op) = CreateRule(s, op)  BY <2>2, ServeByKind
    <3> QED  BY <1>2, <3>1, CreateRuleTouches
  <2> QED  BY <1>3, <2>1, <2>2, CreationKinds
<1>4. CASE op \in Updates(old)
  <2>1. CASE op.kind = "update profile"
    <3>1. Serve(s, op) = UpdateProfile(s, op)  BY <2>1, ServeByKind
    <3> QED  BY <1>2, <3>1, UpdateProfileTouches
  <2>2. CASE op.kind = "update rule"
    <3>1. op.rule \in Rules  BY <1>4, <2>2, UpdateKinds DEF Present, State
    <3>2. Serve(s, op) = UpdateRule(s, op)  BY <2>2, ServeByKind
    <3>3. r = op.rule /\ s.rules[r].revision = op.expected
      BY <1>1, <1>2, <3>1, <3>2, UpdateRuleTouches
    <3> QED  BY <1>4, <2>2, <3>3, UpdateKinds
  <2>3. CASE op.kind = "default"
    <3>1. Serve(s, op) = UpdateSettings(s, op)  BY <2>3, ServeByKind
    <3> QED  BY <1>2, <3>1, UpdateSettingsTouches
  <2> QED  BY <1>4, <2>1, <2>2, <2>3, UpdateKinds
<1>5. CASE op \in Deletions(old)
  <2>1. CASE op.kind = "delete profile"
    <3>1. Serve(s, op) = DeleteProfile(s, op)  BY <2>1, ServeByKind
    <3>2. s.rules[r].target = op.profile /\ References(s, op.profile) = op.references
      BY <1>2, <3>1, DeleteProfileTouches
    <3>3. op.references = References(old, op.profile)  BY <1>5, <2>1, DeletionKinds
    <3>4. <<r, s.rules[r].revision>> \in References(old, op.profile)
      BY <3>2, <3>3 DEF References
    <3>5. PICK x \in Present(old.rules) :
            <<r, s.rules[r].revision>> = <<x, old.rules[x].revision>>
      BY <3>4 DEF References
    <3> QED  BY <3>5
  <2>2. CASE op.kind = "delete rule"
    <3>1. Serve(s, op) = DeleteRule(s, op)  BY <2>2, ServeByKind
    <3>2. r = op.rule /\ s.rules[r].revision = op.expected
      BY <1>1, <1>2, <3>1, DeleteRuleTouches
    <3> QED  BY <1>5, <2>2, <3>2, DeletionKinds
  <2> QED  BY <1>5, <2>1, <2>2, DeletionKinds
<1>6. CASE op \in Reorders(old)
  <2>1. Serve(s, op) = ReorderRules(s, op)  BY <1>6, ReorderKind, ServeByKind
  <2>2. PICK i \in 1 .. Len(op.order) :
          op.order[i][1] = r /\ op.order[i][2] = s.rules[r].revision
    BY <1>2, <2>1, ReorderRulesTouches
  <2> QED  BY <1>6, <2>2, ReorderKind
<1> QED  BY <1>3, <1>4, <1>5, <1>6 DEF Requests

\* The default changes only if its device saw the settings at their revision.
LEMMA DefaultCompared ==
  ASSUME NEW s \in State, NEW old \in State, NEW op \in Requests(old),
         Serve(s, op).state.default # s.default
  PROVE  s.settings = old.settings
<1>1. Serve(s, op).state # s  OBVIOUS
<1>2. CASE op \in Creations(old)
  <2>1. CASE op.kind = "create profile"
    <3>1. Serve(s, op) = CreateProfile(s, op)  BY <2>1, ServeByKind
    <3> QED  BY <1>1, <3>1, CreateProfileTouches
  <2>2. CASE op.kind = "create rule"
    <3>1. Serve(s, op) = CreateRule(s, op)  BY <2>2, ServeByKind
    <3> QED  BY <1>1, <3>1, CreateRuleTouches
  <2> QED  BY <1>2, <2>1, <2>2, CreationKinds
<1>3. CASE op \in Updates(old)
  <2>1. CASE op.kind = "update profile"
    <3>1. Serve(s, op) = UpdateProfile(s, op)  BY <2>1, ServeByKind
    <3> QED  BY <1>1, <3>1, UpdateProfileTouches
  <2>2. CASE op.kind = "update rule"
    <3>1. op.rule \in Rules  BY <1>3, <2>2, UpdateKinds DEF Present, State
    <3>2. Serve(s, op) = UpdateRule(s, op)  BY <2>2, ServeByKind
    <3> QED  BY <1>1, <3>1, <3>2, UpdateRuleTouches
  <2>3. CASE op.kind = "default"
    <3>1. Serve(s, op) = UpdateSettings(s, op)  BY <2>3, ServeByKind
    <3>2. s.settings = op.expected  BY <1>1, <3>1, UpdateSettingsTouches
    <3> QED  BY <1>3, <2>3, <3>2, UpdateKinds
  <2> QED  BY <1>3, <2>1, <2>2, <2>3, UpdateKinds
<1>4. CASE op \in Deletions(old)
  <2>1. CASE op.kind = "delete profile"
    <3>1. Serve(s, op) = DeleteProfile(s, op)  BY <2>1, ServeByKind
    <3>2. s.settings = op.settings  BY <1>1, <3>1, DeleteProfileTouches
    <3> QED  BY <1>4, <2>1, <3>2, DeletionKinds
  <2>2. CASE op.kind = "delete rule"
    <3>1. Serve(s, op) = DeleteRule(s, op)  BY <2>2, ServeByKind
    <3> QED  BY <1>1, <3>1, DeleteRuleTouches
  <2> QED  BY <1>4, <2>1, <2>2, DeletionKinds
<1>5. CASE op \in Reorders(old)
  <2>1. Serve(s, op) = ReorderRules(s, op)  BY <1>5, ReorderKind, ServeByKind
  <2> QED  BY <1>1, <2>1, ReorderRulesTouches
<1> QED  BY <1>2, <1>3, <1>4, <1>5 DEF Requests

\* Compare-and-swap: a request of a device, however old its state, changes no
\* row and no default that is not what the device saw, unless the row was gone
\* in between.  A row never away since the device's revision is the one it saw
\* or has a higher revision, and the requests compare revisions.
THEOREM CompareAndSwap == StoreSpec => []StaleNeverWins
<1>1. StoreInv => StaleNeverWins
  <2> SUFFICES ASSUME StoreInv, NEW e \in Editors, NEW op \in Requests(seen[e])
               PROVE  LET after == Serve(state, op).state
                      IN  /\ \A p \in Present(state.profiles) :
                               /\ after.profiles[p] # state.profiles[p]
                               /\ Lived("profiles", p, seen[e].revision)
                               => state.profiles[p] = seen[e].profiles[p]
                          /\ \A r \in Present(state.rules) :
                               /\ after.rules[r] # state.rules[r]
                               /\ Lived("rules", r, seen[e].revision)
                               => state.rules[r] = seen[e].rules[r]
                          /\ after.default # state.default => state.default = seen[e].default
    BY DEF StaleNeverWins
  <2> DEFINE after == Serve(state, op).state
  <2>1. PICK n \in 0 .. Len(log) : seen[e] = Past(n)  BY DEF StoreInv, SeenPast
  <2>2. /\ seen[e] \in State /\ state \in State /\ seen[e].revision = n /\ Len(log) \in Nat
        /\ \A k \in 0 .. Len(log) : Past(k) \in State /\ Past(k).revision = k
    BY <2>1, PastTyped DEF StoreInv, History, SeenPast
  <2>3. \A k \in 1 .. Len(log) : log[k].after = Past(k)  BY <2>2 DEF Past
  <2>4. Past(0) = Empty  BY DEF Past
  <2>5. ASSUME NEW p \in Present(state.profiles), after.profiles[p] # state.profiles[p],
               Lived("profiles", p, seen[e].revision)
        PROVE  state.profiles[p] = seen[e].profiles[p]
    <3>1. p \in Present(seen[e].profiles) /\ state.profiles[p].revision = seen[e].profiles[p].revision
      BY <2>2, <2>5, ProfilesCompared
    <3>2. p \in Profiles /\ seen[e].profiles[p] # None  BY <2>2, <3>1 DEF Present, State
    <3>3. \A k \in n .. Len(log) : Past(k).profiles[p] # None
      <4> SUFFICES ASSUME NEW k \in n .. Len(log) PROVE Past(k).profiles[p] # None  OBVIOUS
      <4>1. CASE k = n  BY <2>1, <3>2, <4>1
      <4>2. CASE k # n
        <5>1. k \in 1 .. Len(log) /\ Past(k).revision = k /\ k >= n  BY <2>2, <4>2
        <5>2. log[k].after.revision >= n  BY <2>3, <5>1
        <5> QED  BY <2>2, <2>3, <2>5, <5>1, <5>2 DEF Lived
      <4> QED  BY <4>1, <4>2
    <3>4. \/ state.profiles[p] = Past(n).profiles[p]
          \/ state.profiles[p].revision > Past(n).profiles[p].revision
      BY <3>2, <3>3 DEF StoreInv, History, Aged
    <3>5. state.profiles[p].revision \in Nat  BY <2>2, <2>5, <3>2 DEF Present, State, ProfileRow
    <3> QED  BY <2>1, <3>1, <3>4, <3>5
  <2>6. ASSUME NEW r \in Present(state.rules), after.rules[r] # state.rules[r],
               Lived("rules", r, seen[e].revision)
        PROVE  state.rules[r] = seen[e].rules[r]
    <3>1. r \in Present(seen[e].rules) /\ state.rules[r].revision = seen[e].rules[r].revision
      BY <2>2, <2>6, RulesCompared
    <3>2. r \in Rules /\ seen[e].rules[r] # None  BY <2>2, <3>1 DEF Present, State
    <3>3. \A k \in n .. Len(log) : Past(k).rules[r] # None
      <4> SUFFICES ASSUME NEW k \in n .. Len(log) PROVE Past(k).rules[r] # None  OBVIOUS
      <4>1. CASE k = n  BY <2>1, <3>2, <4>1
      <4>2. CASE k # n
        <5>1. k \in 1 .. Len(log) /\ Past(k).revision = k /\ k >= n  BY <2>2, <4>2
        <5>2. log[k].after.revision >= n  BY <2>3, <5>1
        <5> QED  BY <2>2, <2>3, <2>6, <5>1, <5>2 DEF Lived
      <4> QED  BY <4>1, <4>2
    <3>4. \/ state.rules[r] = Past(n).rules[r]
          \/ state.rules[r].revision > Past(n).rules[r].revision
      BY <3>2, <3>3 DEF StoreInv, History, Aged
    <3>5. state.rules[r].revision \in Nat  BY <2>2, <2>6, <3>2 DEF Present, State, RuleRow
    <3> QED  BY <2>1, <3>1, <3>4, <3>5
  <2>7. ASSUME after.default # state.default PROVE state.default = seen[e].default
    <3>1. state.settings = seen[e].settings  BY <2>2, <2>7, DefaultCompared
    <3>2. \/ state.settings = Past(n).settings /\ state.default = Past(n).default
          \/ state.settings > Past(n).settings
      BY DEF StoreInv, History
    <3>3. state.settings \in Nat  BY <2>2 DEF State
    <3> QED  BY <2>1, <3>1, <3>2, <3>3
  <2> QED  BY <2>5, <2>6, <2>7
<1> QED  BY <1>1, StoreInvariant, PTL

-----------------------------------------------------------------------------
(* The outbox and the conflicts of the device (EqualizerSync).             *)

\* The edit the lock is held for, and the conflicts outside D.
Held == IF Editing THEN {task.id} ELSE {}
Away(D) == {conflicts[c].id : c \in DOMAIN conflicts \ D}

\* Where an edit may be, were the conflicts in D deleted.
Kept(D) == Ids(queue) \cup Away(D) \cup local \cup done \cup dropped \cup cut \cup Held

RowFields == {"id", "op", "group", "behind"}

\* A row has one id for good, and is either queued or in conflict.
Tabled ==
    /\ rows \in Nat
    /\ DOMAIN queue \subseteq 1 .. rows /\ DOMAIN conflicts \subseteq 1 .. rows
    /\ DOMAIN queue \cap DOMAIN conflicts = {}
    /\ \A r \in DOMAIN queue : queue[r] = [f \in RowFields |-> queue[r][f]]

Counted ==
    /\ spent = [b \in {"edits", "others", "faults", "resolves"} |-> spent[b]]
    /\ spent.edits \in 0 .. MaxEdits

\* What the holder of the lock may find.
Locked ==
    /\ pc \in {"idle", "preserve"} => answer = None
    /\ pc \in {"probe", "sync probe", "pull"} /\ answer # None =>
         answer.code = "ok" \/ answer = Down \/ answer = Absent
    /\ pc = "head" => Some(queue)

\* A conflict that is about to be deleted has taken its way before, unless the
\* user leaves it to the server.
Settled ==
    resolving # None =>
      /\ resolving = [f \in {"how", "base", "drop", "todo"} |-> resolving[f]]
      /\ resolving.drop # {} /\ resolving.drop \subseteq DOMAIN conflicts
      /\ resolving.todo \subseteq resolving.drop
      /\ resolving.how # "keep_server" =>
           \A c \in resolving.drop \ resolving.todo : conflicts[c].id \in Kept(resolving.drop)

\* A row depends on older rows, and is of one group with those still queued.
Grouped ==
    \A r \in DOMAIN queue :
      /\ queue[r].behind \subseteq 1 .. rows
      /\ \A q \in queue[r].behind \cap DOMAIN queue : queue[q].group = queue[r].group

BooksInv == Tabled /\ Counted /\ Locked /\ Settled /\ EditsAccountedFor
GroupInv == Grouped /\ DependentsSetAside

LEMMA LeastNat ==
    ASSUME NEW T, T \subseteq Nat, T # {}
    PROVE  \E x \in T : \A y \in T : x <= y
<1> DEFINE R == OpToRel(<, Nat)
<1>1. IsWellFoundedOn(R, Nat)
  BY NatLessThanWellFounded
<1>2. PICK x \in T : \A y \in T : ~(<<y, x>> \in R)
  <2> HIDE DEF R
  <2> QED BY <1>1, WFMin
<1>3. \A y \in T : <<y, x>> \in R <=> y < x
  BY DEF OpToRel
<1> HIDE DEF R
<1>4. \A y \in T : ~(y < x)
  BY <1>2, <1>3
<1>5. x \in Nat /\ \A y \in T : y \in Nat
  OBVIOUS
<1> QED BY <1>4, <1>5

\* The oldest of some rows is one of them.
LEMMA OldestIn ==
    ASSUME NEW T, T \subseteq Nat, T # {}
    PROVE  Oldest(T) \in T
  BY LeastNat DEF Oldest

\* Accounting in terms of Kept.
LEMMA AllKept ==
    EditsAccountedFor <=> 1 .. NextEdit - 1 = Kept({})
  BY DEF EditsAccountedFor, Kept, Away, Ids, Held

LEMMA QueueAndConflicts ==
    ASSUME Tabled
    PROVE  /\ rows \in Nat /\ DOMAIN queue \subseteq Nat /\ DOMAIN conflicts \subseteq Nat
           /\ rows + 1 \notin DOMAIN queue /\ rows + 1 \notin DOMAIN conflicts
  BY DEF Tabled

LEMMA EnqueueTable ==
    ASSUME Tabled, NEW id, NEW op, Enqueue(id, op)
    PROVE  /\ rows' = rows + 1
           /\ DOMAIN queue' = DOMAIN queue \cup {rows + 1}
           /\ \A r \in DOMAIN queue' : queue'[r] = [f \in RowFields |-> queue'[r][f]]
           /\ \A r \in DOMAIN queue : queue'[r].id = queue[r].id /\ queue'[r].behind = queue[r].behind
           /\ queue'[rows + 1].id = id /\ queue'[rows + 1].behind = Linked(queue, op)
           /\ Ids(queue') = Ids(queue) \cup {id}
<1> DEFINE linked == Linked(queue, op) \cup {r \in DOMAIN queue : queue[r].group = Group(op)}
           merged == {queue[r].group : r \in linked}
           group == IF linked = {} THEN Group(op) ELSE queue[Oldest(linked)].group
<1> HIDE DEF linked, merged, group
<1>1. rows' = rows + 1 /\ queue' = Behind(queue, id, op, merged, group)
  BY DEF Enqueue, Enqueued, linked, merged, group
<1>2. DOMAIN queue' = DOMAIN queue \cup {rows + 1}
  BY <1>1 DEF Behind
<1>3. \A r \in DOMAIN queue :
        queue'[r] = IF queue[r].group \in merged THEN [queue[r] EXCEPT !.group = group] ELSE queue[r]
  BY <1>1, QueueAndConflicts DEF Behind
<1>4. queue'[rows + 1] = [id |-> id, op |-> op, group |-> group, behind |-> Linked(queue, op)]
  BY <1>1 DEF Behind
<1>5. ASSUME NEW r \in DOMAIN queue
      PROVE  /\ queue'[r] = [f \in RowFields |-> queue'[r][f]]
             /\ queue'[r].id = queue[r].id /\ queue'[r].behind = queue[r].behind
  <2>1. queue[r] = [f \in RowFields |-> queue[r][f]]
    BY DEF Tabled
  <2>2. CASE queue[r].group \in merged
    <3>1. queue'[r] = [queue[r] EXCEPT !.group = group]
      BY <1>3, <2>2
    <3> QED BY <3>1, <2>1 DEF RowFields
  <2>3. CASE queue[r].group \notin merged
    BY <2>1, <2>3, <1>3
  <2> QED BY <2>2, <2>3
<1>6. Ids(queue') = Ids(queue) \cup {id}
  BY <1>2, <1>4, <1>5 DEF Ids
<1>7. queue'[rows + 1] = [f \in RowFields |-> queue'[rows + 1][f]]
  BY <1>4 DEF RowFields
<1> QED BY <1>1, <1>2, <1>4, <1>5, <1>6, <1>7

\* The books balance again once the tables have and what was kept is kept.
LEMMA Balanced ==
    ASSUME BooksInv, Tabled', Counted', Locked', UNCHANGED resolving,
           DOMAIN conflicts \subseteq DOMAIN conflicts',
           \A c \in DOMAIN conflicts : conflicts'[c].id = conflicts[c].id,
           \A D \in SUBSET DOMAIN conflicts : Kept(D) \subseteq Kept(D)',
           1 .. NextEdit' - 1 = Kept({})'
    PROVE  BooksInv'
<1>1. Settled'
  <2> SUFFICES ASSUME resolving # None PROVE Settled'
    BY DEF Settled
  <2>1. resolving.drop \in SUBSET DOMAIN conflicts
    BY DEF BooksInv, Settled
  <2>2. Kept(resolving.drop) \subseteq Kept(resolving.drop)'
    BY <2>1
  <2> QED BY <2>1, <2>2 DEF BooksInv, Settled
<1>2. EditsAccountedFor'
  BY DEF EditsAccountedFor, Kept, Away, Ids, Held
<1> QED BY <1>1, <1>2 DEF BooksInv

\* Nothing happens to the tables, the books and the edit the lock is held for.
LEMMA Quiet ==
    ASSUME BooksInv, UNCHANGED <<queue, conflicts, local, done, dropped, cut, rows, resolving>>,
           Counted', spent'.edits = spent.edits, Locked', Held' = Held
    PROVE  BooksInv'
<1>1. Tabled'
  BY DEF BooksInv, Tabled
<1>2. \A D \in SUBSET DOMAIN conflicts : Kept(D)' = Kept(D)
  BY DEF Kept, Away, Ids
<1>3. NextEdit' = NextEdit
  BY DEF NextEdit
<1> QED BY <1>1, <1>2, <1>3, Balanced, AllKept DEF BooksInv

LEMMA SpentOn ==
    ASSUME Counted, NEW b \in {"edits", "others", "faults", "resolves"}, Spend(b)
    PROVE  /\ Counted'
           /\ b # "edits" => spent'.edits = spent.edits /\ NextEdit' = NextEdit
           /\ b = "edits" => /\ NextEdit \in Nat /\ NextEdit >= 1 /\ NextEdit' = NextEdit + 1
                            /\ 1 .. NextEdit' - 1 = (1 .. NextEdit - 1) \cup {NextEdit}
<1>1. MaxEdits \in Nat
  BY SyncAssumption
<1>2. spent' = [c \in {"edits", "others", "faults", "resolves"} |->
                  IF c = b THEN spent[c] - 1 ELSE spent[c]] /\ spent[b] > 0
  BY DEF Spend, Counted
<1>3. CASE b = "edits"
  <2>1. spent'.edits = spent.edits - 1 /\ spent.edits \in 1 .. MaxEdits
    BY <1>1, <1>2, <1>3 DEF Counted
  <2>2. Counted'
    BY <1>1, <1>2, <2>1 DEF Counted
  <2> QED BY <1>1, <1>3, <2>1, <2>2 DEF NextEdit
<1>4. CASE b # "edits"
  <2>1. spent'.edits = spent.edits
    BY <1>2, <1>4
  <2>2. Counted'
    BY <1>2, <2>1 DEF Counted
  <2> QED BY <1>4, <2>1, <2>2 DEF NextEdit
<1> QED BY <1>3, <1>4

\* What an edit does to the books: id is kept besides what was.
LEMMA Enters ==
    ASSUME BooksInv, NEW id, NEW op, Enqueue(id, op), UNCHANGED conflicts
    PROVE  /\ Tabled'
           /\ Ids(queue') = Ids(queue) \cup {id}
           /\ \A D \in SUBSET DOMAIN conflicts : Away(D)' = Away(D)
<1>1. Tabled
  BY DEF BooksInv
<1>2. Tabled'
  BY <1>1, EnqueueTable DEF Tabled
<1> QED BY <1>1, <1>2, EnqueueTable DEF Away

LEMMA InitBooks == SyncInit => BooksInv /\ GroupInv
<1> SUFFICES ASSUME SyncInit PROVE BooksInv /\ GroupInv
  OBVIOUS
<1>1. DOMAIN queue = {} /\ DOMAIN conflicts = {}
  BY DEF SyncInit, NoRows
<1>2. Tabled /\ Locked /\ Settled
  BY <1>1 DEF SyncInit, Tabled, Locked, Settled
<1>3. Counted /\ NextEdit = 1
  BY SyncAssumption DEF SyncInit, Counted, NextEdit
<1>4. EditsAccountedFor
  BY <1>1, <1>3 DEF SyncInit, EditsAccountedFor, Ids, Editing
<1>5. GroupInv
  BY <1>1 DEF GroupInv, Grouped, DependentsSetAside
<1> QED BY <1>2, <1>3, <1>4, <1>5 DEF BooksInv

LEMMA EditLocallyBooks ==
    ASSUME BooksInv, EditLocally
    PROVE  BooksInv'
<1>1. Tabled' /\ Locked'
  BY DEF BooksInv, EditLocally, Tabled, Locked, Some
<1>2. Counted' /\ 1 .. NextEdit' - 1 = (1 .. NextEdit - 1) \cup {NextEdit}
  BY SpentOn DEF BooksInv, EditLocally
<1>3. \A D \in SUBSET DOMAIN conflicts : Kept(D)' = Kept(D) \cup {NextEdit}
  BY DEF EditLocally, Kept, Away, Ids, Held, Editing
<1> QED BY <1>1, <1>2, <1>3, Balanced, AllKept DEF BooksInv, EditLocally

\* An edit is queued behind others or the lock is held for it.
LEMMA Routed ==
    ASSUME BooksInv, NEW id, NEW op, Route(id, op), UNCHANGED conflicts
    PROVE  /\ Tabled'
           /\ Ids(queue') \cup Held' = Ids(queue) \cup {id}
           /\ \A D \in SUBSET DOMAIN conflicts : Away(D)' = Away(D)
           /\ pc' \in {"idle", "direct"}
<1>1. CASE Some(queue)
  <2>1. Enqueue(id, op) /\ pc' = "idle"
    BY <1>1 DEF Route
  <2> QED BY <2>1, Enters DEF Held, Editing
<1>2. CASE ~Some(queue)
  <2>1. pc' = "direct" /\ task' = [id |-> id, op |-> op] /\ UNCHANGED <<queue, rows>>
    BY <1>2 DEF Route
  <2> QED BY <2>1 DEF Held, Editing, BooksInv, Tabled, Ids, Away
<1> QED BY <1>1, <1>2

LEMMA EditStartBooks ==
    ASSUME BooksInv, EditStart
    PROVE  BooksInv'
<1>1. PICK op \in UserRequests(Snapshot) :
        /\ Spend("edits")
        /\ IF support = "unknown"
           THEN pc' = "probe" /\ task' = [id |-> NextEdit, op |-> op] /\ UNCHANGED <<queue, rows>>
           ELSE Route(NextEdit, op)
  BY DEF EditStart
<1>2. /\ pc = "idle" /\ answer = None /\ Held = {}
      /\ UNCHANGED <<conflicts, local, answer, resolving, done, dropped, cut>>
  BY DEF EditStart, BooksInv, Locked, Held, Editing
<1>3. Counted' /\ 1 .. NextEdit' - 1 = (1 .. NextEdit - 1) \cup {NextEdit}
  BY <1>1, SpentOn DEF BooksInv
<1>4. /\ Tabled' /\ Ids(queue') \cup Held' = Ids(queue) \cup {NextEdit}
      /\ \A D \in SUBSET DOMAIN conflicts : Away(D)' = Away(D)
      /\ pc' # "head"
  <2>1. CASE support = "unknown"
    BY <1>1, <1>2, <2>1 DEF BooksInv, Tabled, Ids, Held, Editing, Away
  <2>2. CASE support # "unknown"
    BY <1>1, <1>2, <2>2, Routed
  <2> QED BY <2>1, <2>2
<1>5. Locked'
  BY <1>2, <1>4 DEF Locked
<1>6. \A D \in SUBSET DOMAIN conflicts : Kept(D)' = Kept(D) \cup {NextEdit}
  BY <1>2, <1>4 DEF Kept
<1> QED BY <1>2, <1>3, <1>4, <1>5, <1>6, Balanced, AllKept DEF BooksInv

LEMMA SyncStartBooks ==
    ASSUME BooksInv, SyncStart
    PROVE  BooksInv'
<1>1. Counted' /\ spent'.edits = spent.edits
  BY DEF BooksInv, SyncStart, history, Counted
<1>2. Locked'
  BY DEF BooksInv, SyncStart, device, Locked, Loop
<1>3. Held' = Held
  BY DEF SyncStart, Held, Editing, Loop
<1> QED BY <1>1, <1>2, <1>3, Quiet DEF SyncStart, device, history

LEMMA RequestBooks ==
    ASSUME BooksInv, Request
    PROVE  BooksInv'
<1>1. Counted' /\ spent'.edits = spent.edits
  BY DEF BooksInv, Request, history, Counted
<1>2. PICK s \in {state, Served(state)} :
        answer' = IF Outcome(s).code = "ok" THEN Outcome(s) ELSE [code |-> Outcome(s).code]
  BY DEF Request
<1>3. Locked'
  <2>1. pc' = pc /\ pc \in {"probe", "sync probe", "direct", "head", "pull"} /\ queue' = queue
    BY DEF Request, Asking, device
  <2>2. ASSUME pc \in {"probe", "sync probe", "pull"}
        PROVE  answer'.code = "ok" \/ answer' = Absent
    <3>1. CASE ~served
      BY <1>2, <3>1 DEF Outcome, Absent
    <3>2. CASE served
      <4>1. Outcome(s) = Unchanged(s)
        BY <2>2, <3>2 DEF Outcome
      <4> QED BY <1>2, <4>1 DEF Unchanged
    <3> QED BY <3>1, <3>2
  <2> QED BY <2>1, <2>2 DEF BooksInv, Locked
<1>4. Held' = Held
  BY DEF Request, Held, Editing
<1> QED BY <1>1, <1>3, <1>4, Quiet DEF Request, device, history

LEMMA LoseBooks ==
    ASSUME BooksInv, Lose
    PROVE  BooksInv'
<1>1. Counted' /\ spent'.edits = spent.edits
  BY SpentOn DEF BooksInv, Lose
<1>2. Locked'
  BY DEF BooksInv, Lose, Asking, device, Locked
<1>3. Held' = Held
  BY DEF Lose, Held, Editing
<1> QED BY <1>1, <1>2, <1>3, Quiet DEF Lose, device

LEMMA ProbeBooks ==
    ASSUME BooksInv, ProbeAnswered
    PROVE  BooksInv'
<1>1. /\ pc = "probe" /\ answer # None /\ answer' = None /\ Held = {task.id}
      /\ UNCHANGED <<conflicts, resolving, done, dropped, cut, spent>>
  BY DEF ProbeAnswered, Held, Editing
<1>2. Counted' /\ NextEdit' = NextEdit
  BY <1>1 DEF BooksInv, Counted, NextEdit
<1>3. \/ Route(task.id, task.op) /\ UNCHANGED local
      \/ /\ local' = local \cup {task.id} /\ pc' = "idle"
         /\ UNCHANGED <<queue, rows>>
  <2>1. answer.code = "ok" \/ answer = Down \/ answer = Absent
    BY <1>1 DEF BooksInv, Locked
  <2> QED BY <2>1 DEF ProbeAnswered, Down, Absent
<1>4. CASE Route(task.id, task.op) /\ UNCHANGED local
  <2>1. /\ Tabled' /\ Ids(queue') \cup Held' = Ids(queue) \cup Held
        /\ \A D \in SUBSET DOMAIN conflicts : Away(D)' = Away(D)
        /\ pc' \in {"idle", "direct"}
    BY <1>1, <1>4, Routed
  <2>2. Locked'
    BY <1>1, <2>1 DEF Locked
  <2>3. \A D \in SUBSET DOMAIN conflicts : Kept(D)' = Kept(D)
    BY <1>1, <1>4, <2>1 DEF Kept
  <2> QED BY <1>1, <1>2, <2>1, <2>2, <2>3, Balanced, AllKept DEF BooksInv
<1>5. CASE /\ local' = local \cup {task.id} /\ pc' = "idle"
           /\ UNCHANGED <<queue, rows>>
  <2>1. Tabled' /\ Locked' /\ Held' = {}
    BY <1>1, <1>5 DEF BooksInv, Tabled, Locked, Held, Editing
  <2>2. \A D \in SUBSET DOMAIN conflicts : Kept(D)' = Kept(D)
    BY <1>1, <1>5, <2>1 DEF Kept, Away, Ids
  <2> QED BY <1>1, <1>2, <2>1, <2>2, Balanced, AllKept DEF BooksInv
<1> QED BY <1>3, <1>4, <1>5

LEMMA SyncProbeBooks ==
    ASSUME BooksInv, SyncProbeAnswered
    PROVE  BooksInv'
<1>1. /\ pc = "sync probe" /\ answer # None /\ answer' = None
      /\ UNCHANGED <<queue, conflicts, local, task, resolving, history>>
  BY DEF SyncProbeAnswered
<1>2. pc' = "idle" \/ pc' = Loop(queue)
  <2>1. answer.code = "ok" \/ answer = Down \/ answer = Absent
    BY <1>1 DEF BooksInv, Locked
  <2> QED BY <2>1 DEF SyncProbeAnswered, Down, Absent
<1>3. Counted' /\ spent'.edits = spent.edits
  BY <1>1 DEF BooksInv, Counted, history
<1>4. Locked' /\ Held' = Held
  BY <1>1, <1>2 DEF Locked, Held, Editing, Loop
<1> QED BY <1>1, <1>3, <1>4, Quiet DEF history

LEMMA DirectBooks ==
    ASSUME BooksInv, DirectAnswered
    PROVE  BooksInv'
<1>1. /\ pc' = "idle" /\ answer' = None /\ Held = {task.id} /\ Held' = {}
      /\ UNCHANGED <<conflicts, resolving, spent>>
  BY DEF DirectAnswered, Idle, Held, Editing
<1>2. Counted' /\ NextEdit' = NextEdit
  BY <1>1 DEF BooksInv, Counted, NextEdit
<1>3. Locked'
  BY <1>1 DEF Locked
<1>4. \/ Enqueue(task.id, task.op) /\ UNCHANGED <<local, done, dropped, cut>>
      \/ /\ UNCHANGED <<queue, rows>>
         /\ \/ done' = done \cup {task.id} /\ UNCHANGED <<local, dropped, cut>>
            \/ local' = local \cup {task.id} /\ UNCHANGED <<done, dropped, cut>>
            \/ /\ local' = local \cup {task.id} /\ cut' = cut \cup {task.id}
               /\ UNCHANGED <<done, dropped>>
            \/ dropped' = dropped \cup {task.id} /\ UNCHANGED <<local, done, cut>>
  BY DEF DirectAnswered, Down, Absent
<1>5. /\ Tabled'
      /\ \A D \in SUBSET DOMAIN conflicts : Kept(D)' = Kept(D)
  <2>1. CASE Enqueue(task.id, task.op) /\ UNCHANGED <<local, done, dropped, cut>>
    BY <1>1, <2>1, Enters DEF Kept
  <2>2. CASE UNCHANGED <<queue, rows>>
    <3>1. Tabled'
      BY <1>1, <2>2 DEF BooksInv, Tabled
    <3>2. Ids(queue') = Ids(queue) /\ \A D \in SUBSET DOMAIN conflicts : Away(D)' = Away(D)
      BY <1>1, <2>2 DEF Ids, Away
    <3>3. (local \cup done \cup dropped \cup cut)' = (local \cup done \cup dropped \cup cut) \cup Held
      <4>1. CASE Enqueue(task.id, task.op)
        BY <2>2, <4>1, QueueAndConflicts DEF Enqueue, BooksInv
      <4> QED BY <1>1, <1>4, <4>1
    <3> QED BY <1>1, <3>1, <3>2, <3>3 DEF Kept
  <2> QED BY <1>4, <2>1, <2>2
<1> QED BY <1>1, <1>2, <1>3, <1>5, Balanced, AllKept DEF BooksInv

\* The oldest row leaves the queue for good, and its edit is kept elsewhere.
LEMMA OldestLeaves ==
    ASSUME Tabled, Some(queue), rows' = rows, conflicts' = conflicts,
           DOMAIN queue' = DOMAIN queue \ {Oldest(DOMAIN queue)},
           \A r \in DOMAIN queue' : /\ queue'[r].id = queue[r].id
                                   /\ queue'[r] = [f \in RowFields |-> queue'[r][f]]
    PROVE  /\ Tabled'
           /\ Ids(queue) = Ids(queue') \cup {First(queue).id}
           /\ \A D \in SUBSET DOMAIN conflicts : Away(D)' = Away(D)
<1>1. Oldest(DOMAIN queue) \in DOMAIN queue
  BY QueueAndConflicts, OldestIn DEF Some
<1>2. Tabled'
  BY DEF Tabled
<1>3. Ids(queue) = Ids(queue') \cup {First(queue).id}
  BY <1>1 DEF Ids, First
<1> QED BY <1>2, <1>3 DEF Away

LEMMA AcknowledgeBooks ==
    ASSUME BooksInv, HeadAnswered, Acknowledge
    PROVE  BooksInv'
<1>1. /\ pc = "head" /\ Some(queue) /\ answer' = None /\ pc' = Loop(queue')
      /\ done' = done \cup {First(queue).id}
      /\ UNCHANGED <<conflicts, local, task, resolving, dropped, cut, rows, spent>>
  BY DEF HeadAnswered, Acknowledge, BooksInv, Locked
<1>2. /\ DOMAIN queue' = DOMAIN queue \ {Oldest(DOMAIN queue)}
      /\ \A r \in DOMAIN queue' :
           queue'[r] = [queue[r] EXCEPT !.op = Rebase(queue[r].op, answer.state)]
  BY DEF Acknowledge
<1>3. ASSUME NEW r \in DOMAIN queue'
      PROVE  queue'[r].id = queue[r].id /\ queue'[r] = [f \in RowFields |-> queue'[r][f]]
  <2>1. queue[r] = [f \in RowFields |-> queue[r][f]]
    BY <1>2 DEF BooksInv, Tabled
  <2>2. queue'[r] = [queue[r] EXCEPT !.op = Rebase(queue[r].op, answer.state)]
    BY <1>2
  <2> QED BY <2>1, <2>2 DEF RowFields
<1>4. /\ Tabled' /\ Ids(queue) = Ids(queue') \cup {First(queue).id}
      /\ \A D \in SUBSET DOMAIN conflicts : Away(D)' = Away(D)
  BY <1>1, <1>2, <1>3, OldestLeaves DEF BooksInv
<1>5. Locked' /\ Held' = Held /\ Counted' /\ NextEdit' = NextEdit
  BY <1>1 DEF BooksInv, Locked, Held, Editing, Loop, Counted, NextEdit
<1>6. \A D \in SUBSET DOMAIN conflicts : Kept(D)' = Kept(D)
  BY <1>1, <1>4, <1>5 DEF Kept
<1> QED BY <1>1, <1>4, <1>5, <1>6, Balanced, AllKept DEF BooksInv

\* What a conflict makes of the tables: the rows of one group change over.
LEMMA SetAsideTable ==
    ASSUME Tabled, SetAside
    PROVE  LET grouped == {r \in DOMAIN queue : queue[r].group = First(queue).group}
           IN  /\ DOMAIN queue' = DOMAIN queue \ grouped
               /\ \A r \in DOMAIN queue' : queue'[r] = queue[r]
               /\ DOMAIN conflicts' = DOMAIN conflicts \cup grouped
               /\ \A c \in DOMAIN conflicts : conflicts'[c] = conflicts[c]
               /\ \A c \in grouped : conflicts'[c].id = queue[c].id
<1> DEFINE grouped == {r \in DOMAIN queue : queue[r].group = First(queue).group}
<1>1. /\ conflicts' = [r \in DOMAIN conflicts \cup grouped |->
              IF r \in grouped THEN [id |-> queue[r].id, op |-> queue[r].op, group |-> queue[r].group]
              ELSE conflicts[r]]
      /\ queue' = [r \in DOMAIN queue \ grouped |-> queue[r]]
  BY DEF SetAside, Without
<1>2. DOMAIN conflicts \cap grouped = {}
  BY DEF Tabled
<1> HIDE DEF grouped
<1>3. /\ DOMAIN queue' = DOMAIN queue \ grouped
      /\ \A r \in DOMAIN queue' : queue'[r] = queue[r]
  BY <1>1
<1>4. /\ DOMAIN conflicts' = DOMAIN conflicts \cup grouped
      /\ \A c \in DOMAIN conflicts : conflicts'[c] = conflicts[c]
      /\ \A c \in grouped : conflicts'[c].id = queue[c].id
  BY <1>1, <1>2
<1> QED BY <1>3, <1>4 DEF grouped

LEMMA SetAsideBooks ==
    ASSUME BooksInv, HeadAnswered, SetAside
    PROVE  BooksInv'
<1> DEFINE grouped == {r \in DOMAIN queue : queue[r].group = First(queue).group}
<1>1. /\ pc = "head" /\ answer' = None /\ pc' = Loop(queue')
      /\ UNCHANGED <<local, task, resolving, done, dropped, cut, rows, spent>>
  BY DEF HeadAnswered, SetAside
<1>2. /\ DOMAIN queue' = DOMAIN queue \ grouped
      /\ \A r \in DOMAIN queue' : queue'[r] = queue[r]
      /\ DOMAIN conflicts' = DOMAIN conflicts \cup grouped
      /\ \A c \in DOMAIN conflicts : conflicts'[c] = conflicts[c]
      /\ \A c \in grouped : conflicts'[c].id = queue[c].id
  BY SetAsideTable DEF BooksInv
<1>3. grouped \subseteq DOMAIN queue
  OBVIOUS
<1> HIDE DEF grouped
<1>4. Tabled'
  <2>1. \A r \in DOMAIN queue' : queue'[r] = [f \in RowFields |-> queue'[r][f]]
    BY <1>2 DEF BooksInv, Tabled
  <2> QED BY <1>1, <1>2, <1>3, <2>1 DEF BooksInv, Tabled
<1>5. Locked' /\ Held' = Held /\ Counted' /\ NextEdit' = NextEdit
  BY <1>1 DEF BooksInv, Locked, Held, Editing, Loop, Counted, NextEdit
<1>6. ASSUME NEW D \in SUBSET DOMAIN conflicts
      PROVE  (Ids(queue) \cup Away(D))' = Ids(queue) \cup Away(D)
  <2>1. grouped \cap DOMAIN conflicts = {}
    BY <1>3 DEF BooksInv, Tabled
  <2>2. (Ids(queue) \cup Away(D))' \subseteq Ids(queue) \cup Away(D)
    <3> SUFFICES ASSUME NEW x \in (Ids(queue) \cup Away(D))' PROVE x \in Ids(queue) \cup Away(D)
      OBVIOUS
    <3>1. CASE x \in Ids(queue')
      BY <3>1, <1>2 DEF Ids
    <3>2. CASE x \in Away(D)'
      <4>1. PICK c \in DOMAIN conflicts' \ D : x = conflicts'[c].id
        BY <3>2 DEF Away
      <4>2. CASE c \in grouped
        BY <4>1, <4>2, <1>2, <1>3 DEF Ids
      <4>3. CASE c \notin grouped
        BY <4>1, <4>3, <1>2 DEF Away
      <4> QED BY <4>2, <4>3
    <3> QED BY <3>1, <3>2
  <2>3. Away(D) \subseteq Away(D)'
    BY <1>2 DEF Away
  <2>4. Ids(queue) \subseteq (Ids(queue) \cup Away(D))'
    <3> SUFFICES ASSUME NEW r \in DOMAIN queue PROVE queue[r].id \in (Ids(queue) \cup Away(D))'
      BY DEF Ids
    <3>1. CASE r \in grouped
      <4>1. r \in DOMAIN conflicts' \ D /\ conflicts'[r].id = queue[r].id
        BY <3>1, <1>2, <2>1
      <4> QED BY <4>1 DEF Away
    <3>2. CASE r \notin grouped
      BY <3>2, <1>2 DEF Ids
    <3> QED BY <3>1, <3>2
  <2> QED BY <2>2, <2>3, <2>4
<1>7. \A D \in SUBSET DOMAIN conflicts : Kept(D)' = Kept(D)
  BY <1>1, <1>5, <1>6 DEF Kept
<1> QED BY <1>1, <1>2, <1>4, <1>5, <1>7, Balanced, AllKept DEF BooksInv

LEMMA HeadBooks ==
    ASSUME BooksInv, HeadAnswered
    PROVE  BooksInv'
<1>1. CASE Stop \/ Abandon
  <2>1. /\ pc = "head" /\ answer' = None /\ pc' \in {"idle", "preserve"}
        /\ UNCHANGED <<queue, conflicts, local, task, resolving, done, dropped, cut, rows, spent>>
    BY <1>1 DEF HeadAnswered, Stop, Abandon
  <2>2. Locked' /\ Held' = Held /\ Counted'
    BY <2>1 DEF BooksInv, Locked, Held, Editing, Counted
  <2> QED BY <2>1, <2>2, Quiet
<1>2. Acknowledge \/ SetAside \/ Stop \/ Abandon
  BY DEF HeadAnswered
<1> QED BY <1>1, <1>2, AcknowledgeBooks, SetAsideBooks

LEMMA PreserveBooks ==
    ASSUME BooksInv, Preserve
    PROVE  BooksInv'
<1>1. /\ pc = "preserve" /\ pc' \in {"preserve", "idle"} /\ answer = None
      /\ UNCHANGED <<conflicts, task, answer, resolving, done, dropped, cut, rows, spent>>
  BY DEF BooksInv, Locked, Preserve, history
<1>2. Locked' /\ Held' = Held /\ Counted' /\ NextEdit' = NextEdit
  BY <1>1 DEF BooksInv, Locked, Held, Editing, Counted, NextEdit
<1>3. CASE /\ Some(queue) /\ local' = local \cup {First(queue).id}
           /\ UNCHANGED <<queue, support, pc>>
  <2>1. First(queue).id \in Ids(queue)
    BY <1>3, QueueAndConflicts, OldestIn DEF BooksInv, Some, First, Ids
  <2>2. Tabled' /\ \A D \in SUBSET DOMAIN conflicts : Kept(D)' = Kept(D)
    BY <1>1, <1>2, <1>3, <2>1 DEF BooksInv, Tabled, Kept, Away, Ids
  <2> QED BY <1>1, <1>2, <2>2, Balanced, AllKept DEF BooksInv
<1>4. CASE /\ Some(queue) /\ First(queue).id \in local
           /\ queue' = Without(queue, {Oldest(DOMAIN queue)})
           /\ UNCHANGED <<local, support, pc>>
  <2>1. /\ DOMAIN queue' = DOMAIN queue \ {Oldest(DOMAIN queue)}
        /\ \A r \in DOMAIN queue' : queue'[r] = queue[r]
    BY <1>4 DEF Without
  <2>2. \A r \in DOMAIN queue' : /\ queue'[r].id = queue[r].id
                                 /\ queue'[r] = [f \in RowFields |-> queue'[r][f]]
    BY <2>1 DEF BooksInv, Tabled
  <2>3. /\ Tabled' /\ Ids(queue) = Ids(queue') \cup {First(queue).id}
        /\ \A D \in SUBSET DOMAIN conflicts : Away(D)' = Away(D)
    BY <1>1, <1>4, <2>1, <2>2, OldestLeaves DEF BooksInv
  <2>4. \A D \in SUBSET DOMAIN conflicts : Kept(D)' = Kept(D)
    BY <1>1, <1>2, <1>4, <2>3 DEF Kept
  <2> QED BY <1>1, <1>2, <2>3, <2>4, Balanced, AllKept DEF BooksInv
<1>5. CASE UNCHANGED <<local, queue>>
  BY <1>1, <1>2, <1>5, Quiet
<1> QED BY <1>3, <1>4, <1>5 DEF Preserve

LEMMA PullBooks ==
    ASSUME BooksInv, PullAnswered
    PROVE  BooksInv'
<1>1. /\ pc = "pull" /\ pc' = "idle" /\ answer' = None
      /\ UNCHANGED <<queue, conflicts, local, resolving, history>>
  BY DEF PullAnswered, Idle
<1>2. Locked' /\ Held' = Held /\ Counted'
  BY <1>1 DEF BooksInv, Locked, Held, Editing, Counted, history
<1> QED BY <1>1, <1>2, Quiet DEF history

\* Resolutions: the holder of the lock, if any, and its edit stay.
LEMMA ResolveStartBooks ==
    ASSUME BooksInv, ResolveStart
    PROVE  BooksInv'
<1>1. PICK c \in DOMAIN conflicts, how \in {"retry", "keep_local_copy", "keep_server"} :
        resolving' = [how |-> how, base |-> mirror,
                      drop |-> {d \in DOMAIN conflicts : conflicts[d].group = conflicts[c].group},
                      todo |-> IF how = "keep_server" THEN {}
                               ELSE {d \in DOMAIN conflicts : conflicts[d].group = conflicts[c].group}]
  BY DEF ResolveStart
<1>2. UNCHANGED <<queue, conflicts, local, pc, task, answer, done, dropped, cut, rows>>
  BY DEF ResolveStart, device
<1>3. Counted' /\ NextEdit' = NextEdit
  BY SpentOn DEF BooksInv, ResolveStart
<1>4. Tabled' /\ Locked'
  BY <1>2 DEF BooksInv, Tabled, Locked
<1>5. EditsAccountedFor'
  BY <1>2, <1>3 DEF BooksInv, EditsAccountedFor, Ids, Editing
<1>6. Settled'
  <2> DEFINE G == {d \in DOMAIN conflicts : conflicts[d].group = conflicts[c].group}
  <2>1. c \in G /\ G \subseteq DOMAIN conflicts'
    BY <1>2
  <2>2. resolving' = [how |-> how, base |-> mirror, drop |-> G,
                      todo |-> IF how = "keep_server" THEN {} ELSE G]
    BY <1>1
  <2> HIDE DEF G
  <2> QED BY <2>1, <2>2 DEF Settled
<1> QED BY <1>3, <1>4, <1>5, <1>6 DEF BooksInv

LEMMA ResolveNextBooks ==
    ASSUME BooksInv, ResolveNext
    PROVE  BooksInv'
<1>c. PICK c : c = Oldest(resolving.todo)
  OBVIOUS
<1>d. PICK D : D = resolving.drop
  OBVIOUS
<1>1. /\ resolving = [f \in {"how", "base", "drop", "todo"} |-> resolving[f]]
      /\ resolving # None /\ D \subseteq DOMAIN conflicts /\ resolving.todo \subseteq D
      /\ D # {} /\ resolving.todo \subseteq Nat /\ resolving.todo # {}
      /\ resolving.how # "keep_server" =>
           \A d \in D \ resolving.todo : conflicts[d].id \in Kept(D)
  BY <1>d, QueueAndConflicts DEF BooksInv, Settled, ResolveNext
<1>2. c \in resolving.todo
  BY <1>1, <1>c, OldestIn
<1>3. /\ resolving' = [resolving EXCEPT !.todo = @ \ {c}]
      /\ \/ Enqueue(conflicts[c].id, Rebase(conflicts[c].op, resolving.base)) /\ UNCHANGED local
         \/ local' = local \cup {conflicts[c].id} /\ UNCHANGED <<queue, rows>>
      /\ UNCHANGED <<conflicts, pc, task, answer, done, dropped, cut, spent>>
  <2>1. UNCHANGED spent
    BY DEF ResolveNext, Enqueue
  <2> QED BY <1>c, <2>1 DEF ResolveNext
<1>4. Counted' /\ NextEdit' = NextEdit /\ Held' = Held
  BY <1>3 DEF BooksInv, Counted, NextEdit, Held, Editing
<1>5. /\ Tabled' /\ Locked'
      /\ \A E \in SUBSET DOMAIN conflicts : Kept(E)' = Kept(E) \cup {conflicts[c].id}
  <2>1. CASE Enqueue(conflicts[c].id, Rebase(conflicts[c].op, resolving.base)) /\ UNCHANGED local
    <3>1. Tabled' /\ rows + 1 \in DOMAIN queue'
      BY <1>3, <2>1, Enters, EnqueueTable DEF BooksInv
    <3>2. Locked'
      BY <1>3, <3>1 DEF BooksInv, Locked, Some
    <3> QED BY <1>3, <1>4, <2>1, <3>1, <3>2, Enters DEF Kept
  <2>2. CASE local' = local \cup {conflicts[c].id} /\ UNCHANGED <<queue, rows>>
    BY <1>3, <1>4, <2>2, ZenonT(40) DEF BooksInv, Tabled, Locked, Kept, Away, Ids
  <2> QED BY <1>3, <2>1, <2>2
<1>6. Settled'
  <2>1. resolving'.drop = D /\ resolving'.how = resolving.how /\ resolving'.todo = resolving.todo \ {c}
    BY <1>1, <1>3, <1>d
  <2>2. resolving' = [f \in {"how", "base", "drop", "todo"} |-> resolving'[f]]
    BY <1>1, <1>3
  <2>3. Kept(D)' = Kept(D) \cup {conflicts[c].id}
    BY <1>1, <1>5
  <2>4. ASSUME resolving.how # "keep_server", NEW d \in D \ (resolving.todo \ {c})
        PROVE  conflicts'[d].id \in Kept(D)'
    BY <1>1, <1>3, <2>3, <2>4
  <2>5. Kept(resolving.drop)' = Kept(D)'
    BY <2>1 DEF Kept, Away
  <2> QED BY <1>1, <1>3, <2>1, <2>2, <2>4, <2>5 DEF Settled
<1>7. EditsAccountedFor'
  <2>1. conflicts[c].id \in Kept({})
    BY <1>1, <1>2 DEF Kept, Away
  <2>2. Kept({})' = Kept({})
    BY <1>5, <2>1
  <2>3. 1 .. NextEdit' - 1 = Kept({})'
    BY <1>4, <2>2, AllKept DEF BooksInv
  <2> QED BY <2>3 DEF EditsAccountedFor, Kept, Away, Ids, Held
<1> QED BY <1>4, <1>5, <1>6, <1>7 DEF BooksInv

LEMMA ResolveDropBooks ==
    ASSUME BooksInv, ResolveDrop
    PROVE  BooksInv'
<1>d. PICK D : D = resolving.drop
  OBVIOUS
<1>c. PICK c : c = Oldest(D)
  OBVIOUS
<1>1. /\ resolving = [f \in {"how", "base", "drop", "todo"} |-> resolving[f]]
      /\ resolving # None /\ D \subseteq DOMAIN conflicts /\ D \subseteq Nat
      /\ D # {} /\ resolving.todo = {}
      /\ resolving.how # "keep_server" => \A d \in D : conflicts[d].id \in Kept(D)
  BY <1>d, QueueAndConflicts DEF BooksInv, Settled, ResolveDrop
<1>2. c \in D
  BY <1>1, <1>c, OldestIn
<1>3. /\ conflicts' = [r \in DOMAIN conflicts \ {c} |-> conflicts[r]]
      /\ dropped' = IF resolving.how = "keep_server" THEN dropped \cup {conflicts[c].id}
                    ELSE dropped
      /\ resolving' = IF D = {c} THEN None ELSE [resolving EXCEPT !.drop = D \ {c}]
      /\ UNCHANGED <<queue, local, pc, task, answer, done, cut, rows, spent>>
  BY <1>c, <1>d DEF ResolveDrop, Without
<1>4. Counted' /\ NextEdit' = NextEdit /\ Held' = Held
  BY <1>3 DEF BooksInv, Counted, NextEdit, Held, Editing
<1>5. Tabled' /\ Locked'
  BY <1>3 DEF BooksInv, Tabled, Locked
<1>6. ASSUME NEW E \in SUBSET DOMAIN conflicts, c \in E
      PROVE  Kept(E \ {c})' = IF resolving.how = "keep_server" THEN Kept(E) \cup {conflicts[c].id}
                              ELSE Kept(E)
  <2>1. Away(E \ {c})' = Away(E)
    BY <1>3, <1>6 DEF Away
  <2> QED BY <1>3, <1>4, <2>1 DEF Kept, Ids
<1>7. Settled'
  <2> SUFFICES ASSUME D # {c} PROVE Settled'
    BY <1>3 DEF Settled
  <2>1. /\ resolving'.drop = D \ {c} /\ resolving'.how = resolving.how
        /\ resolving'.todo = {}
        /\ resolving' = [f \in {"how", "base", "drop", "todo"} |-> resolving'[f]]
    BY <1>1, <1>3
  <2>2. Kept(resolving.drop)' = Kept(D \ {c})'
    BY <2>1 DEF Kept, Away
  <2>3. \A d \in D \ {c} : d \in DOMAIN conflicts' /\ conflicts'[d] = conflicts[d]
    BY <1>1, <1>3
  <2>4. Kept(D) \subseteq Kept(D \ {c})'
    BY <1>1, <1>2, <1>6
  <2> QED BY <1>1, <1>2, <2>1, <2>2, <2>3, <2>4 DEF Settled
<1>8. EditsAccountedFor'
  <2>1. Kept({c} \ {c})' = Kept({})'
    <3>1. {c} \ {c} = {}
      OBVIOUS
    <3> QED BY <3>1 DEF Kept, Away
  <2>2. Kept({}) = Kept({c}) \cup {conflicts[c].id}
    BY <1>1, <1>2 DEF Kept, Away
  <2>3. resolving.how # "keep_server" => conflicts[c].id \in Kept({c})
    BY <1>1, <1>2 DEF Kept, Away
  <2>4. Kept({})' = Kept({})
    BY <1>1, <1>2, <1>6, <2>1, <2>2, <2>3
  <2>5. 1 .. NextEdit' - 1 = Kept({})'
    BY <1>4, <2>4, AllKept DEF BooksInv
  <2> QED BY <2>5 DEF EditsAccountedFor, Kept, Away, Ids, Held
<1> QED BY <1>4, <1>5, <1>7, <1>8 DEF BooksInv

LEMMA DiscardBooks ==
    ASSUME BooksInv, Discard
    PROVE  BooksInv'
<1>1. PICK c \in DOMAIN conflicts : /\ conflicts' = [r \in DOMAIN conflicts \ {c} |-> conflicts[r]]
                                    /\ dropped' = dropped \cup {conflicts[c].id}
  BY DEF Discard, Without
<1>2. /\ resolving = None
      /\ UNCHANGED <<queue, local, pc, task, answer, resolving, done, cut, rows>>
  BY DEF Discard
<1>3. Counted' /\ NextEdit' = NextEdit
  BY SpentOn DEF BooksInv, Discard
<1>4. Tabled' /\ Locked' /\ Settled'
  BY <1>1, <1>2 DEF BooksInv, Tabled, Locked, Settled
<1>5. Ids(conflicts) = Ids(conflicts') \cup {conflicts[c].id}
  BY <1>1 DEF Ids
<1>6. EditsAccountedFor'
  BY <1>1, <1>2, <1>3, <1>5 DEF BooksInv, EditsAccountedFor, Ids, Editing
<1> QED BY <1>3, <1>4, <1>6 DEF BooksInv

LEMMA CrashBooks ==
    ASSUME BooksInv, Crash
    PROVE  BooksInv'
<1>1. /\ pc' = "idle" /\ answer' = None /\ resolving' = None
      /\ cut' = cut \cup (IF Editing THEN {task.id} ELSE IF pc = "preserve" THEN local ELSE {})
      /\ UNCHANGED <<queue, conflicts, local, done, dropped, rows>>
  BY DEF Crash, device
<1>2. Counted' /\ NextEdit' = NextEdit
  BY SpentOn DEF BooksInv, Crash
<1>3. Tabled' /\ Locked' /\ Settled'
  BY <1>1 DEF BooksInv, Tabled, Locked, Settled
<1>4. EditsAccountedFor'
  <2>1. ~Editing'
    BY <1>1 DEF Editing
  <2> QED BY <1>1, <1>2, <2>1 DEF BooksInv, EditsAccountedFor, Ids
<1> QED BY <1>2, <1>3, <1>4 DEF BooksInv

LEMMA ElsewhereBooks ==
    ASSUME BooksInv, Redeploy \/ OtherDevice
    PROVE  BooksInv'
<1>1. /\ UNCHANGED <<device, pc, task, answer, resolving, done, dropped, cut, rows>>
      /\ Counted' /\ spent'.edits = spent.edits
  BY SpentOn DEF BooksInv, Redeploy, OtherDevice
<1>2. Locked' /\ Held' = Held
  BY <1>1 DEF BooksInv, device, Locked, Held, Editing
<1> QED BY <1>1, <1>2, Quiet DEF device

LEMMA NextBooks == BooksInv /\ [SyncNext]_syncVars => BooksInv'
<1> SUFFICES ASSUME BooksInv, [SyncNext]_syncVars PROVE BooksInv'
  OBVIOUS
<1>1. CASE UNCHANGED syncVars
  <2>1. Counted' /\ Locked' /\ Held' = Held
    BY <1>1 DEF syncVars, device, history, BooksInv, Counted, Locked, Held, Editing
  <2> QED BY <1>1, <2>1, Quiet DEF syncVars, device, history
<1>2. CASE Answered
  BY <1>2, ProbeBooks, SyncProbeBooks, DirectBooks, HeadBooks, PullBooks DEF Answered
<1>3. CASE ResolveStart \/ ResolveNext \/ ResolveDrop \/ Discard
  BY <1>3, ResolveStartBooks, ResolveNextBooks, ResolveDropBooks, DiscardBooks
<1> QED
  BY <1>1, <1>2, <1>3, EditLocallyBooks, EditStartBooks, SyncStartBooks, RequestBooks, LoseBooks,
     PreserveBooks, CrashBooks, ElsewhereBooks DEF SyncNext

\* Every edit the user made is under way, queued, in conflict, in the local layer,
\* acknowledged, refused or given up, unless a crash cut it off.
THEOREM NoEditLost == SyncSpec => []EditsAccountedFor
<1>1. BooksInv => EditsAccountedFor
  BY DEF BooksInv
<1> QED BY <1>1, InitBooks, NextBooks, PTL DEF SyncSpec

-----------------------------------------------------------------------------
\* Rows that were of one group remain of one, and the new row is of the group of all it
\* depends on.
LEMMA EnqueueGroups ==
    ASSUME Tabled, NEW id, NEW op, Enqueue(id, op)
    PROVE  /\ \A q, r \in DOMAIN queue :
                queue[q].group = queue[r].group => queue'[q].group = queue'[r].group
           /\ \A q \in Linked(queue, op) : queue'[q].group = queue'[rows + 1].group
<1> DEFINE linked == Linked(queue, op) \cup {r \in DOMAIN queue : queue[r].group = Group(op)}
           merged == {queue[r].group : r \in linked}
           group == IF linked = {} THEN Group(op) ELSE queue[Oldest(linked)].group
<1>1. queue' = Behind(queue, id, op, merged, group)
  BY DEF Enqueue, Enqueued
<1>2. Linked(queue, op) \subseteq DOMAIN queue /\ \A q \in Linked(queue, op) : queue[q].group \in merged
  BY DEF Linked
<1> HIDE DEF linked, merged, group
<1>3. queue'[rows + 1].group = group
  BY <1>1 DEF Behind
<1>4. ASSUME NEW r \in DOMAIN queue
      PROVE  queue'[r].group = IF queue[r].group \in merged THEN group ELSE queue[r].group
  <2>1. queue[r] = [f \in RowFields |-> queue[r][f]] /\ r # rows + 1
    BY QueueAndConflicts DEF Tabled
  <2>2. queue'[r] = IF queue[r].group \in merged THEN [queue[r] EXCEPT !.group = group] ELSE queue[r]
    BY <1>1, <2>1 DEF Behind
  <2> QED BY <2>1, <2>2 DEF RowFields
<1> QED BY <1>2, <1>3, <1>4

LEMMA EnqueueKeepsGroups ==
    ASSUME Tabled, GroupInv, NEW id, NEW op, Enqueue(id, op), UNCHANGED conflicts
    PROVE  GroupInv'
<1>1. /\ rows' = rows + 1 /\ rows \in Nat
      /\ DOMAIN queue' = DOMAIN queue \cup {rows + 1}
      /\ \A r \in DOMAIN queue : queue'[r].behind = queue[r].behind
      /\ queue'[rows + 1].behind = Linked(queue, op)
  BY EnqueueTable DEF Tabled
<1>2. /\ DOMAIN queue \subseteq 1 .. rows /\ DOMAIN queue \cap DOMAIN conflicts = {}
      /\ Linked(queue, op) \subseteq DOMAIN queue
  BY DEF Tabled, Linked
<1>3. ASSUME NEW r \in DOMAIN queue'
      PROVE  /\ queue'[r].behind \subseteq 1 .. rows
             /\ \A q \in queue'[r].behind \cap DOMAIN queue' : queue'[q].group = queue'[r].group
             /\ queue'[r].behind \cap DOMAIN conflicts = {}
  <2>1. CASE r \in DOMAIN queue
    <3>1. /\ queue[r].behind \subseteq 1 .. rows /\ queue[r].behind \cap DOMAIN conflicts = {}
          /\ \A q \in queue[r].behind \cap DOMAIN queue : queue[q].group = queue[r].group
      BY <2>1 DEF GroupInv, Grouped, DependentsSetAside
    <3>2. queue'[r].behind = queue[r].behind /\ rows + 1 \notin queue[r].behind
      BY <1>1, <2>1, <3>1
    <3> QED BY <1>1, <2>1, <3>1, <3>2, EnqueueGroups
  <2>2. CASE r = rows + 1
    BY <1>1, <1>2, <2>2, EnqueueGroups
  <2> QED BY <1>1, <2>1, <2>2
<1>4. 1 .. rows \subseteq 1 .. rows'
  BY <1>1
<1> QED BY <1>3, <1>4 DEF GroupInv, Grouped, DependentsSetAside

\* Rows that leave the queue or the conflicts leave nothing behind.
LEMMA FewerKeepGroups ==
    ASSUME GroupInv, UNCHANGED rows, DOMAIN queue' \subseteq DOMAIN queue,
           DOMAIN conflicts' \subseteq DOMAIN conflicts,
           \A r \in DOMAIN queue' : queue'[r].behind = queue[r].behind /\ queue'[r].group = queue[r].group
    PROVE  GroupInv'
  BY DEF GroupInv, Grouped, DependentsSetAside

LEMMA RouteKeepsGroups ==
    ASSUME Tabled, GroupInv, NEW id, NEW op, Route(id, op), UNCHANGED conflicts
    PROVE  GroupInv'
<1>1. CASE Enqueue(id, op)
  BY <1>1, EnqueueKeepsGroups
<1>2. CASE UNCHANGED <<queue, rows>>
  BY <1>2, FewerKeepGroups
<1> QED BY <1>1, <1>2 DEF Route

LEMMA HeadKeepsGroups ==
    ASSUME BooksInv, GroupInv, HeadAnswered
    PROVE  GroupInv'
<1>1. UNCHANGED rows
  BY DEF HeadAnswered
<1>2. CASE Acknowledge
  <2>1. /\ UNCHANGED conflicts
        /\ DOMAIN queue' = DOMAIN queue \ {Oldest(DOMAIN queue)}
        /\ \A r \in DOMAIN queue' :
             queue'[r] = [queue[r] EXCEPT !.op = Rebase(queue[r].op, answer.state)]
    BY <1>2 DEF Acknowledge
  <2>2. ASSUME NEW r \in DOMAIN queue'
        PROVE  queue'[r].behind = queue[r].behind /\ queue'[r].group = queue[r].group
    <3>1. queue[r] = [f \in RowFields |-> queue[r][f]]
      BY <2>1 DEF BooksInv, Tabled
    <3>2. queue'[r] = [queue[r] EXCEPT !.op = Rebase(queue[r].op, answer.state)]
      BY <2>1
    <3> QED BY <3>1, <3>2 DEF RowFields
  <2> QED BY <1>1, <2>1, <2>2, FewerKeepGroups
<1>3. CASE SetAside
  <2> DEFINE grouped == {r \in DOMAIN queue : queue[r].group = First(queue).group}
  <2>1. /\ DOMAIN queue' = DOMAIN queue \ grouped
        /\ \A r \in DOMAIN queue' : queue'[r] = queue[r]
        /\ DOMAIN conflicts' = DOMAIN conflicts \cup grouped
    BY <1>3, SetAsideTable DEF BooksInv
  <2>2. ASSUME NEW r \in DOMAIN queue'
        PROVE  queue[r].behind \cap grouped = {}
    <3>1. r \in DOMAIN queue /\ queue[r].group # First(queue).group
      BY <2>1
    <3>2. \A q \in queue[r].behind \cap DOMAIN queue : queue[q].group = queue[r].group
      BY <3>1 DEF GroupInv, Grouped
    <3> QED BY <3>1, <3>2
  <2> HIDE DEF grouped
  <2>3. Grouped'
    BY <1>1, <2>1 DEF GroupInv, Grouped
  <2>4. DependentsSetAside'
    BY <2>1, <2>2 DEF GroupInv, DependentsSetAside
  <2> QED BY <2>3, <2>4 DEF GroupInv
<1>4. CASE Stop \/ Abandon
  BY <1>1, <1>4, FewerKeepGroups DEF Stop, Abandon
<1> QED BY <1>2, <1>3, <1>4 DEF HeadAnswered

LEMMA NextGroups == BooksInv /\ GroupInv /\ [SyncNext]_syncVars => GroupInv'
<1> SUFFICES ASSUME BooksInv, GroupInv, [SyncNext]_syncVars PROVE GroupInv'
  OBVIOUS
<1>0. Tabled
  BY DEF BooksInv
<1>1. ASSUME UNCHANGED <<queue, rows, conflicts>> PROVE GroupInv'
  BY <1>1, FewerKeepGroups
<1>2. CASE UNCHANGED syncVars
  BY <1>1, <1>2 DEF syncVars, device, history
<1>3. CASE EditLocally
  BY <1>1, <1>3 DEF EditLocally
<1>4. CASE EditStart
  <2>1. UNCHANGED conflicts
    BY <1>4 DEF EditStart
  <2>2. PICK op \in UserRequests(Snapshot) : UNCHANGED <<queue, rows>> \/ Route(NextEdit, op)
    BY <1>4 DEF EditStart
  <2> QED BY <1>0, <1>1, <2>1, <2>2, RouteKeepsGroups
<1>5. CASE SyncStart
  BY <1>1, <1>5 DEF SyncStart, device, history
<1>6. CASE Request
  BY <1>1, <1>6 DEF Request, device, history
<1>7. CASE Lose
  BY <1>1, <1>7 DEF Lose, device
<1>8. CASE ProbeAnswered
  <2>1. UNCHANGED conflicts
    BY <1>8 DEF ProbeAnswered
  <2>2. Route(task.id, task.op) \/ UNCHANGED <<queue, rows>>
    <3>1. answer.code = "ok" \/ answer = Down \/ answer = Absent
      BY <1>8 DEF ProbeAnswered, BooksInv, Locked
    <3> QED BY <1>8, <3>1 DEF ProbeAnswered, Down, Absent
  <2> QED BY <1>0, <1>1, <2>1, <2>2, RouteKeepsGroups
<1>9. CASE SyncProbeAnswered
  BY <1>1, <1>9 DEF SyncProbeAnswered, history
<1>10. CASE DirectAnswered
  <2>1. UNCHANGED conflicts
    BY <1>10 DEF DirectAnswered
  <2>2. Enqueue(task.id, task.op) \/ UNCHANGED <<queue, rows>>
    BY <1>10 DEF DirectAnswered, Down, Absent
  <2> QED BY <1>0, <1>1, <2>1, <2>2, EnqueueKeepsGroups
<1>11. CASE HeadAnswered
  BY <1>11, HeadKeepsGroups
<1>12. CASE PullAnswered
  BY <1>1, <1>12 DEF PullAnswered, history
<1>13. CASE Preserve
  <2>1. UNCHANGED <<conflicts, rows>>
    BY <1>13 DEF Preserve, history
  <2>2. UNCHANGED queue \/ queue' = Without(queue, {Oldest(DOMAIN queue)})
    BY <1>13 DEF Preserve
  <2>3. DOMAIN queue' \subseteq DOMAIN queue /\ \A r \in DOMAIN queue' : queue'[r] = queue[r]
    BY <2>2 DEF Without
  <2> QED BY <2>1, <2>3, FewerKeepGroups
<1>14. CASE ResolveStart
  BY <1>1, <1>14 DEF ResolveStart, device
<1>15. CASE ResolveNext
  <2>1. UNCHANGED conflicts
    BY <1>15 DEF ResolveNext
  <2>2. UNCHANGED <<queue, rows>> \/ \E id, op : Enqueue(id, op)
    BY <1>15 DEF ResolveNext
  <2> QED BY <1>0, <1>1, <2>1, <2>2, EnqueueKeepsGroups
<1>16. CASE ResolveDrop \/ Discard
  <2>1. UNCHANGED <<queue, rows>> /\ \E c : conflicts' = Without(conflicts, {c})
    BY <1>16 DEF ResolveDrop, Discard
  <2> QED BY <2>1, FewerKeepGroups DEF Without
<1>17. CASE Crash
  BY <1>1, <1>17 DEF Crash, device
<1>18. CASE Redeploy \/ OtherDevice
  BY <1>1, <1>18 DEF Redeploy, OtherDevice, device
<1> QED
  BY <1>2, <1>3, <1>4, <1>5, <1>6, <1>7, <1>8, <1>9, <1>10, <1>11, <1>12, <1>13, <1>14, <1>15,
     <1>16, <1>17, <1>18 DEF SyncNext, Answered

\* No edit stays queued behind an edit it depends on that is in conflict.
THEOREM DependentsFollow == SyncSpec => []DependentsSetAside
<1>1. GroupInv => DependentsSetAside
  BY DEF GroupInv
<1> QED BY <1>1, InitBooks, NextBooks, NextGroups, PTL DEF SyncSpec

-----------------------------------------------------------------------------
(* The device by itself (EqualizerSync): what an edit is about.            *)

\* What an edit is about: which profiles and rules there are, what they hold and
\* select, and the default; no revisions and no order.
NamesIn(s) == [p \in Profiles |-> IF s.profiles[p] = None THEN {} ELSE {s.profiles[p].name}]
TargetsIn(s) == [r \in Rules |-> IF s.rules[r] = None THEN {} ELSE {s.rules[r].target}]
View(s) == [names |-> NamesIn(s), targets |-> TargetsIn(s), default |-> s.default]

There(v, target) == target \in Profiles => v.names[target] # {}
Free(v, p, n) == \A q \in Profiles \ {p} : n \notin v.names[q]

\* What the user interface offers of a view.
Fits(op, v) ==
    /\ op.kind = "create profile" => v.names[op.profile] = {} /\ Free(v, op.profile, op.name)
    /\ op.kind = "update profile" => v.names[op.profile] # {} /\ Free(v, op.profile, op.name)
    /\ op.kind = "delete profile" =>
          /\ v.names[op.profile] # {}
          /\ There(v, op.replacement) /\ op.replacement # op.profile
          /\ op.replacement = None =>
                v.default # op.profile /\ \A r \in Rules : v.targets[r] # {op.profile}
    /\ op.kind = "default" => There(v, op.profile)
    /\ op.kind = "create rule" => v.targets[op.rule] = {} /\ There(v, op.target)
    /\ op.kind = "update rule" => v.targets[op.rule] # {} /\ There(v, op.target)
    /\ op.kind = "delete rule" => v.targets[op.rule] # {}

Instead(op) == IF op.replacement \in Profiles THEN op.replacement ELSE Bypass

\* The view after an edit.
NamesAfter(op, v) ==
    [p \in Profiles |->
       IF op.kind \in {"create profile", "update profile"} /\ p = op.profile THEN {op.name}
       ELSE IF op.kind = "delete profile" /\ p = op.profile THEN {} ELSE v.names[p]]
TargetsAfter(op, v) ==
    [r \in Rules |->
       IF op.kind \in {"create rule", "update rule"} /\ r = op.rule THEN {op.target}
       ELSE IF op.kind = "delete rule" /\ r = op.rule THEN {}
       ELSE IF op.kind = "delete profile" /\ v.targets[r] = {op.profile} THEN {Instead(op)}
       ELSE v.targets[r]]
DefaultAfter(op, v) ==
    IF op.kind = "default" THEN op.profile
    ELSE IF op.kind = "delete profile" /\ v.default = op.profile
    THEN IF Instead(op) = Bypass THEN None ELSE Instead(op)
    ELSE v.default
Play(op, v) ==
    [names |-> NamesAfter(op, v), targets |-> TargetsAfter(op, v), default |-> DefaultAfter(op, v)]

\* The edits of a user, whatever revisions they expect.
Kinds == {"create profile", "update profile", "delete profile", "default",
          "create rule", "update rule", "delete rule"}

Fields(kind) ==
    CASE kind = "create profile" -> {"kind", "profile", "name"}
      [] kind = "update profile" -> {"kind", "profile", "name", "expected"}
      [] kind = "delete profile" -> {"kind", "profile", "replacement", "expected", "settings", "references"}
      [] kind = "default" -> {"kind", "profile", "expected"}
      [] kind = "create rule" -> {"kind", "rule", "target"}
      [] kind = "update rule" -> {"kind", "rule", "target", "expected"}
      [] kind = "delete rule" -> {"kind", "rule", "expected"}

Formed(op) ==
    /\ op.kind \in Kinds /\ op = [f \in Fields(op.kind) |-> op[f]]
    /\ op.kind \in {"create profile", "update profile"} => op.profile \in Profiles /\ op.name \in Names
    /\ op.kind = "delete profile" =>
          op.profile \in Profiles /\ op.replacement \in Profiles \cup {Bypass, None}
    /\ op.kind = "default" => op.profile \in Profiles \cup {None}
    /\ op.kind \in {"create rule", "update rule"} => op.rule \in Rules /\ op.target \in Targets
    /\ op.kind = "delete rule" => op.rule \in Rules

\* It expects the revisions of s.
Built(op, s) == Rebase(op, s) = op

Sound(s) == s \in State /\ Low(s)

\* How the server takes an edit that fits: it does it, and once more does nothing.
Taken(op, s) ==
    \E t : /\ Serve(s, op) = Unchanged(t) /\ Serve(t, op) = Unchanged(t)
          /\ Sound(t) /\ View(t) = Play(op, View(s))

\* The view, row by row.
LEMMA ViewFacts ==
    ASSUME NEW s
    PROVE  /\ \A p \in Profiles : View(s).names[p] = IF s.profiles[p] = None THEN {} ELSE {s.profiles[p].name}
           /\ \A r \in Rules : View(s).targets[r] = IF s.rules[r] = None THEN {} ELSE {s.rules[r].target}
           /\ View(s).default = s.default
  BY DEF View, NamesIn, TargetsIn

\* What a row of the view says of the state.
LEMMA ViewSays ==
    ASSUME NEW s
    PROVE  /\ \A p \in Profiles :
                 /\ View(s).names[p] = {} <=> s.profiles[p] = None
                 /\ \A n : n \in View(s).names[p] <=> s.profiles[p] # None /\ s.profiles[p].name = n
           /\ \A r \in Rules :
                 /\ View(s).targets[r] = {} <=> s.rules[r] = None
                 /\ \A x : View(s).targets[r] = {x} <=> s.rules[r] # None /\ s.rules[r].target = x
<1>1. \A x : {x} # {}
  OBVIOUS
<1>2. \A x, y : {x} = {y} <=> x = y
  OBVIOUS
<1>3. ASSUME NEW p \in Profiles
      PROVE  /\ View(s).names[p] = {} <=> s.profiles[p] = None
             /\ \A n : n \in View(s).names[p] <=> s.profiles[p] # None /\ s.profiles[p].name = n
  <2>1. CASE s.profiles[p] = None
    BY <2>1, ViewFacts
  <2>2. CASE s.profiles[p] # None
    <3>1. View(s).names[p] = {s.profiles[p].name}
      BY <2>2, ViewFacts
    <3> QED BY <1>1, <2>2, <3>1
  <2> QED BY <2>1, <2>2
<1>4. ASSUME NEW r \in Rules
      PROVE  /\ View(s).targets[r] = {} <=> s.rules[r] = None
             /\ \A x : View(s).targets[r] = {x} <=> s.rules[r] # None /\ s.rules[r].target = x
  <2>1. CASE s.rules[r] = None
    BY <1>1, <2>1, ViewFacts
  <2>2. CASE s.rules[r] # None
    <3>1. View(s).targets[r] = {s.rules[r].target}
      BY <2>2, ViewFacts
    <3> QED BY <1>1, <1>2, <2>2, <3>1
  <2> QED BY <2>1, <2>2
<1> QED BY <1>3, <1>4

\* A row that stays is seen as before; one that is written is seen as written.
LEMMA ViewOf ==
    ASSUME NEW s, NEW t
    PROVE  /\ \A p \in Profiles :
                 /\ t.profiles[p] = s.profiles[p] => View(t).names[p] = View(s).names[p]
                 /\ t.profiles[p] = None => View(t).names[p] = {}
                 /\ t.profiles[p] # None => View(t).names[p] = {t.profiles[p].name}
           /\ \A r \in Rules :
                 /\ t.rules[r] = s.rules[r] => View(t).targets[r] = View(s).targets[r]
                 /\ t.rules[r] = None => View(t).targets[r] = {}
                 /\ t.rules[r] # None => View(t).targets[r] = {t.rules[r].target}
           /\ t.default = s.default => View(t).default = View(s).default
<1>1. ASSUME NEW p \in Profiles
      PROVE  /\ View(t).names[p] = IF t.profiles[p] = None THEN {} ELSE {t.profiles[p].name}
             /\ View(s).names[p] = IF s.profiles[p] = None THEN {} ELSE {s.profiles[p].name}
  BY ViewFacts
<1>2. ASSUME NEW r \in Rules
      PROVE  /\ View(t).targets[r] = IF t.rules[r] = None THEN {} ELSE {t.rules[r].target}
             /\ View(s).targets[r] = IF s.rules[r] = None THEN {} ELSE {s.rules[r].target}
  BY ViewFacts
<1>3. View(t).default = t.default /\ View(s).default = s.default
  BY ViewFacts
<1> QED BY <1>1, <1>2, <1>3

\* A state whose rows are seen as the edit leaves them shows what the edit does.
LEMMA ViewPlayed ==
    ASSUME NEW s, NEW t, NEW op,
           \A p \in Profiles : View(t).names[p] = NamesAfter(op, View(s))[p],
           \A r \in Rules : View(t).targets[r] = TargetsAfter(op, View(s))[r],
           View(t).default = DefaultAfter(op, View(s))
    PROVE  View(t) = Play(op, View(s))
<1>1. NamesIn(t) = NamesAfter(op, View(s))
  <2>1. \A p \in Profiles : NamesIn(t)[p] = NamesAfter(op, View(s))[p]
    BY DEF View
  <2> QED BY <2>1 DEF NamesIn, NamesAfter
<1>2. TargetsIn(t) = TargetsAfter(op, View(s))
  <2>1. \A r \in Rules : TargetsIn(t)[r] = TargetsAfter(op, View(s))[r]
    BY DEF View
  <2> QED BY <2>1 DEF TargetsIn, TargetsAfter
<1> QED BY <1>1, <1>2 DEF View, Play

\* An answer says nothing of whether the request did something.
LEMMA DoneAnew ==
    ASSUME NEW s
    PROVE  Changed(s) = Unchanged(Changed(s).state)
  BY DEF Changed, Unchanged

\* A profile whose id and name are free is created, and sent again it is there
\* already: create_equalizer_profile.
LEMMA CreateProfileTaken ==
    ASSUME NEW s, Sound(s), NEW op, op.profile \in Profiles, op.name \in Names,
           View(s).names[op.profile] = {}, Free(View(s), op.profile, op.name)
    PROVE  \E t : /\ CreateProfile(s, op) = Unchanged(t) /\ Sound(t) /\ CreateProfile(t, op) = Unchanged(t)
                  /\ \A p \in Profiles : View(t).names[p] = IF p = op.profile THEN {op.name} ELSE View(s).names[p]
                  /\ \A r \in Rules : View(t).targets[r] = View(s).targets[r]
                  /\ View(t).default = View(s).default
<1> DEFINE row == [name |-> op.name, revision |-> 1]
           t == [profiles |-> [s.profiles EXCEPT ![op.profile] = row], rules |-> s.rules,
                 default |-> s.default, settings |-> s.settings, revision |-> s.revision + 1]
<1>a. s \in State
  BY DEF Sound
<1>b. row \in ProfileRow
  BY DEF ProfileRow
<1>1. row # None
  BY <1>b, StoreAssumption
<1>2. /\ s.profiles[op.profile] = None
      /\ \A q \in Profiles \ {op.profile} : s.profiles[q] # None => s.profiles[q].name # op.name
  BY ViewSays DEF Free
<1>3. ~NameTaken(s, op.profile, op.name)
  BY <1>a, <1>2 DEF NameTaken, Present, State
<1>4. CreateProfile(s, op) = Unchanged(t)
  BY <1>a, <1>2, <1>3 DEF CreateProfile, Changed, Unchanged, State
<1>5. Advances(s, t)
  <2>1. Changed([s EXCEPT !.profiles[op.profile] = row]).state = t
    BY <1>a DEF Changed, State
  <2> QED BY <1>a, <1>b, <1>2, <2>1, ProfileWritten
<1>6. /\ DOMAIN s.profiles = Profiles /\ t.profiles[op.profile] = row
      /\ \A p \in Profiles \ {op.profile} : t.profiles[p] = s.profiles[p]
  BY <1>a DEF State
<1>7. t.rules = s.rules /\ t.default = s.default /\ row.name = op.name
  OBVIOUS
<1> HIDE DEF t, row
<1>8. CreateProfile(t, op) = Unchanged(t)
  BY <1>1, <1>6, <1>7 DEF CreateProfile
<1>9. ASSUME NEW p \in Profiles
      PROVE  View(t).names[p] = IF p = op.profile THEN {op.name} ELSE View(s).names[p]
  <2>1. CASE p = op.profile
    BY <2>1, <1>1, <1>6, <1>7, ViewOf
  <2>2. CASE p # op.profile
    <3>1. t.profiles[p] = s.profiles[p]
      BY <2>2, <1>6
    <3> QED BY <2>2, <3>1, ViewOf
  <2> QED BY <2>1, <2>2
<1>10. View(t).default = View(s).default /\ \A r \in Rules : View(t).targets[r] = View(s).targets[r]
  BY <1>7, ViewOf
<1>11. Sound(t)
  BY <1>5 DEF Advances, Sound
<1> QED BY <1>4, <1>8, <1>9, <1>10, <1>11

\* A profile is updated at the revision it has, and sent again the update is done
\* already: update_equalizer_profile.
LEMMA UpdateProfileTaken ==
    ASSUME NEW s, Sound(s), NEW op, op.profile \in Profiles, op.name \in Names,
           View(s).names[op.profile] # {}, Free(View(s), op.profile, op.name),
           op.expected = s.profiles[op.profile].revision
    PROVE  \E t : /\ UpdateProfile(s, op) = Unchanged(t) /\ Sound(t) /\ UpdateProfile(t, op) = Unchanged(t)
                  /\ \A p \in Profiles : View(t).names[p] = IF p = op.profile THEN {op.name} ELSE View(s).names[p]
                  /\ \A r \in Rules : View(t).targets[r] = View(s).targets[r]
                  /\ View(t).default = View(s).default
<1> DEFINE old == s.profiles[op.profile]
           row == [name |-> op.name, revision |-> old.revision + 1]
           t == [profiles |-> [s.profiles EXCEPT ![op.profile] = row], rules |-> s.rules,
                 default |-> s.default, settings |-> s.settings, revision |-> s.revision + 1]
<1>1. s \in State
  BY DEF Sound
<1>2. /\ old # None
      /\ \A q \in Profiles \ {op.profile} : s.profiles[q] # None => s.profiles[q].name # op.name
  BY ViewSays DEF Free
<1>3. ~NameTaken(s, op.profile, op.name)
  BY <1>1, <1>2 DEF NameTaken, Present, State
<1>4. old \in ProfileRow /\ old.revision \in Nat \ {0}
  BY <1>1, <1>2 DEF State, ProfileRow
<1>a. row \in ProfileRow
  BY <1>4 DEF ProfileRow
<1>5. row # None
  BY <1>a, StoreAssumption
<1>6. CASE old.name = op.name
  <2>1. UpdateProfile(s, op) = Unchanged(s)
    BY <1>2, <1>4, <1>6 DEF UpdateProfile
  <2>2. View(s).names[op.profile] = {op.name}
    BY <1>2, <1>6, ViewOf
  <2> QED BY <2>1, <2>2
<1>7. CASE old.name # op.name
  <2>0. Changed([s EXCEPT !.profiles[op.profile] = row]) = Unchanged(t)
    <3>1. Changed([s EXCEPT !.profiles[op.profile] = row]).state = t
      BY <1>1 DEF Changed, State
    <3> QED BY <3>1, DoneAnew
  <2>1. UpdateProfile(s, op) = Unchanged(t)
    <3>1. ~(op.expected < 1) /\ old # None /\ old.revision = op.expected
      BY <1>2, <1>4
    <3>2. UpdateProfile(s, op) = Changed([s EXCEPT !.profiles[op.profile] = row])
      BY <1>3, <1>7, <3>1 DEF UpdateProfile
    <3> QED BY <2>0, <3>2
  <2>2. Advances(s, t)
    <3>1. Changed([s EXCEPT !.profiles[op.profile] = row]).state = t
      BY <1>1 DEF Changed, State
    <3>2. row.revision > old.revision
      BY <1>4
    <3> QED BY <1>1, <1>a, <3>1, <3>2, ProfileWritten
  <2>3. /\ DOMAIN s.profiles = Profiles /\ t.profiles[op.profile] = row
        /\ \A p \in Profiles \ {op.profile} : t.profiles[p] = s.profiles[p]
    BY <1>1 DEF State
  <2>4. t.rules = s.rules /\ t.default = s.default /\ row.name = op.name
    OBVIOUS
  <2> HIDE DEF t, row
  <2>5. UpdateProfile(t, op) = Unchanged(t)
    BY <1>4, <1>5, <2>3, <2>4 DEF UpdateProfile
  <2>6. ASSUME NEW p \in Profiles
        PROVE  View(t).names[p] = IF p = op.profile THEN {op.name} ELSE View(s).names[p]
    <3>1. CASE p = op.profile
      BY <3>1, <1>5, <2>3, <2>4, ViewOf
    <3>2. CASE p # op.profile
      <4>1. t.profiles[p] = s.profiles[p]
        BY <3>2, <2>3
      <4> QED BY <3>2, <4>1, ViewOf
    <3> QED BY <3>1, <3>2
  <2>7. View(t).default = View(s).default /\ \A r \in Rules : View(t).targets[r] = View(s).targets[r]
    BY <2>4, ViewOf
  <2>8. Sound(t)
    BY <2>2 DEF Advances, Sound
  <2> QED BY <2>1, <2>5, <2>6, <2>7, <2>8
<1> QED BY <1>6, <1>7

\* What selects the profile selects its replacement, or nothing.
LEMMA DeleteProfileTaken ==
    ASSUME NEW s, Sound(s), NEW op, op.profile \in Profiles, op.replacement \in Profiles \cup {Bypass, None},
           op.replacement # op.profile, There(View(s), op.replacement),
           View(s).names[op.profile] # {},
           op.replacement = None => s.default # op.profile /\ \A r \in Rules : View(s).targets[r] # {op.profile},
           op.expected = s.profiles[op.profile].revision, op.settings = s.settings,
           op.references = References(s, op.profile)
    PROVE  \E t : /\ DeleteProfile(s, op) = Unchanged(t) /\ Sound(t) /\ DeleteProfile(t, op) = Unchanged(t)
                  /\ \A p \in Profiles : View(t).names[p] = IF p = op.profile THEN {} ELSE View(s).names[p]
                  /\ \A r \in Rules : View(t).targets[r] =
                        IF View(s).targets[r] = {op.profile} THEN {Instead(op)} ELSE View(s).targets[r]
                  /\ View(t).default = IF s.default # op.profile THEN s.default
                                       ELSE IF Instead(op) = Bypass THEN None ELSE Instead(op)
<1> DEFINE old == s.profiles[op.profile]
           q == Instead(op)
           t == Changed(Repointed(s, op.profile, q)).state
           rules == [r \in Rules |-> IF s.rules[r] # None /\ s.rules[r].target = op.profile
                                     THEN [s.rules[r] EXCEPT !.target = q, !.revision = @ + 1]
                                     ELSE s.rules[r]]
<1>1. s \in State
  BY DEF Sound
<1>2. old # None
  BY ViewSays
<1>3. old.revision \in Nat \ {0}
  BY <1>1, <1>2 DEF State, ProfileRow
<1>4. \A ref \in op.references : ref[2] \in Nat \ {0}
  BY <1>1 DEF References, Present, State, RuleRow
<1>5. q = IF op.replacement = None THEN Bypass ELSE op.replacement
  BY StoreAssumption DEF Instead
<1>6. q \in Targets /\ q # op.profile
  BY StoreAssumption DEF Instead, Targets
<1>7. ~Dangling(s, q)
  BY StoreAssumption, ViewSays DEF Instead, Dangling, There
<1>8. op.replacement # None => ~Dangling(s, op.replacement)
  BY <1>5, <1>7
<1>9. op.replacement = None => ~(s.default = op.profile \/ References(s, op.profile) # {})
  <2> SUFFICES ASSUME op.replacement = None PROVE References(s, op.profile) = {}
    OBVIOUS
  <2>1. ASSUME NEW r \in Rules, s.rules[r] # None PROVE s.rules[r].target # op.profile
    <3>1. View(s).targets[r] # {op.profile}
      OBVIOUS
    <3>2. View(s).targets[r] = {s.rules[r].target}
      BY <2>1, ViewOf
    <3> QED BY <3>1, <3>2
  <2>2. {r \in Present(s.rules) : s.rules[r].target = op.profile} = {}
    BY <1>1, <2>1 DEF Present, State
  <2> QED BY <2>2 DEF References
<1>10. ~(op.expected < 1 \/ \E ref \in op.references : ref[2] < 1)
  BY <1>3, <1>4
<1>11. DeleteProfile(s, op) = Changed(Repointed(s, op.profile, q))
  <2>1. q = (IF op.replacement = None THEN Bypass ELSE op.replacement)
    BY <1>5
  <2> HIDE DEF q
  <2>2. ~(\/ old.revision # op.expected
          \/ s.settings # op.settings
          \/ References(s, op.profile) # op.references
          \/ op.replacement = None /\ (s.default = op.profile \/ References(s, op.profile) # {}))
    BY <1>9
  <2> QED BY <1>2, <1>8, <1>10, <2>1, <2>2 DEF DeleteProfile
<1>12. DeleteProfile(s, op) = Unchanged(t)
  BY <1>11, DoneAnew
<1>13. Sound(t)
  <2>1. Advances(s, t)
    BY <1>1, <1>6, <1>7, ProfileReplaced
  <2> QED BY <2>1 DEF Advances, Sound
<1>14. /\ t.profiles = [s.profiles EXCEPT ![op.profile] = None] /\ t.rules = rules
       /\ t.default = IF s.default # op.profile THEN s.default ELSE IF q = Bypass THEN None ELSE q
  <2> HIDE DEF q
  <2> QED BY <1>1 DEF Changed, Repointed, State
<1> HIDE DEF t
<1>15. /\ DOMAIN s.profiles = Profiles /\ t.profiles[op.profile] = None
       /\ \A p \in Profiles \ {op.profile} : t.profiles[p] = s.profiles[p]
  BY <1>1, <1>14 DEF State
<1>16. DeleteProfile(t, op) = Unchanged(t)
  BY <1>10, <1>15 DEF DeleteProfile
<1>17. ASSUME NEW p \in Profiles
       PROVE  View(t).names[p] = IF p = op.profile THEN {} ELSE View(s).names[p]
  <2>1. CASE p = op.profile
    BY <2>1, <1>15, ViewOf
  <2>2. CASE p # op.profile
    <3>1. t.profiles[p] = s.profiles[p]
      BY <2>2, <1>15
    <3> QED BY <2>2, <3>1, ViewOf
  <2> QED BY <2>1, <2>2
<1>18. ASSUME NEW r \in Rules
       PROVE  View(t).targets[r] = IF View(s).targets[r] = {op.profile} THEN {q} ELSE View(s).targets[r]
  <2>1. CASE s.rules[r] # None /\ s.rules[r].target = op.profile
    <3>1. t.rules[r] = [s.rules[r] EXCEPT !.target = q, !.revision = @ + 1]
      BY <2>1, <1>14
    <3>2. s.rules[r] \in RuleRow
      BY <1>1, <2>1 DEF State
    <3>3. t.rules[r] \in RuleRow /\ t.rules[r].target = q
      <4> DEFINE row == s.rules[r]
                 next == [row EXCEPT !.target = q, !.revision = @ + 1]
      <4>1. next \in RuleRow /\ next.target = q
        BY <1>6, <3>2, RowReplaced
      <4>2. t.rules[r] = next
        BY <3>1
      <4> HIDE DEF next, q
      <4> QED BY <4>1, <4>2
    <3>4. t.rules[r] # None
      BY <3>3, StoreAssumption
    <3>5. View(t).targets[r] = {q}
      BY <3>3, <3>4, ViewOf
    <3>6. View(s).targets[r] = {op.profile}
      BY <2>1, ViewSays
    <3> QED BY <3>5, <3>6
  <2>2. CASE ~(s.rules[r] # None /\ s.rules[r].target = op.profile)
    <3>1. t.rules[r] = s.rules[r]
      BY <2>2, <1>14
    <3>2. View(s).targets[r] # {op.profile}
      BY <2>2, ViewSays
    <3> QED BY <3>1, <3>2, ViewOf
  <2> QED BY <2>1, <2>2
<1>19. View(t).default = IF s.default # op.profile THEN s.default ELSE IF q = Bypass THEN None ELSE q
  BY <1>14, ViewFacts
<1> QED BY <1>12, <1>13, <1>16, <1>17, <1>18, <1>19

\* So with the default profile: update_equalizer_settings.
LEMMA UpdateSettingsTaken ==
    ASSUME NEW s, Sound(s), NEW op, op.profile \in Profiles \cup {None}, There(View(s), op.profile),
           op.expected = s.settings
    PROVE  \E t : /\ UpdateSettings(s, op) = Unchanged(t) /\ Sound(t) /\ UpdateSettings(t, op) = Unchanged(t)
                  /\ \A p \in Profiles : View(t).names[p] = View(s).names[p]
                  /\ \A r \in Rules : View(t).targets[r] = View(s).targets[r]
                  /\ View(t).default = op.profile
<1> DEFINE t == Changed([s EXCEPT !.default = op.profile, !.settings = @ + 1]).state
<1>1. s \in State
  BY DEF Sound
<1>2. op.profile # None => s.profiles[op.profile] # None
  BY ViewSays DEF There
<1>3. CASE s.default = op.profile
  <2>1. UpdateSettings(s, op) = Unchanged(s)
    BY <1>3 DEF UpdateSettings
  <2>2. View(s).default = op.profile
    BY <1>3, ViewFacts
  <2> QED BY <2>1, <2>2
<1>4. CASE s.default # op.profile
  <2>1. UpdateSettings(s, op) = Changed([s EXCEPT !.default = op.profile, !.settings = @ + 1])
    BY <1>2, <1>4 DEF UpdateSettings
  <2>2. UpdateSettings(s, op) = Unchanged(t)
    BY <2>1, DoneAnew
  <2>3. Sound(t)
    <3>1. Advances(s, t)
      BY <1>1, <1>2, DefaultWritten
    <3> QED BY <3>1 DEF Advances, Sound
  <2>4. t.default = op.profile /\ t.profiles = s.profiles /\ t.rules = s.rules
    BY <1>1 DEF Changed, State
  <2> HIDE DEF t
  <2>5. UpdateSettings(t, op) = Unchanged(t)
    BY <2>4 DEF UpdateSettings
  <2>6. View(t).default = op.profile
    BY <2>4, ViewFacts
  <2>7. /\ \A p \in Profiles : View(t).names[p] = View(s).names[p]
        /\ \A r \in Rules : View(t).targets[r] = View(s).targets[r]
    BY <2>4, ViewOf
  <2> QED BY <2>2, <2>3, <2>5, <2>6, <2>7
<1> QED BY <1>3, <1>4

\* So with a new rule: create_equalizer_rule.
LEMMA CreateRuleTaken ==
    ASSUME NEW s, Sound(s), NEW op, op.rule \in Rules, op.target \in Targets,
           View(s).targets[op.rule] = {}, There(View(s), op.target)
    PROVE  \E t : /\ CreateRule(s, op) = Unchanged(t) /\ Sound(t) /\ CreateRule(t, op) = Unchanged(t)
                  /\ \A p \in Profiles : View(t).names[p] = View(s).names[p]
                  /\ \A r \in Rules : View(t).targets[r] = IF r = op.rule THEN {op.target} ELSE View(s).targets[r]
                  /\ View(t).default = View(s).default
<1> DEFINE low == BottomPriority(s)
           row == [target |-> op.target, priority |-> low, revision |-> 1]
           t == Changed([s EXCEPT !.rules[op.rule] = row]).state
<1>1. s \in State /\ Low(s)
  BY DEF Sound
<1>2. s.rules[op.rule] = None
  BY ViewSays
<1>3. ~Dangling(s, op.target)
  BY ViewSays DEF There, Dangling
<1>4. low \in Int /\ -s.revision - 1 <= low
  BY <1>1, BottomIsLow
<1>5. CreateRule(s, op) = Unchanged(t)
  <2>1. CreateRule(s, op) = Changed([s EXCEPT !.rules[op.rule] = row])
    BY <1>2, <1>3 DEF CreateRule
  <2> QED BY <2>1, DoneAnew
<1> HIDE DEF low
<1>6. row \in RuleRow /\ row # None /\ row.target = op.target /\ row.priority = low
  <2>1. row \in RuleRow
    BY <1>4 DEF RuleRow
  <2> QED BY <2>1, StoreAssumption
<1>7. t.profiles = s.profiles /\ t.default = s.default /\ t.rules = [s.rules EXCEPT ![op.rule] = row]
  BY <1>1 DEF Changed, State
<1>8. /\ t.rules[op.rule] = row
      /\ \A r \in Rules \ {op.rule} : t.rules[r] = s.rules[r]
  BY <1>1, <1>7 DEF State
<1>9. Sound(t)
  <2> HIDE DEF row
  <2>1. Advances(s, t)
    BY <1>1, <1>2, <1>3, <1>4, <1>6, RuleWritten
  <2> QED BY <1>1, <2>1 DEF Advances, Sound
<1> HIDE DEF t, row
<1>10. CreateRule(t, op) = Unchanged(t)
  BY <1>6, <1>8 DEF CreateRule
<1>11. ASSUME NEW r \in Rules
       PROVE  View(t).targets[r] = IF r = op.rule THEN {op.target} ELSE View(s).targets[r]
  <2>1. CASE r = op.rule
    BY <2>1, <1>6, <1>8, ViewOf
  <2>2. CASE r # op.rule
    <3>1. t.rules[r] = s.rules[r]
      BY <2>2, <1>8
    <3> QED BY <2>2, <3>1, ViewOf
  <2> QED BY <2>1, <2>2
<1>12. View(t).default = View(s).default /\ \A p \in Profiles : View(t).names[p] = View(s).names[p]
  BY <1>7, ViewOf
<1> QED BY <1>5, <1>9, <1>10, <1>11, <1>12

\* So with a rule at the revision it has: update_equalizer_rule.
LEMMA UpdateRuleTaken ==
    ASSUME NEW s, Sound(s), NEW op, op.rule \in Rules, op.target \in Targets,
           View(s).targets[op.rule] # {}, There(View(s), op.target),
           op.expected = s.rules[op.rule].revision
    PROVE  \E t : /\ UpdateRule(s, op) = Unchanged(t) /\ Sound(t) /\ UpdateRule(t, op) = Unchanged(t)
                  /\ \A p \in Profiles : View(t).names[p] = View(s).names[p]
                  /\ \A r \in Rules : View(t).targets[r] = IF r = op.rule THEN {op.target} ELSE View(s).targets[r]
                  /\ View(t).default = View(s).default
<1> DEFINE old == s.rules[op.rule]
           row == [old EXCEPT !.target = op.target, !.revision = @ + 1]
           t == Changed([s EXCEPT !.rules[op.rule] = row]).state
<1>1. s \in State /\ Low(s)
  BY DEF Sound
<1>2. old # None
  BY ViewSays
<1>3. ~Dangling(s, op.target)
  BY ViewSays DEF There, Dangling
<1>4. old \in RuleRow /\ old.revision \in Nat \ {0} /\ old.priority \in Int
  BY <1>1, <1>2 DEF State, RuleRow
<1>5. CASE old.target = op.target
  <2>1. UpdateRule(s, op) = Unchanged(s)
    BY <1>2, <1>4, <1>5 DEF UpdateRule
  <2>2. View(s).targets[op.rule] = {op.target}
    BY <1>2, <1>5, ViewSays
  <2> QED BY <2>1, <2>2
<1>6. CASE old.target # op.target
  <2>1. UpdateRule(s, op) = Unchanged(t)
    <3>1. ~(op.expected < 1) /\ old.revision = op.expected
      BY <1>4
    <3>2. UpdateRule(s, op) = Changed([s EXCEPT !.rules[op.rule].target = op.target,
                                                !.rules[op.rule].revision = @ + 1])
      BY <1>2, <1>3, <1>6, <3>1 DEF UpdateRule
    <3>3. [s EXCEPT !.rules[op.rule].target = op.target,
                    !.rules[op.rule].revision = @ + 1] = [s EXCEPT !.rules[op.rule] = row]
      BY <1>1 DEF State
    <3> QED BY <3>2, <3>3, DoneAnew
  <2>2. /\ row \in RuleRow /\ row.target = op.target
        /\ row.priority = old.priority /\ row.revision = old.revision + 1
    BY <1>4, RowReplaced
  <2>3. row # None
    BY <2>2, StoreAssumption
  <2>4. t.profiles = s.profiles /\ t.default = s.default /\ t.rules = [s.rules EXCEPT ![op.rule] = row]
    BY <1>1 DEF Changed, State
  <2>5. /\ t.rules[op.rule] = row
        /\ \A r \in Rules \ {op.rule} : t.rules[r] = s.rules[r]
    BY <1>1, <2>4 DEF State
  <2>6. Sound(t)
    <3> HIDE DEF row
    <3>1. -s.revision - 1 <= row.priority
      <4>1. -s.revision <= old.priority /\ s.revision \in Nat
        BY <1>1, <1>2 DEF Low, Present, State
      <4> HIDE DEF old
      <4> QED BY <1>4, <2>2, <4>1
    <3>2. row.revision > old.revision
      BY <1>4, <2>2
    <3>3. Advances(s, t)
      BY <1>1, <1>3, <2>2, <3>1, <3>2, RuleWritten
    <3> QED BY <1>1, <3>3 DEF Advances, Sound
  <2> HIDE DEF t, row
  <2>7. UpdateRule(t, op) = Unchanged(t)
    BY <1>4, <2>2, <2>3, <2>5 DEF UpdateRule
  <2>8. ASSUME NEW r \in Rules
        PROVE  View(t).targets[r] = IF r = op.rule THEN {op.target} ELSE View(s).targets[r]
    <3>1. CASE r = op.rule
      BY <3>1, <2>2, <2>3, <2>5, ViewOf
    <3>2. CASE r # op.rule
      <4>1. t.rules[r] = s.rules[r]
        BY <3>2, <2>5
      <4> QED BY <3>2, <4>1, ViewOf
    <3> QED BY <3>1, <3>2
  <2>9. View(t).default = View(s).default /\ \A p \in Profiles : View(t).names[p] = View(s).names[p]
    BY <2>4, ViewOf
  <2> QED BY <2>1, <2>6, <2>7, <2>8, <2>9
<1> QED BY <1>5, <1>6

\* So with the deletion of a rule: delete_equalizer_rule.
LEMMA DeleteRuleTaken ==
    ASSUME NEW s, Sound(s), NEW op, op.rule \in Rules, View(s).targets[op.rule] # {},
           op.expected = s.rules[op.rule].revision
    PROVE  \E t : /\ DeleteRule(s, op) = Unchanged(t) /\ Sound(t) /\ DeleteRule(t, op) = Unchanged(t)
                  /\ \A p \in Profiles : View(t).names[p] = View(s).names[p]
                  /\ \A r \in Rules : View(t).targets[r] = IF r = op.rule THEN {} ELSE View(s).targets[r]
                  /\ View(t).default = View(s).default
<1> DEFINE t == Changed([s EXCEPT !.rules[op.rule] = None]).state
<1>1. s \in State
  BY DEF Sound
<1>2. s.rules[op.rule] # None
  BY ViewSays
<1>3. s.rules[op.rule].revision \in Nat \ {0}
  BY <1>1, <1>2 DEF State, RuleRow
<1>4. DeleteRule(s, op) = Unchanged(t)
  <2>1. DeleteRule(s, op) = Changed([s EXCEPT !.rules[op.rule] = None])
    BY <1>2, <1>3 DEF DeleteRule
  <2> QED BY <2>1, DoneAnew
<1>5. Sound(t)
  <2>1. Advances(s, t)
    BY <1>1, RuleDeleted
  <2> QED BY <2>1 DEF Advances, Sound
<1>6. t.profiles = s.profiles /\ t.default = s.default /\ t.rules = [s.rules EXCEPT ![op.rule] = None]
  BY <1>1 DEF Changed, State
<1>7. /\ t.rules[op.rule] = None
      /\ \A r \in Rules \ {op.rule} : t.rules[r] = s.rules[r]
  BY <1>1, <1>6 DEF State
<1> HIDE DEF t
<1>8. DeleteRule(t, op) = Unchanged(t)
  BY <1>3, <1>7 DEF DeleteRule
<1>9. ASSUME NEW r \in Rules
      PROVE  View(t).targets[r] = IF r = op.rule THEN {} ELSE View(s).targets[r]
  <2>1. CASE r = op.rule
    BY <2>1, <1>7, ViewOf
  <2>2. CASE r # op.rule
    <3>1. t.rules[r] = s.rules[r]
      BY <2>2, <1>7
    <3> QED BY <2>2, <3>1, ViewOf
  <2> QED BY <2>1, <2>2
<1>10. View(t).default = View(s).default /\ \A p \in Profiles : View(t).names[p] = View(s).names[p]
  BY <1>6, ViewOf
<1> QED BY <1>4, <1>5, <1>8, <1>9, <1>10

(* Edits that are rebased *)

\* Two edits that do the same, whatever revisions they expect.
Alike(o, op) ==
    /\ o.kind = op.kind
    /\ o.kind \in {"create profile", "update profile"} => o.profile = op.profile /\ o.name = op.name
    /\ o.kind = "delete profile" => o.profile = op.profile /\ o.replacement = op.replacement
    /\ o.kind = "default" => o.profile = op.profile
    /\ o.kind \in {"create rule", "update rule"} => o.rule = op.rule /\ o.target = op.target
    /\ o.kind = "delete rule" => o.rule = op.rule

\* What does the same does the same to every view, and fits the same.
LEMMA AlikePlay ==
    ASSUME NEW o, NEW op, Alike(o, op), op.kind \in Kinds, NEW v
    PROVE  Play(o, v) = Play(op, v) /\ (Fits(o, v) <=> Fits(op, v))
<1>1. Fits(o, v) <=> Fits(op, v)
  BY DEF Alike, Fits, Kinds
<1>2. op.kind = "delete profile" => Instead(o) = Instead(op)
  BY DEF Alike, Instead
<1>3. NamesAfter(o, v) = NamesAfter(op, v)
  BY DEF NamesAfter, Alike, Kinds
<1>4. TargetsAfter(o, v) = TargetsAfter(op, v)
  BY <1>2 DEF TargetsAfter, Alike, Kinds
<1>5. DefaultAfter(o, v) = DefaultAfter(op, v)
  BY <1>2 DEF DefaultAfter, Alike, Kinds
<1> QED BY <1>1, <1>3, <1>4, <1>5 DEF Play

\* What rebasing writes, for each kind of edit.
LEMMA RebaseByKind ==
    ASSUME NEW op, NEW s
    PROVE  /\ op.kind \in {"create profile", "create rule"} => Rebase(op, s) = op
           /\ op.kind = "update profile" =>
                Rebase(op, s) = IF s.profiles[op.profile] = None THEN op
                                ELSE [op EXCEPT !.expected = s.profiles[op.profile].revision]
           /\ op.kind = "delete profile" =>
                Rebase(op, s) = [op EXCEPT !.expected = IF s.profiles[op.profile] = None THEN @
                                                        ELSE s.profiles[op.profile].revision,
                                           !.settings = s.settings,
                                           !.references = References(s, op.profile)]
           /\ op.kind = "default" => Rebase(op, s) = [op EXCEPT !.expected = s.settings]
           /\ op.kind \in {"update rule", "delete rule"} =>
                Rebase(op, s) = IF s.rules[op.rule] = None THEN op
                                ELSE [op EXCEPT !.expected = s.rules[op.rule].revision]
<1>1. op.kind \in {"create profile", "create rule"} => Rebase(op, s) = op
  BY DEF Rebase
<1>2. op.kind = "update profile" =>
        Rebase(op, s) = IF s.profiles[op.profile] = None THEN op
                        ELSE [op EXCEPT !.expected = s.profiles[op.profile].revision]
  BY DEF Rebase
<1>3. op.kind = "delete profile" =>
        Rebase(op, s) = [op EXCEPT !.expected = IF s.profiles[op.profile] = None THEN @
                                                ELSE s.profiles[op.profile].revision,
                                   !.settings = s.settings,
                                   !.references = References(s, op.profile)]
  BY DEF Rebase
<1>4. op.kind = "default" => Rebase(op, s) = [op EXCEPT !.expected = s.settings]
  BY DEF Rebase
<1>5. op.kind \in {"update rule", "delete rule"} =>
        Rebase(op, s) = IF s.rules[op.rule] = None THEN op
                        ELSE [op EXCEPT !.expected = s.rules[op.rule].revision]
  BY DEF Rebase
<1> QED BY <1>1, <1>2, <1>3, <1>4, <1>5

\* A record is its fields.
LEMMA Expecting ==
    ASSUME NEW op, NEW F, op = [f \in F |-> op[f]], "expected" \in F, NEW x
    PROVE  LET o == [op EXCEPT !.expected = x]
           IN  /\ o = [f \in F |-> o[f]] /\ o.expected = x
               /\ \A f \in F \ {"expected"} : o[f] = op[f]
               /\ [o EXCEPT !.expected = x] = o
               /\ o = op => op.expected = x
<1>1. DOMAIN op = F
  OBVIOUS
<1> QED BY <1>1

\* So is one with three fields written.
LEMMA Replacing ==
    ASSUME NEW op, NEW F, op = [f \in F |-> op[f]], {"expected", "settings", "references"} \subseteq F,
           NEW x, NEW y, NEW z
    PROVE  LET o == [op EXCEPT !.expected = x, !.settings = y, !.references = z]
           IN  /\ o = [f \in F |-> o[f]] /\ o.expected = x /\ o.settings = y /\ o.references = z
               /\ \A f \in F \ {"expected", "settings", "references"} : o[f] = op[f]
               /\ [o EXCEPT !.expected = x, !.settings = y, !.references = z] = o
               /\ o = op => op.expected = x /\ op.settings = y /\ op.references = z
<1>1. DOMAIN op = F
  OBVIOUS
<1> QED BY <1>1

\* What an edit that is built on s expects.
LEMMA BuiltExpects ==
    ASSUME NEW op, Formed(op), NEW s, Built(op, s)
    PROVE  /\ op.kind = "update profile" /\ s.profiles[op.profile] # None =>
                op.expected = s.profiles[op.profile].revision
           /\ op.kind = "delete profile" =>
                /\ s.profiles[op.profile] # None => op.expected = s.profiles[op.profile].revision
                /\ op.settings = s.settings /\ op.references = References(s, op.profile)
           /\ op.kind = "default" => op.expected = s.settings
           /\ op.kind \in {"update rule", "delete rule"} /\ s.rules[op.rule] # None =>
                op.expected = s.rules[op.rule].revision
<1>0. op = [f \in Fields(op.kind) |-> op[f]] /\ Rebase(op, s) = op
  BY DEF Formed, Built
<1>1. ASSUME op.kind \in {"update profile", "update rule", "delete rule", "default"}, NEW x, [op EXCEPT !.expected = x] = op
      PROVE  op.expected = x
  <2>1. "expected" \in Fields(op.kind)
    BY <1>1 DEF Fields
  <2> QED BY <1>0, <1>1, <2>1, Expecting
<1>2. CASE op.kind = "update profile"
  <2> SUFFICES ASSUME s.profiles[op.profile] # None PROVE op.expected = s.profiles[op.profile].revision
    BY <1>2
  <2>1. Rebase(op, s) = [op EXCEPT !.expected = s.profiles[op.profile].revision]
    BY <1>2, RebaseByKind
  <2> QED BY <1>0, <1>1, <1>2, <2>1
<1>3. CASE op.kind = "delete profile"
  <2>1. {"expected", "settings", "references"} \subseteq Fields(op.kind)
    BY <1>3 DEF Fields
  <2> DEFINE x == IF s.profiles[op.profile] = None THEN op.expected ELSE s.profiles[op.profile].revision
             y == s.settings
             z == References(s, op.profile)
  <2>2. op = [op EXCEPT !.expected = x, !.settings = y, !.references = z]
    BY <1>0, <1>3, RebaseByKind
  <2>3. op.expected = x /\ op.settings = y /\ op.references = z
    <3> HIDE DEF x, y, z
    <3> QED BY <1>0, <2>1, <2>2, Replacing
  <2> QED BY <1>3, <2>3
<1>4. CASE op.kind = "default"
  <2>1. Rebase(op, s) = [op EXCEPT !.expected = s.settings]
    BY <1>4, RebaseByKind
  <2>2. op.expected = s.settings
    BY <1>0, <1>1, <1>4, <2>1
  <2> QED BY <1>4, <2>2
<1>5. CASE op.kind \in {"update rule", "delete rule"}
  <2> SUFFICES ASSUME s.rules[op.rule] # None PROVE op.expected = s.rules[op.rule].revision
    BY <1>5
  <2>1. Rebase(op, s) = [op EXCEPT !.expected = s.rules[op.rule].revision]
    BY <1>5, RebaseByKind
  <2> QED BY <1>0, <1>1, <1>5, <2>1
<1>6. CASE op.kind \in {"create profile", "create rule"}
  BY <1>6
<1> QED BY <1>2, <1>3, <1>4, <1>5, <1>6

\* A rebased edit does the same, and is built on the state.
LEMMA RebaseBuilds ==
    ASSUME NEW op, Formed(op), NEW s
    PROVE  Formed(Rebase(op, s)) /\ Built(Rebase(op, s), s) /\ Alike(Rebase(op, s), op)
<1> DEFINE o == Rebase(op, s)
<1>0. op = [f \in Fields(op.kind) |-> op[f]] /\ op.kind \in Kinds
  BY DEF Formed
<1>1. CASE o = op
  BY <1>1 DEF Built, Alike
<1>2. ASSUME op.kind \in {"update profile", "update rule", "delete rule", "default"}, NEW x,
             o = [op EXCEPT !.expected = x]
      PROVE  /\ o = [f \in Fields(op.kind) |-> o[f]] /\ Alike(o, op) /\ Formed(o)
             /\ [o EXCEPT !.expected = x] = o
  <2>1. "expected" \in Fields(op.kind) /\ "kind" \in Fields(op.kind) \ {"expected"}
    BY <1>2 DEF Fields
  <2> HIDE DEF o
  <2>2. /\ o = [f \in Fields(op.kind) |-> o[f]]
        /\ \A f \in Fields(op.kind) \ {"expected"} : o[f] = op[f]
        /\ [o EXCEPT !.expected = x] = o
    BY <1>0, <1>2, <2>1, Expecting
  <2>3. o.kind = op.kind
    BY <2>1, <2>2
  <2>4. /\ op.kind = "update profile" => o.profile = op.profile /\ o.name = op.name
        /\ op.kind = "default" => o.profile = op.profile
        /\ op.kind = "update rule" => o.rule = op.rule /\ o.target = op.target
        /\ op.kind = "delete rule" => o.rule = op.rule
    BY <2>2 DEF Fields
  <2>5. Alike(o, op)
    BY <1>2, <2>3, <2>4 DEF Alike
  <2>6. Formed(o)
    BY <1>2, <2>2, <2>3, <2>4 DEF Formed
  <2> QED BY <2>2, <2>5, <2>6
<1>3. CASE op.kind = "update profile" /\ s.profiles[op.profile] # None
  <2> DEFINE x == s.profiles[op.profile].revision
  <2>1. o = [op EXCEPT !.expected = x]
    BY <1>3, RebaseByKind
  <2>2. Alike(o, op) /\ Formed(o) /\ [o EXCEPT !.expected = x] = o
    BY <1>2, <1>3, <2>1
  <2>3. o.profile = op.profile /\ o.kind = "update profile"
    BY <1>3, <2>2 DEF Alike
  <2>4. Rebase(o, s) = [o EXCEPT !.expected = x]
    <3> HIDE DEF o
    <3>1. s.profiles[o.profile] # None
      BY <1>3, <2>3
    <3>2. Rebase(o, s) = [o EXCEPT !.expected = s.profiles[o.profile].revision]
      BY <2>3, <3>1, RebaseByKind
    <3> QED BY <2>3, <3>2
  <2> QED BY <2>2, <2>4 DEF Built
<1>4. CASE op.kind = "default"
  <2> DEFINE x == s.settings
  <2>1. o = [op EXCEPT !.expected = x]
    BY <1>4, RebaseByKind
  <2>2. Alike(o, op) /\ Formed(o) /\ [o EXCEPT !.expected = x] = o
    BY <1>2, <1>4, <2>1
  <2>3. o.kind = "default"
    BY <1>4, <2>2 DEF Alike
  <2>4. Rebase(o, s) = [o EXCEPT !.expected = x]
    <3> HIDE DEF o
    <3> QED BY <1>4, <2>3, RebaseByKind
  <2> QED BY <2>2, <2>4 DEF Built
<1>5. CASE op.kind \in {"update rule", "delete rule"} /\ s.rules[op.rule] # None
  <2> DEFINE x == s.rules[op.rule].revision
  <2>1. o = [op EXCEPT !.expected = x]
    BY <1>5, RebaseByKind
  <2>2. Alike(o, op) /\ Formed(o) /\ [o EXCEPT !.expected = x] = o
    BY <1>2, <1>5, <2>1
  <2>3. o.rule = op.rule /\ o.kind = op.kind
    BY <1>5, <2>2 DEF Alike
  <2>4. Rebase(o, s) = [o EXCEPT !.expected = x]
    <3> HIDE DEF o
    <3>1. s.rules[o.rule] # None
      BY <1>5, <2>3
    <3>2. Rebase(o, s) = [o EXCEPT !.expected = s.rules[o.rule].revision]
      BY <1>5, <2>3, <3>1, RebaseByKind
    <3> QED BY <2>3, <3>2
  <2> QED BY <2>2, <2>4 DEF Built
<1>6. CASE op.kind = "delete profile"
  <2> DEFINE x == IF s.profiles[op.profile] = None THEN op.expected ELSE s.profiles[op.profile].revision
             y == s.settings
             z == References(s, op.profile)
  <2>1. {"expected", "settings", "references"} \subseteq Fields(op.kind)
    BY <1>6 DEF Fields
  <2>2. o = [op EXCEPT !.expected = x, !.settings = y, !.references = z]
    BY <1>6, RebaseByKind
  <2>3. /\ o = [f \in Fields(op.kind) |-> o[f]] /\ o.expected = x
        /\ \A f \in Fields(op.kind) \ {"expected", "settings", "references"} : o[f] = op[f]
        /\ [o EXCEPT !.expected = x, !.settings = y, !.references = z] = o
    <3> HIDE DEF x, y, z, o
    <3> QED BY <1>0, <2>1, <2>2, Replacing
  <2>4. o.kind = op.kind /\ o.profile = op.profile /\ o.replacement = op.replacement
    <3> HIDE DEF o
    <3> QED BY <1>6, <2>3 DEF Fields
  <2>5. Alike(o, op)
    BY <1>6, <2>4 DEF Alike
  <2>6. Formed(o)
    <3> HIDE DEF o
    <3> QED BY <1>6, <2>3, <2>4 DEF Formed
  <2>7. Rebase(o, s) = o
    <3>1. Rebase(o, s) = [o EXCEPT !.expected = IF s.profiles[o.profile] = None THEN @
                                                ELSE s.profiles[o.profile].revision,
                                   !.settings = s.settings,
                                   !.references = References(s, o.profile)]
      <4> HIDE DEF o
      <4>1. o.kind = "delete profile"
        BY <1>6, <2>4
      <4> QED BY <4>1, RebaseByKind
    <3>2. x = IF s.profiles[o.profile] = None THEN o.expected ELSE s.profiles[o.profile].revision
      BY <2>3, <2>4
    <3> HIDE DEF o
    <3>3. Rebase(o, s) = [o EXCEPT !.expected = x, !.settings = y, !.references = z]
      BY <2>4, <3>1, <3>2
    <3> QED BY <2>3, <3>3
  <2> QED BY <2>5, <2>6, <2>7 DEF Built
<1>7. op.kind \in {"create profile", "create rule"} => o = op
  BY RebaseByKind
<1>8. op.kind = "update profile" /\ s.profiles[op.profile] = None => o = op
  BY RebaseByKind
<1>9. op.kind \in {"update rule", "delete rule"} /\ s.rules[op.rule] = None => o = op
  BY RebaseByKind
<1> HIDE DEF o
<1> QED BY <1>0, <1>1, <1>3, <1>4, <1>5, <1>6, <1>7, <1>8, <1>9 DEF Kinds, o

\* What each kind of edit does to a view.
LEMMA PlayByKind ==
    ASSUME NEW op, NEW v
    PROVE  /\ op.kind \in {"create profile", "update profile"} =>
                /\ \A p \in Profiles : NamesAfter(op, v)[p] = IF p = op.profile THEN {op.name} ELSE v.names[p]
                /\ \A r \in Rules : TargetsAfter(op, v)[r] = v.targets[r]
                /\ DefaultAfter(op, v) = v.default
           /\ op.kind = "delete profile" =>
                /\ \A p \in Profiles : NamesAfter(op, v)[p] = IF p = op.profile THEN {} ELSE v.names[p]
                /\ \A r \in Rules : TargetsAfter(op, v)[r] =
                      IF v.targets[r] = {op.profile} THEN {Instead(op)} ELSE v.targets[r]
                /\ DefaultAfter(op, v) = IF v.default # op.profile THEN v.default
                                         ELSE IF Instead(op) = Bypass THEN None ELSE Instead(op)
           /\ op.kind = "default" =>
                /\ \A p \in Profiles : NamesAfter(op, v)[p] = v.names[p]
                /\ \A r \in Rules : TargetsAfter(op, v)[r] = v.targets[r]
                /\ DefaultAfter(op, v) = op.profile
           /\ op.kind \in {"create rule", "update rule"} =>
                /\ \A p \in Profiles : NamesAfter(op, v)[p] = v.names[p]
                /\ \A r \in Rules : TargetsAfter(op, v)[r] = IF r = op.rule THEN {op.target} ELSE v.targets[r]
                /\ DefaultAfter(op, v) = v.default
           /\ op.kind = "delete rule" =>
                /\ \A p \in Profiles : NamesAfter(op, v)[p] = v.names[p]
                /\ \A r \in Rules : TargetsAfter(op, v)[r] = IF r = op.rule THEN {} ELSE v.targets[r]
                /\ DefaultAfter(op, v) = v.default
<1>1. CASE op.kind \in {"create profile", "update profile"}
  BY <1>1 DEF NamesAfter, TargetsAfter, DefaultAfter
<1>2. CASE op.kind = "delete profile"
  BY <1>2 DEF NamesAfter, TargetsAfter, DefaultAfter
<1>3. CASE op.kind = "default"
  BY <1>3 DEF NamesAfter, TargetsAfter, DefaultAfter
<1>4. CASE op.kind \in {"create rule", "update rule"}
  BY <1>4 DEF NamesAfter, TargetsAfter, DefaultAfter
<1>5. CASE op.kind = "delete rule"
  BY <1>5 DEF NamesAfter, TargetsAfter, DefaultAfter
<1> QED BY <1>1, <1>2, <1>3, <1>4, <1>5

\* The server takes an edit that fits and is built on its state.
LEMMA ServeTakes ==
    ASSUME NEW s, Sound(s), NEW op, Formed(op), Built(op, s), Fits(op, View(s))
    PROVE  Taken(op, s)
<1>0. op.kind \in Kinds
  BY DEF Formed
<1>1. CASE op.kind = "create profile"
  <2>1. op.profile \in Profiles /\ op.name \in Names
    BY <1>1 DEF Formed
  <2>2. View(s).names[op.profile] = {} /\ Free(View(s), op.profile, op.name)
    BY <1>1 DEF Fits
  <2>3. PICK t : /\ CreateProfile(s, op) = Unchanged(t) /\ Sound(t) /\ CreateProfile(t, op) = Unchanged(t)
                 /\ \A p \in Profiles : View(t).names[p] = IF p = op.profile THEN {op.name} ELSE View(s).names[p]
                 /\ \A r \in Rules : View(t).targets[r] = View(s).targets[r]
                 /\ View(t).default = View(s).default
    BY <2>1, <2>2, CreateProfileTaken
  <2>4. View(t) = Play(op, View(s))
    <3>2. /\ \A p \in Profiles : NamesAfter(op, View(s))[p] = IF p = op.profile THEN {op.name} ELSE View(s).names[p]
          /\ \A r \in Rules : TargetsAfter(op, View(s))[r] = View(s).targets[r]
          /\ DefaultAfter(op, View(s)) = View(s).default
      BY <1>1, PlayByKind
    <3>1. /\ \A p \in Profiles : View(t).names[p] = NamesAfter(op, View(s))[p]
          /\ \A r \in Rules : View(t).targets[r] = TargetsAfter(op, View(s))[r]
          /\ View(t).default = DefaultAfter(op, View(s))
      BY <2>3, <3>2
    <3> QED BY <3>1, ViewPlayed
  <2>5. Serve(s, op) = CreateProfile(s, op) /\ Serve(t, op) = CreateProfile(t, op)
    BY <1>1, ServeByKind
  <2> QED BY <2>3, <2>4, <2>5 DEF Taken
<1>2. CASE op.kind = "update profile"
  <2>1. op.profile \in Profiles /\ op.name \in Names
    BY <1>2 DEF Formed
  <2>2. View(s).names[op.profile] # {} /\ Free(View(s), op.profile, op.name)
    BY <1>2 DEF Fits
  <2>3. op.expected = s.profiles[op.profile].revision
    BY <1>2, <2>1, <2>2, BuiltExpects, ViewSays
  <2>4. PICK t : /\ UpdateProfile(s, op) = Unchanged(t) /\ Sound(t) /\ UpdateProfile(t, op) = Unchanged(t)
                 /\ \A p \in Profiles : View(t).names[p] = IF p = op.profile THEN {op.name} ELSE View(s).names[p]
                 /\ \A r \in Rules : View(t).targets[r] = View(s).targets[r]
                 /\ View(t).default = View(s).default
    BY <2>1, <2>2, <2>3, UpdateProfileTaken
  <2>5. View(t) = Play(op, View(s))
    <3>2. /\ \A p \in Profiles : NamesAfter(op, View(s))[p] = IF p = op.profile THEN {op.name} ELSE View(s).names[p]
          /\ \A r \in Rules : TargetsAfter(op, View(s))[r] = View(s).targets[r]
          /\ DefaultAfter(op, View(s)) = View(s).default
      BY <1>2, PlayByKind
    <3>1. /\ \A p \in Profiles : View(t).names[p] = NamesAfter(op, View(s))[p]
          /\ \A r \in Rules : View(t).targets[r] = TargetsAfter(op, View(s))[r]
          /\ View(t).default = DefaultAfter(op, View(s))
      BY <2>4, <3>2
    <3> QED BY <3>1, ViewPlayed
  <2>6. Serve(s, op) = UpdateProfile(s, op) /\ Serve(t, op) = UpdateProfile(t, op)
    BY <1>2, ServeByKind
  <2> QED BY <2>4, <2>5, <2>6 DEF Taken
<1>3. CASE op.kind = "delete profile"
  <2>1. op.profile \in Profiles /\ op.replacement \in Profiles \cup {Bypass, None}
    BY <1>3 DEF Formed
  <2>2. /\ View(s).names[op.profile] # {} /\ There(View(s), op.replacement) /\ op.replacement # op.profile
        /\ op.replacement = None => s.default # op.profile /\ \A r \in Rules : View(s).targets[r] # {op.profile}
    <3>1. View(s).default = s.default
      BY ViewFacts
    <3> QED BY <1>3, <3>1 DEF Fits
  <2>3. /\ op.expected = s.profiles[op.profile].revision
        /\ op.settings = s.settings /\ op.references = References(s, op.profile)
    <3>1. s.profiles[op.profile] # None
      BY <2>1, <2>2, ViewSays
    <3> QED BY <1>3, <3>1, BuiltExpects
  <2>4. PICK t : /\ DeleteProfile(s, op) = Unchanged(t) /\ Sound(t) /\ DeleteProfile(t, op) = Unchanged(t)
                 /\ \A p \in Profiles : View(t).names[p] = IF p = op.profile THEN {} ELSE View(s).names[p]
                 /\ \A r \in Rules : View(t).targets[r] =
                       IF View(s).targets[r] = {op.profile} THEN {Instead(op)} ELSE View(s).targets[r]
                 /\ View(t).default = IF s.default # op.profile THEN s.default
                                      ELSE IF Instead(op) = Bypass THEN None ELSE Instead(op)
    BY <2>1, <2>2, <2>3, DeleteProfileTaken
  <2>5. View(t) = Play(op, View(s))
    <3>0. View(s).default = s.default
      BY ViewFacts
    <3>2. /\ \A p \in Profiles : NamesAfter(op, View(s))[p] = IF p = op.profile THEN {} ELSE View(s).names[p]
          /\ \A r \in Rules : TargetsAfter(op, View(s))[r] = IF View(s).targets[r] = {op.profile} THEN {Instead(op)} ELSE View(s).targets[r]
          /\ DefaultAfter(op, View(s)) = IF View(s).default # op.profile THEN View(s).default
                                       ELSE IF Instead(op) = Bypass THEN None ELSE Instead(op)
      BY <1>3, PlayByKind
    <3>1. /\ \A p \in Profiles : View(t).names[p] = NamesAfter(op, View(s))[p]
          /\ \A r \in Rules : View(t).targets[r] = TargetsAfter(op, View(s))[r]
          /\ View(t).default = DefaultAfter(op, View(s))
      BY <2>4, <3>0, <3>2
    <3> QED BY <3>1, ViewPlayed
  <2>6. Serve(s, op) = DeleteProfile(s, op) /\ Serve(t, op) = DeleteProfile(t, op)
    BY <1>3, ServeByKind
  <2> QED BY <2>4, <2>5, <2>6 DEF Taken
<1>4. CASE op.kind = "default"
  <2>1. op.profile \in Profiles \cup {None} /\ There(View(s), op.profile)
    BY <1>4 DEF Formed, Fits
  <2>2. op.expected = s.settings
    BY <1>4, BuiltExpects
  <2>3. PICK t : /\ UpdateSettings(s, op) = Unchanged(t) /\ Sound(t) /\ UpdateSettings(t, op) = Unchanged(t)
                 /\ \A p \in Profiles : View(t).names[p] = View(s).names[p]
                 /\ \A r \in Rules : View(t).targets[r] = View(s).targets[r]
                 /\ View(t).default = op.profile
    BY <2>1, <2>2, UpdateSettingsTaken
  <2>4. View(t) = Play(op, View(s))
    <3>2. /\ \A p \in Profiles : NamesAfter(op, View(s))[p] = View(s).names[p]
          /\ \A r \in Rules : TargetsAfter(op, View(s))[r] = View(s).targets[r]
          /\ DefaultAfter(op, View(s)) = op.profile
      BY <1>4, PlayByKind
    <3>1. /\ \A p \in Profiles : View(t).names[p] = NamesAfter(op, View(s))[p]
          /\ \A r \in Rules : View(t).targets[r] = TargetsAfter(op, View(s))[r]
          /\ View(t).default = DefaultAfter(op, View(s))
      BY <2>3, <3>2
    <3> QED BY <3>1, ViewPlayed
  <2>5. Serve(s, op) = UpdateSettings(s, op) /\ Serve(t, op) = UpdateSettings(t, op)
    BY <1>4, ServeByKind
  <2> QED BY <2>3, <2>4, <2>5 DEF Taken
<1>5. CASE op.kind = "create rule"
  <2>1. op.rule \in Rules /\ op.target \in Targets
    BY <1>5 DEF Formed
  <2>2. View(s).targets[op.rule] = {} /\ There(View(s), op.target)
    BY <1>5 DEF Fits
  <2>3. PICK t : /\ CreateRule(s, op) = Unchanged(t) /\ Sound(t) /\ CreateRule(t, op) = Unchanged(t)
                 /\ \A p \in Profiles : View(t).names[p] = View(s).names[p]
                 /\ \A r \in Rules : View(t).targets[r] = IF r = op.rule THEN {op.target} ELSE View(s).targets[r]
                 /\ View(t).default = View(s).default
    BY <2>1, <2>2, CreateRuleTaken
  <2>4. View(t) = Play(op, View(s))
    <3>2. /\ \A p \in Profiles : NamesAfter(op, View(s))[p] = View(s).names[p]
          /\ \A r \in Rules : TargetsAfter(op, View(s))[r] = IF r = op.rule THEN {op.target} ELSE View(s).targets[r]
          /\ DefaultAfter(op, View(s)) = View(s).default
      BY <1>5, PlayByKind
    <3>1. /\ \A p \in Profiles : View(t).names[p] = NamesAfter(op, View(s))[p]
          /\ \A r \in Rules : View(t).targets[r] = TargetsAfter(op, View(s))[r]
          /\ View(t).default = DefaultAfter(op, View(s))
      BY <2>3, <3>2
    <3> QED BY <3>1, ViewPlayed
  <2>5. Serve(s, op) = CreateRule(s, op) /\ Serve(t, op) = CreateRule(t, op)
    BY <1>5, ServeByKind
  <2> QED BY <2>3, <2>4, <2>5 DEF Taken
<1>6. CASE op.kind = "update rule"
  <2>1. op.rule \in Rules /\ op.target \in Targets
    BY <1>6 DEF Formed
  <2>2. View(s).targets[op.rule] # {} /\ There(View(s), op.target)
    BY <1>6 DEF Fits
  <2>3. op.expected = s.rules[op.rule].revision
    BY <1>6, <2>1, <2>2, BuiltExpects, ViewSays
  <2>4. PICK t : /\ UpdateRule(s, op) = Unchanged(t) /\ Sound(t) /\ UpdateRule(t, op) = Unchanged(t)
                 /\ \A p \in Profiles : View(t).names[p] = View(s).names[p]
                 /\ \A r \in Rules : View(t).targets[r] = IF r = op.rule THEN {op.target} ELSE View(s).targets[r]
                 /\ View(t).default = View(s).default
    BY <2>1, <2>2, <2>3, UpdateRuleTaken
  <2>5. View(t) = Play(op, View(s))
    <3>2. /\ \A p \in Profiles : NamesAfter(op, View(s))[p] = View(s).names[p]
          /\ \A r \in Rules : TargetsAfter(op, View(s))[r] = IF r = op.rule THEN {op.target} ELSE View(s).targets[r]
          /\ DefaultAfter(op, View(s)) = View(s).default
      BY <1>6, PlayByKind
    <3>1. /\ \A p \in Profiles : View(t).names[p] = NamesAfter(op, View(s))[p]
          /\ \A r \in Rules : View(t).targets[r] = TargetsAfter(op, View(s))[r]
          /\ View(t).default = DefaultAfter(op, View(s))
      BY <2>4, <3>2
    <3> QED BY <3>1, ViewPlayed
  <2>6. Serve(s, op) = UpdateRule(s, op) /\ Serve(t, op) = UpdateRule(t, op)
    BY <1>6, ServeByKind
  <2> QED BY <2>4, <2>5, <2>6 DEF Taken
<1>7. CASE op.kind = "delete rule"
  <2>1. op.rule \in Rules
    BY <1>7 DEF Formed
  <2>2. View(s).targets[op.rule] # {}
    BY <1>7 DEF Fits
  <2>3. op.expected = s.rules[op.rule].revision
    BY <1>7, <2>1, <2>2, BuiltExpects, ViewSays
  <2>4. PICK t : /\ DeleteRule(s, op) = Unchanged(t) /\ Sound(t) /\ DeleteRule(t, op) = Unchanged(t)
                 /\ \A p \in Profiles : View(t).names[p] = View(s).names[p]
                 /\ \A r \in Rules : View(t).targets[r] = IF r = op.rule THEN {} ELSE View(s).targets[r]
                 /\ View(t).default = View(s).default
    BY <2>1, <2>2, <2>3, DeleteRuleTaken
  <2>5. View(t) = Play(op, View(s))
    <3>2. /\ \A p \in Profiles : NamesAfter(op, View(s))[p] = View(s).names[p]
          /\ \A r \in Rules : TargetsAfter(op, View(s))[r] = IF r = op.rule THEN {} ELSE View(s).targets[r]
          /\ DefaultAfter(op, View(s)) = View(s).default
      BY <1>7, PlayByKind
    <3>1. /\ \A p \in Profiles : View(t).names[p] = NamesAfter(op, View(s))[p]
          /\ \A r \in Rules : View(t).targets[r] = TargetsAfter(op, View(s))[r]
          /\ View(t).default = DefaultAfter(op, View(s))
      BY <2>4, <3>2
    <3> QED BY <3>1, ViewPlayed
  <2>6. Serve(s, op) = DeleteRule(s, op) /\ Serve(t, op) = DeleteRule(t, op)
    BY <1>7, ServeByKind
  <2> QED BY <2>4, <2>5, <2>6 DEF Taken
<1> QED BY <1>0, <1>1, <1>2, <1>3, <1>4, <1>5, <1>6, <1>7 DEF Kinds

(* What the user sees *)

\* What the user may see, with or without queued edits.
Shown(s) ==
    /\ s \in ShownState
    /\ \E k \in Int : \A r \in Present(s.rules) : k <= s.rules[r].priority

\* The server's own state can be shown.
LEMMA SoundShown ==
    ASSUME NEW s, Sound(s)
    PROVE  Shown(s)
<1>1. s \in State /\ Low(s)
  BY DEF Sound
<1>2. ProfileRow \subseteq ShownProfile /\ RuleRow \subseteq ShownRule
  BY DEF ProfileRow, RuleRow, ShownProfile, ShownRule
<1>3. s \in ShownState
  BY <1>1, <1>2 DEF State, ShownState
<1>4. s.revision \in Nat /\ -s.revision \in Int
  BY <1>1 DEF State
<1> QED BY <1>1, <1>3, <1>4 DEF Shown, Low

\* The bottom of the order the user sees is an integer.
LEMMA ShownBottom ==
    ASSUME NEW s, Shown(s)
    PROVE  /\ BottomPriority(s) \in Int
           /\ \E k \in Int : k <= BottomPriority(s) /\ \A r \in Present(s.rules) : k <= s.rules[r].priority
<1> DEFINE S == {s.rules[r].priority : r \in Present(s.rules)}
<1>0. s.rules \in [Rules -> ShownRule \cup {None}]
  BY DEF Shown, ShownState
<1>1. \A r \in Present(s.rules) : s.rules[r].priority \in Int
  BY <1>0 DEF Present, ShownRule
<1>2. PICK b \in Int : \A r \in Present(s.rules) : b <= s.rules[r].priority
  BY DEF Shown
<1>3. CASE Present(s.rules) = {}
  BY <1>3 DEF BottomPriority
<1>4. CASE Present(s.rules) # {}
  <2>1. S \in SUBSET Int /\ S # {}
    BY <1>1, <1>4
  <2>2. \A n \in S : b <= n
    BY <1>2
  <2>3. \E m \in S : \A n \in S : m <= n
    <3> HIDE DEF S
    <3> QED BY <2>1, <2>2, LeastInteger
  <2> DEFINE m == CHOOSE n \in S : \A r \in Present(s.rules) : n <= s.rules[r].priority
  <2>4. m \in S /\ \A r \in Present(s.rules) : m <= s.rules[r].priority
    BY <2>3
  <2>5. m \in Int
    BY <2>1, <2>4
  <2>6. BottomPriority(s) = m - 1
    BY <1>4 DEF BottomPriority
  <2> HIDE DEF m
  <2>7. m - 1 \in Int /\ \A r \in Present(s.rules) : m - 1 <= s.rules[r].priority
    BY <1>1, <2>4, <2>5
  <2> QED BY <2>6, <2>7
<1> QED BY <1>3, <1>4

\* What each kind of edit does to the state the user sees.
LEMMA MaterializeByKind ==
    ASSUME NEW op, NEW s, Shown(s)
    PROVE  /\ op.kind = "create profile" =>
                Materialize(op, s) = IF s.profiles[op.profile] # None THEN s
                     ELSE [s EXCEPT !.profiles[op.profile] = [name |-> op.name, revision |-> 0]]
           /\ op.kind = "update profile" =>
                Materialize(op, s) = IF s.profiles[op.profile] = None THEN None
                     ELSE [s EXCEPT !.profiles[op.profile].name = op.name]
           /\ op.kind = "delete profile" =>
                Materialize(op, s) =
                  [s EXCEPT !.profiles[op.profile] = None,
                       !.rules = [r \in Rules |->
                          IF s.rules[r] # None /\ s.rules[r].target = op.profile
                          THEN [s.rules[r] EXCEPT !.target = Instead(op)] ELSE s.rules[r]],
                       !.default = IF @ # op.profile THEN @
                                   ELSE IF Instead(op) = Bypass THEN None ELSE Instead(op)]
           /\ op.kind = "default" => Materialize(op, s) = [s EXCEPT !.default = op.profile]
           /\ op.kind = "create rule" =>
                Materialize(op, s) = IF s.rules[op.rule] # None THEN s
                     ELSE [s EXCEPT !.rules[op.rule] =
                             [target |-> op.target, priority |-> BottomPriority(s), revision |-> 0]]
           /\ op.kind = "update rule" =>
                Materialize(op, s) = IF s.rules[op.rule] = None THEN None
                     ELSE [s EXCEPT !.rules[op.rule].target = op.target]
           /\ op.kind = "delete rule" => Materialize(op, s) = [s EXCEPT !.rules[op.rule] = None]
<1>0. s # None
  BY SyncAssumption DEF Shown
<1>1. op.kind = "create profile" =>
                Materialize(op, s) = IF s.profiles[op.profile] # None THEN s
                     ELSE [s EXCEPT !.profiles[op.profile] = [name |-> op.name, revision |-> 0]]
  BY <1>0 DEF Materialize
<1>2. op.kind = "update profile" =>
                Materialize(op, s) = IF s.profiles[op.profile] = None THEN None
                     ELSE [s EXCEPT !.profiles[op.profile].name = op.name]
  BY <1>0 DEF Materialize
<1>3. op.kind = "delete profile" =>
                Materialize(op, s) =
                  [s EXCEPT !.profiles[op.profile] = None,
                       !.rules = [r \in Rules |->
                          IF s.rules[r] # None /\ s.rules[r].target = op.profile
                          THEN [s.rules[r] EXCEPT !.target = Instead(op)] ELSE s.rules[r]],
                       !.default = IF @ # op.profile THEN @
                                   ELSE IF Instead(op) = Bypass THEN None ELSE Instead(op)]
  BY <1>0 DEF Materialize, Instead
<1>4. op.kind = "default" => Materialize(op, s) = [s EXCEPT !.default = op.profile]
  BY <1>0 DEF Materialize
<1>5. op.kind = "create rule" =>
                Materialize(op, s) = IF s.rules[op.rule] # None THEN s
                     ELSE [s EXCEPT !.rules[op.rule] =
                             [target |-> op.target, priority |-> BottomPriority(s), revision |-> 0]]
  BY <1>0 DEF Materialize
<1>6. op.kind = "update rule" =>
                Materialize(op, s) = IF s.rules[op.rule] = None THEN None
                     ELSE [s EXCEPT !.rules[op.rule].target = op.target]
  BY <1>0 DEF Materialize
<1>7. op.kind = "delete rule" => Materialize(op, s) = [s EXCEPT !.rules[op.rule] = None]
  BY <1>0 DEF Materialize
<1> QED BY <1>1, <1>2, <1>3, <1>4, <1>5, <1>6, <1>7

\* What an edit leaves of a view.
Seen(t, op, s) == Shown(t) /\ View(t) = Play(op, View(s))

\* A state with another row, or without a profile.
WithProfile(s, p, row) == [s EXCEPT !.profiles[p] = row]
WithRule(s, r, row) == [s EXCEPT !.rules[r] = row]
WithoutProfile(s, p, x) ==
    [s EXCEPT !.profiles[p] = None,
              !.rules = [r \in Rules |->
                 IF s.rules[r] # None /\ s.rules[r].target = p
                 THEN [s.rules[r] EXCEPT !.target = x] ELSE s.rules[r]],
              !.default = IF @ # p THEN @ ELSE IF x = Bypass THEN None ELSE x]

\* t shows p with the name n, or r with the target x, or no p but x, instead of s.
NamesOne(t, s, p, n) ==
    /\ Shown(t)
    /\ \A q \in Profiles : View(t).names[q] = IF q = p THEN {n} ELSE View(s).names[q]
    /\ \A r \in Rules : View(t).targets[r] = View(s).targets[r]
    /\ View(t).default = View(s).default
TargetsOne(t, s, r, x) ==
    /\ Shown(t)
    /\ \A p \in Profiles : View(t).names[p] = View(s).names[p]
    /\ \A q \in Rules : View(t).targets[q] = IF q = r THEN {x} ELSE View(s).targets[q]
    /\ View(t).default = View(s).default
LacksOne(t, s, p, x) ==
    /\ Shown(t)
    /\ \A q \in Profiles : View(t).names[q] = IF q = p THEN {} ELSE View(s).names[q]
    /\ \A r \in Rules : View(t).targets[r] =
          IF View(s).targets[r] = {p} THEN {x} ELSE View(s).targets[r]
    /\ View(t).default = IF View(s).default # p THEN View(s).default
                         ELSE IF x = Bypass THEN None ELSE x

\* A profile that is written is shown, and nothing else changes.
LEMMA ProfileShown ==
    ASSUME NEW s, Shown(s), NEW p, p \in Profiles, NEW row, row \in ShownProfile,
           NEW t, t = WithProfile(s, p, row)
    PROVE  NamesOne(t, s, p, row.name)
<1> DEFINE u == [profiles |-> [s.profiles EXCEPT ![p] = row], rules |-> s.rules,
                 default |-> s.default, settings |-> s.settings, revision |-> s.revision]
<1>0. s \in ShownState
  BY DEF Shown
<1>1. WithProfile(s, p, row) = u
  BY <1>0 DEF ShownState, WithProfile
<1>2. u \in ShownState
  BY <1>0 DEF ShownState
<1>3. u.rules = s.rules /\ u.default = s.default
  OBVIOUS
<1>4. /\ u.profiles[p] = row /\ \A q \in Profiles \ {p} : u.profiles[q] = s.profiles[q]
  BY <1>0 DEF ShownState
<1> HIDE DEF u
<1>5. Shown(u)
  BY <1>2, <1>3 DEF Shown
<1>6. row # None
  BY SyncAssumption
<1>7. ASSUME NEW q \in Profiles
      PROVE  View(u).names[q] = IF q = p THEN {row.name} ELSE View(s).names[q]
  <2>1. CASE q = p
    BY <1>4, <1>6, <2>1, ViewOf
  <2>2. CASE q # p
    <3>1. u.profiles[q] = s.profiles[q]
      BY <1>4, <2>2
    <3> QED BY <2>2, <3>1, ViewOf
  <2> QED BY <2>1, <2>2
<1>8. View(u).default = View(s).default /\ \A r \in Rules : View(u).targets[r] = View(s).targets[r]
  BY <1>3, ViewOf
<1> QED BY <1>1, <1>5, <1>7, <1>8 DEF NamesOne

\* So is a rule.
LEMMA RuleShown ==
    ASSUME NEW s, Shown(s), NEW r, r \in Rules, NEW row, row \in ShownRule,
           \E k \in Int : k <= row.priority /\ \A q \in Present(s.rules) : k <= s.rules[q].priority,
           NEW t, t = WithRule(s, r, row)
    PROVE  TargetsOne(t, s, r, row.target)
<1> DEFINE u == [profiles |-> s.profiles, rules |-> [s.rules EXCEPT ![r] = row],
                 default |-> s.default, settings |-> s.settings, revision |-> s.revision]
<1>0. s \in ShownState
  BY DEF Shown
<1>1. WithRule(s, r, row) = u
  BY <1>0 DEF ShownState, WithRule
<1>2. u \in ShownState
  BY <1>0 DEF ShownState
<1>3. u.profiles = s.profiles /\ u.default = s.default
  OBVIOUS
<1>4. /\ u.rules[r] = row /\ \A q \in Rules \ {r} : u.rules[q] = s.rules[q]
      /\ DOMAIN u.rules = Rules /\ DOMAIN s.rules = Rules
  BY <1>0 DEF ShownState
<1> HIDE DEF u
<1>6. row # None
  BY SyncAssumption
<1>5. Shown(u)
  <2>1. PICK k \in Int : k <= row.priority /\ \A q \in Present(s.rules) : k <= s.rules[q].priority
    OBVIOUS
  <2>2. \A q \in Present(u.rules) : k <= u.rules[q].priority
    BY <1>4, <2>1 DEF Present
  <2> QED BY <1>2, <2>2 DEF Shown
<1>7. ASSUME NEW q \in Rules
      PROVE  View(u).targets[q] = IF q = r THEN {row.target} ELSE View(s).targets[q]
  <2>1. CASE q = r
    BY <1>4, <1>6, <2>1, ViewOf
  <2>2. CASE q # r
    <3>1. u.rules[q] = s.rules[q]
      BY <1>4, <2>2
    <3> QED BY <2>2, <3>1, ViewOf
  <2> QED BY <2>1, <2>2
<1>8. View(u).default = View(s).default /\ \A p \in Profiles : View(u).names[p] = View(s).names[p]
  BY <1>3, ViewOf
<1> QED BY <1>1, <1>5, <1>7, <1>8 DEF TargetsOne

\* A rule that is deleted is gone from the view.
LEMMA RuleUnshown ==
    ASSUME NEW s, Shown(s), NEW r, r \in Rules,
           NEW t, t = [s EXCEPT !.rules[r] = None]
    PROVE  /\ Shown(t)
           /\ \A p \in Profiles : View(t).names[p] = View(s).names[p]
           /\ \A q \in Rules : View(t).targets[q] = IF q = r THEN {} ELSE View(s).targets[q]
           /\ View(t).default = View(s).default
<1> DEFINE u == [profiles |-> s.profiles, rules |-> [s.rules EXCEPT ![r] = None],
                 default |-> s.default, settings |-> s.settings, revision |-> s.revision]
<1>0. s \in ShownState
  BY DEF Shown
<1>1. [s EXCEPT !.rules[r] = None] = u
  BY <1>0 DEF ShownState
<1>2. u \in ShownState
  BY <1>0 DEF ShownState
<1>3. u.profiles = s.profiles /\ u.default = s.default
  OBVIOUS
<1>4. /\ u.rules[r] = None /\ \A q \in Rules \ {r} : u.rules[q] = s.rules[q]
      /\ DOMAIN u.rules = Rules /\ DOMAIN s.rules = Rules
  BY <1>0 DEF ShownState
<1> HIDE DEF u
<1>5. Shown(u)
  <2>1. PICK k \in Int : \A q \in Present(s.rules) : k <= s.rules[q].priority
    BY DEF Shown
  <2>2. \A q \in Present(u.rules) : k <= u.rules[q].priority
    BY <1>4, <2>1 DEF Present
  <2> QED BY <1>2, <2>2 DEF Shown
<1>7. ASSUME NEW q \in Rules
      PROVE  View(u).targets[q] = IF q = r THEN {} ELSE View(s).targets[q]
  <2>1. CASE q = r
    BY <1>4, <2>1, ViewOf
  <2>2. CASE q # r
    <3>1. u.rules[q] = s.rules[q]
      BY <1>4, <2>2
    <3> QED BY <2>2, <3>1, ViewOf
  <2> QED BY <2>1, <2>2
<1>8. View(u).default = View(s).default /\ \A p \in Profiles : View(u).names[p] = View(s).names[p]
  BY <1>3, ViewOf
<1> QED BY <1>1, <1>5, <1>7, <1>8

\* A default that is chosen is shown.
LEMMA DefaultShown ==
    ASSUME NEW s, Shown(s), NEW p, p \in Profiles \cup {None},
           NEW t, t = [s EXCEPT !.default = p]
    PROVE  /\ Shown(t)
           /\ \A q \in Profiles : View(t).names[q] = View(s).names[q]
           /\ \A r \in Rules : View(t).targets[r] = View(s).targets[r]
           /\ View(t).default = p
<1> DEFINE u == [profiles |-> s.profiles, rules |-> s.rules,
                 default |-> p, settings |-> s.settings, revision |-> s.revision]
<1>0. s \in ShownState
  BY DEF Shown
<1>1. [s EXCEPT !.default = p] = u
  BY <1>0 DEF ShownState
<1>2. u \in ShownState
  BY <1>0 DEF ShownState
<1>3. u.profiles = s.profiles /\ u.rules = s.rules /\ u.default = p
  OBVIOUS
<1> HIDE DEF u
<1>5. Shown(u)
  BY <1>2, <1>3 DEF Shown
<1>8. /\ View(u).default = p /\ \A q \in Profiles : View(u).names[q] = View(s).names[q]
      /\ \A r \in Rules : View(u).targets[r] = View(s).targets[r]
  <2>1. View(u).default = u.default
    BY ViewFacts
  <2> QED BY <1>3, <2>1, ViewOf
<1> QED BY <1>1, <1>5, <1>8

\* A profile that is deleted is gone, and what selected it selects the replacement.
LEMMA ProfileUnshown ==
    ASSUME NEW s, Shown(s), NEW p, p \in Profiles, NEW x, x \in Targets,
           NEW t, t = WithoutProfile(s, p, x)
    PROVE  LacksOne(t, s, p, x)
<1> DEFINE rules == [r \in Rules |->
                          IF s.rules[r] # None /\ s.rules[r].target = p
                          THEN [s.rules[r] EXCEPT !.target = x] ELSE s.rules[r]]
           def == IF s.default # p THEN s.default
                  ELSE IF x = Bypass THEN None ELSE x
           u == [profiles |-> [s.profiles EXCEPT ![p] = None], rules |-> rules,
                 default |-> def, settings |-> s.settings, revision |-> s.revision]
<1>0. s \in ShownState
  BY DEF Shown
<1>1. WithoutProfile(s, p, x) = u
  <2>1. WithoutProfile(s, p, x) = [s EXCEPT !.profiles[p] = None, !.rules = rules, !.default = def]
    BY <1>0 DEF WithoutProfile, ShownState
  <2> HIDE DEF rules, def
  <2> QED BY <1>0, <2>1 DEF ShownState
<1>b. ASSUME NEW r \in Rules
      PROVE  /\ rules[r] \in ShownRule \cup {None}
             /\ s.rules[r] = None => rules[r] = None
             /\ s.rules[r] # None =>
                  /\ rules[r] # None /\ rules[r].priority = s.rules[r].priority
                  /\ rules[r].target = IF s.rules[r].target = p THEN x ELSE s.rules[r].target
  <2>1. s.rules[r] \in ShownRule \cup {None}
    BY <1>0 DEF ShownState
  <2>2. CASE s.rules[r] # None /\ s.rules[r].target = p
    <3>0. rules[r] = [s.rules[r] EXCEPT !.target = x]
      BY <2>2
    <3> HIDE DEF rules
    <3>1. rules[r] \in ShownRule /\ rules[r].target = x /\ rules[r].priority = s.rules[r].priority
      BY <2>1, <2>2, <3>0 DEF ShownRule
    <3>2. rules[r] # None
      BY <3>1, SyncAssumption
    <3> QED BY <2>2, <3>1, <3>2
  <2>3. CASE ~(s.rules[r] # None /\ s.rules[r].target = p)
    BY <2>1, <2>3
  <2> QED BY <2>2, <2>3
<1>c. rules \in [Rules -> ShownRule \cup {None}]
  BY <1>b
<1>d. def \in Profiles \cup {None}
  BY <1>0 DEF ShownState, Targets
<1> HIDE DEF def
<1>2. u \in ShownState
  <2> HIDE DEF rules
  <2> QED BY <1>0, <1>c, <1>d DEF ShownState
<1>3. u.rules = rules /\ u.default = def
  OBVIOUS
<1>4. u.profiles[p] = None /\ \A q \in Profiles \ {p} : u.profiles[q] = s.profiles[q]
  BY <1>0 DEF ShownState
<1>e. DOMAIN rules = Rules /\ DOMAIN s.rules = Rules
  BY <1>0 DEF ShownState
<1> HIDE DEF rules, u
<1>5. Shown(u)
  <2>1. PICK k \in Int : \A q \in Present(s.rules) : k <= s.rules[q].priority
    BY DEF Shown
  <2>2. \A q \in Present(u.rules) : k <= u.rules[q].priority
    BY <1>3, <1>b, <1>e, <2>1 DEF Present
  <2> QED BY <1>2, <2>2 DEF Shown
<1>6. ASSUME NEW q \in Profiles
      PROVE  View(u).names[q] = IF q = p THEN {} ELSE View(s).names[q]
  <2>1. CASE q = p
    BY <1>4, <2>1, ViewOf
  <2>2. CASE q # p
    <3>1. u.profiles[q] = s.profiles[q]
      BY <1>4, <2>2
    <3> QED BY <2>2, <3>1, ViewOf
  <2> QED BY <2>1, <2>2
<1>7. ASSUME NEW r \in Rules
      PROVE  View(u).targets[r] = IF View(s).targets[r] = {p} THEN {x} ELSE View(s).targets[r]
  <2>1. View(s).targets[r] = {p} <=> s.rules[r] # None /\ s.rules[r].target = p
    BY ViewSays
  <2>2. /\ View(u).targets[r] = IF u.rules[r] = None THEN {} ELSE {u.rules[r].target}
        /\ View(s).targets[r] = IF s.rules[r] = None THEN {} ELSE {s.rules[r].target}
    BY ViewFacts
  <2> QED BY <1>3, <1>b, <2>1, <2>2
<1>8. View(u).default = def /\ View(s).default = s.default
  BY <1>3, ViewFacts
<1> QED BY <1>1, <1>5, <1>6, <1>7, <1>8 DEF def, rules, LacksOne

\* What the user sees of an edit that fits is what it does.
LEMMA MaterializePlays ==
    ASSUME NEW s, Shown(s), NEW op, Formed(op), Fits(op, View(s))
    PROVE  Seen(Materialize(op, s), op, s)
<1>t. PICK t : t = Materialize(op, s)
  OBVIOUS
<1>0. op.kind \in Kinds /\ s \in ShownState
  BY DEF Formed, Shown
<1>1. CASE op.kind = "create profile"
  <2>1. op.profile \in Profiles /\ op.name \in Names
    BY <1>1 DEF Formed
  <2>2. s.profiles[op.profile] = None
    <3>1. View(s).names[op.profile] = {}
      BY <1>1 DEF Fits
    <3> QED BY <2>1, <3>1, ViewSays
  <2>r. PICK row : row = [name |-> op.name, revision |-> 0]
    OBVIOUS
  <2>3. row \in ShownProfile /\ op.name = row.name
    BY <2>1, <2>r DEF ShownProfile
  <2>4. t = WithProfile(s, op.profile, row)
    BY <1>1, <2>2, <1>t, <2>r, MaterializeByKind DEF WithProfile
  <2>7. /\ Shown(t)
        /\ \A q \in Profiles : View(t).names[q] = IF q = op.profile THEN {op.name} ELSE View(s).names[q]
        /\ \A r \in Rules : View(t).targets[r] = View(s).targets[r]
        /\ View(t).default = View(s).default
    <3>1. NamesOne(t, s, op.profile, op.name)
      BY <2>1, <2>3, <2>4, ProfileShown
    <3> QED BY <3>1 DEF NamesOne
  <2>8. /\ \A q \in Profiles : NamesAfter(op, View(s))[q] = IF q = op.profile THEN {op.name} ELSE View(s).names[q]
        /\ \A r \in Rules : TargetsAfter(op, View(s))[r] = View(s).targets[r]
        /\ DefaultAfter(op, View(s)) = View(s).default
    BY <1>1, PlayByKind
  <2> QED BY <1>t, <2>7, <2>8, ViewPlayed DEF Seen
<1>2. CASE op.kind = "update profile"
  <2>1. op.profile \in Profiles /\ op.name \in Names
    BY <1>2 DEF Formed
  <2>2. s.profiles[op.profile] # None
    <3>1. View(s).names[op.profile] # {}
      BY <1>2 DEF Fits
    <3> QED BY <2>1, <3>1, ViewSays
  <2>r. PICK row : row = [s.profiles[op.profile] EXCEPT !.name = op.name]
    OBVIOUS
  <2>3. row \in ShownProfile /\ op.name = row.name
    <3>1. s.profiles[op.profile] \in ShownProfile
      BY <1>0, <2>1, <2>2 DEF ShownState
    <3> QED BY <2>1, <2>r, <3>1 DEF ShownProfile
  <2>4. t = WithProfile(s, op.profile, row)
    <3>1. t = [s EXCEPT !.profiles[op.profile].name = op.name]
      BY <1>2, <2>2, <1>t, MaterializeByKind
    <3>2. [s EXCEPT !.profiles[op.profile].name = op.name] = WithProfile(s, op.profile, row)
      BY <1>0, <2>1, <2>r DEF ShownState, WithProfile
    <3> QED BY <3>1, <3>2
  <2>7. /\ Shown(t)
        /\ \A q \in Profiles : View(t).names[q] = IF q = op.profile THEN {op.name} ELSE View(s).names[q]
        /\ \A r \in Rules : View(t).targets[r] = View(s).targets[r]
        /\ View(t).default = View(s).default
    <3>1. NamesOne(t, s, op.profile, op.name)
      BY <2>1, <2>3, <2>4, ProfileShown
    <3> QED BY <3>1 DEF NamesOne
  <2>8. /\ \A q \in Profiles : NamesAfter(op, View(s))[q] = IF q = op.profile THEN {op.name} ELSE View(s).names[q]
        /\ \A r \in Rules : TargetsAfter(op, View(s))[r] = View(s).targets[r]
        /\ DefaultAfter(op, View(s)) = View(s).default
    BY <1>2, PlayByKind
  <2> QED BY <1>t, <2>7, <2>8, ViewPlayed DEF Seen
<1>3. CASE op.kind = "delete profile"
  <2>1. op.profile \in Profiles /\ Instead(op) \in Targets
    BY <1>3 DEF Formed, Instead, Targets
  <2>4. t = WithoutProfile(s, op.profile, Instead(op))
    BY <1>3, <1>t, MaterializeByKind DEF WithoutProfile
  <2>7. /\ Shown(t)
        /\ \A q \in Profiles : View(t).names[q] = IF q = op.profile THEN {} ELSE View(s).names[q]
        /\ \A r \in Rules : View(t).targets[r] = IF View(s).targets[r] = {op.profile} THEN {Instead(op)} ELSE View(s).targets[r]
        /\ View(t).default = IF View(s).default # op.profile THEN View(s).default
                              ELSE IF Instead(op) = Bypass THEN None ELSE Instead(op)
    <3>1. LacksOne(t, s, op.profile, Instead(op))
      BY <2>1, <2>4, ProfileUnshown
    <3> QED BY <3>1 DEF LacksOne
  <2>8. /\ \A q \in Profiles : NamesAfter(op, View(s))[q] = IF q = op.profile THEN {} ELSE View(s).names[q]
        /\ \A r \in Rules : TargetsAfter(op, View(s))[r] = IF View(s).targets[r] = {op.profile} THEN {Instead(op)} ELSE View(s).targets[r]
        /\ DefaultAfter(op, View(s)) = IF View(s).default # op.profile THEN View(s).default
                                       ELSE IF Instead(op) = Bypass THEN None ELSE Instead(op)
    BY <1>3, PlayByKind
  <2>9. /\ \A q \in Profiles : View(t).names[q] = NamesAfter(op, View(s))[q]
        /\ \A r \in Rules : View(t).targets[r] = TargetsAfter(op, View(s))[r]
        /\ View(t).default = DefaultAfter(op, View(s))
    BY <2>7, <2>8
  <2>10. View(t) = Play(op, View(s))
    BY <2>9, ViewPlayed
  <2> QED BY <1>t, <2>7, <2>10 DEF Seen
<1>4. CASE op.kind = "default"
  <2>1. op.profile \in Profiles \cup {None}
    BY <1>4 DEF Formed
  <2>4. t = [s EXCEPT !.default = op.profile]
    BY <1>4, <1>t, MaterializeByKind
  <2>7. /\ Shown(t)
        /\ \A q \in Profiles : View(t).names[q] = View(s).names[q]
        /\ \A r \in Rules : View(t).targets[r] = View(s).targets[r]
        /\ View(t).default = op.profile
    BY <2>1, <2>4, DefaultShown
  <2>8. /\ \A q \in Profiles : NamesAfter(op, View(s))[q] = View(s).names[q]
        /\ \A r \in Rules : TargetsAfter(op, View(s))[r] = View(s).targets[r]
        /\ DefaultAfter(op, View(s)) = op.profile
    BY <1>4, PlayByKind
  <2> QED BY <1>t, <2>7, <2>8, ViewPlayed DEF Seen
<1>5. CASE op.kind = "create rule"
  <2>1. op.rule \in Rules /\ op.target \in Targets
    BY <1>5 DEF Formed
  <2>2. s.rules[op.rule] = None
    <3>1. View(s).targets[op.rule] = {}
      BY <1>5 DEF Fits
    <3> QED BY <2>1, <3>1, ViewSays
  <2>r. PICK row : row = [target |-> op.target, priority |-> BottomPriority(s), revision |-> 0]
    OBVIOUS
  <2>3. row \in ShownRule /\ op.target = row.target
    BY <2>1, <2>r, ShownBottom DEF ShownRule
  <2>4. t = WithRule(s, op.rule, row)
    BY <1>5, <2>2, <1>t, <2>r, MaterializeByKind DEF WithRule
  <2>5. \E k \in Int : k <= row.priority /\ \A q \in Present(s.rules) : k <= s.rules[q].priority
    BY <2>r, ShownBottom
  <2>7. /\ Shown(t)
        /\ \A q \in Profiles : View(t).names[q] = View(s).names[q]
        /\ \A r \in Rules : View(t).targets[r] = IF r = op.rule THEN {op.target} ELSE View(s).targets[r]
        /\ View(t).default = View(s).default
    <3>1. TargetsOne(t, s, op.rule, op.target)
      BY <2>1, <2>3, <2>4, <2>5, RuleShown
    <3> QED BY <3>1 DEF TargetsOne
  <2>8. /\ \A q \in Profiles : NamesAfter(op, View(s))[q] = View(s).names[q]
        /\ \A r \in Rules : TargetsAfter(op, View(s))[r] = IF r = op.rule THEN {op.target} ELSE View(s).targets[r]
        /\ DefaultAfter(op, View(s)) = View(s).default
    BY <1>5, PlayByKind
  <2> QED BY <1>t, <2>7, <2>8, ViewPlayed DEF Seen
<1>6. CASE op.kind = "update rule"
  <2>1. op.rule \in Rules /\ op.target \in Targets
    BY <1>6 DEF Formed
  <2>2. s.rules[op.rule] # None
    <3>1. View(s).targets[op.rule] # {}
      BY <1>6 DEF Fits
    <3> QED BY <2>1, <3>1, ViewSays
  <2>r. PICK row : row = [s.rules[op.rule] EXCEPT !.target = op.target]
    OBVIOUS
  <2>a. s.rules[op.rule] \in ShownRule
    BY <1>0, <2>1, <2>2 DEF ShownState
  <2>3. row \in ShownRule /\ op.target = row.target /\ row.priority = s.rules[op.rule].priority
    BY <2>1, <2>r, <2>a DEF ShownRule
  <2>4. t = WithRule(s, op.rule, row)
    <3>1. t = [s EXCEPT !.rules[op.rule].target = op.target]
      BY <1>6, <2>2, <1>t, MaterializeByKind
    <3>2. [s EXCEPT !.rules[op.rule].target = op.target] = WithRule(s, op.rule, row)
      BY <1>0, <2>1, <2>r DEF ShownState, WithRule
    <3> QED BY <3>1, <3>2
  <2>5. op.rule \in Present(s.rules)
    BY <1>0, <2>1, <2>2 DEF ShownState, Present
  <2>6. \E k \in Int : k <= row.priority /\ \A q \in Present(s.rules) : k <= s.rules[q].priority
    BY <2>3, <2>5 DEF Shown
  <2>7. /\ Shown(t)
        /\ \A q \in Profiles : View(t).names[q] = View(s).names[q]
        /\ \A r \in Rules : View(t).targets[r] = IF r = op.rule THEN {op.target} ELSE View(s).targets[r]
        /\ View(t).default = View(s).default
    <3>1. TargetsOne(t, s, op.rule, op.target)
      BY <2>1, <2>3, <2>4, <2>6, RuleShown
    <3> QED BY <3>1 DEF TargetsOne
  <2>8. /\ \A q \in Profiles : NamesAfter(op, View(s))[q] = View(s).names[q]
        /\ \A r \in Rules : TargetsAfter(op, View(s))[r] = IF r = op.rule THEN {op.target} ELSE View(s).targets[r]
        /\ DefaultAfter(op, View(s)) = View(s).default
    BY <1>6, PlayByKind
  <2> QED BY <1>t, <2>7, <2>8, ViewPlayed DEF Seen
<1>7. CASE op.kind = "delete rule"
  <2>1. op.rule \in Rules
    BY <1>7 DEF Formed
  <2>4. t = [s EXCEPT !.rules[op.rule] = None]
    BY <1>7, <1>t, MaterializeByKind
  <2>7. /\ Shown(t)
        /\ \A q \in Profiles : View(t).names[q] = View(s).names[q]
        /\ \A r \in Rules : View(t).targets[r] = IF r = op.rule THEN {} ELSE View(s).targets[r]
        /\ View(t).default = View(s).default
    BY <2>1, <2>4, RuleUnshown
  <2>8. /\ \A q \in Profiles : NamesAfter(op, View(s))[q] = View(s).names[q]
        /\ \A r \in Rules : TargetsAfter(op, View(s))[r] = IF r = op.rule THEN {} ELSE View(s).targets[r]
        /\ DefaultAfter(op, View(s)) = View(s).default
    BY <1>7, PlayByKind
  <2> QED BY <1>t, <2>7, <2>8, ViewPlayed DEF Seen
<1> QED BY <1>0, <1>1, <1>2, <1>3, <1>4, <1>5, <1>6, <1>7 DEF Kinds

\* f runs from what the mirror holds over the queue, every edit of which fits.
Plays(f) ==
    /\ f[0] = View(mirror)
    /\ \A n \in 1 .. rows :
          /\ n \in DOMAIN queue =>
                f[n] = Play(queue[n].op, f[n - 1]) /\ Fits(queue[n].op, f[n - 1])
          /\ n \notin DOMAIN queue => f[n] = f[n - 1]

\* One row of the queue, or none, over s.
Over(n, s) == IF n \in DOMAIN queue THEN Materialize(queue[n].op, s) ELSE s

\* The recursion of Overlay has a solution, whatever the number of rows.
LEMMA OverlayUpTo ==
    ASSUME NEW n \in Nat
    PROVE  \E g : g[0] = mirror /\ \A m \in 1 .. n : g[m] = Over(m, g[m - 1])
<1> DEFINE Up(g, k) == g[0] = mirror /\ \A m \in 1 .. k : g[m] = Over(m, g[m - 1])
           T == {k \in Nat : ~\E g : Up(g, k)}
<1>1. ASSUME T # {} PROVE FALSE
  <2>1. T \subseteq Nat
    OBVIOUS
  <2>2. PICK k \in T : \A l \in T : k <= l
    <3> HIDE DEF T
    <3> QED BY <1>1, <2>1, LeastNat
  <2>3. k \in Nat /\ ~\E g : Up(g, k)
    OBVIOUS
  <2>4. k # 0
    <3>1. PICK g : g = [m \in {0} |-> mirror]
      OBVIOUS
    <3>2. Up(g, 0)
      BY <3>1
    <3> QED BY <2>3, <3>2
  <2>5. k - 1 \in Nat /\ ~(k <= k - 1)
    BY <2>3, <2>4
  <2>6. PICK h : Up(h, k - 1)
    BY <2>2, <2>5
  <2> DEFINE last == Over(k, h[k - 1])
  <2> HIDE DEF last
  <2>7. PICK g : g = [m \in 0 .. k |-> IF m = k THEN last ELSE h[m]]
    OBVIOUS
  <2>8. g[0] = mirror
    BY <2>3, <2>4, <2>6, <2>7
  <2>9. ASSUME NEW m \in 1 .. k PROVE g[m] = Over(m, g[m - 1])
    <3>1. g[m - 1] = h[m - 1]
      BY <2>3, <2>7
    <3>2. CASE m = k
      <4>1. g[m] = last
        BY <2>3, <2>7, <3>2
      <4> QED BY <3>1, <3>2, <4>1 DEF last
    <3>3. CASE m # k
      <4>1. m \in 1 .. k - 1 /\ g[m] = h[m]
        BY <2>3, <2>7, <3>3
      <4>2. h[m] = Over(m, h[m - 1])
        BY <2>6, <4>1
      <4> QED BY <3>1, <4>1, <4>2
    <3> QED BY <3>2, <3>3
  <2>10. Up(g, k)
    BY <2>8, <2>9
  <2> QED BY <2>3, <2>10
<1>2. n \notin T
  BY <1>1
<1> QED BY <1>2

\* What Overlay is.
LEMMA OverlayIs ==
    ASSUME rows \in Nat
    PROVE  /\ Overlay[0] = mirror
           /\ \A n \in 1 .. rows : Overlay[n] = Over(n, Overlay[n - 1])
<1> DEFINE Def(g) == g = [n \in 0 .. rows |->
                            IF n = 0 THEN mirror
                            ELSE IF n \in DOMAIN queue THEN Materialize(queue[n].op, g[n - 1])
                            ELSE g[n - 1]]
<1>1. PICK g : g[0] = mirror /\ \A m \in 1 .. rows : g[m] = Over(m, g[m - 1])
  BY OverlayUpTo
<1>2. PICK h : h = [n \in 0 .. rows |-> g[n]]
  OBVIOUS
<1>3. \A n \in 0 .. rows : n # 0 => n \in 1 .. rows /\ n - 1 \in 0 .. rows
  OBVIOUS
<1>4. \A n \in 0 .. rows : h[n] = IF n = 0 THEN mirror
                                  ELSE IF n \in DOMAIN queue THEN Materialize(queue[n].op, h[n - 1])
                                  ELSE h[n - 1]
  <2>1. \A n \in 0 .. rows : h[n] = g[n]
    BY <1>2
  <2>2. ASSUME NEW n \in 0 .. rows, n # 0
        PROVE  h[n] = Over(n, h[n - 1])
    <3>1. n \in 1 .. rows /\ n - 1 \in 0 .. rows
      BY <1>3, <2>2
    <3>2. g[n] = Over(n, g[n - 1])
      BY <1>1, <3>1
    <3> QED BY <2>1, <3>1, <3>2
  <2>3. h[0] = mirror
    BY <1>1, <2>1
  <2> QED BY <2>2, <2>3 DEF Over
<1>5. Def(h)
  BY <1>2, <1>4
<1> DEFINE upto == CHOOSE g_1 : Def(g_1)
<1> HIDE DEF Def
<1>6. Def(upto)
  BY <1>5
<1> HIDE DEF upto
<1>7. Overlay = upto
  BY DEF Overlay, upto, Def
<1>8. Def(Overlay)
  BY <1>6, <1>7
<1>9. \A n \in 0 .. rows : Overlay[n] = IF n = 0 THEN mirror
                                        ELSE IF n \in DOMAIN queue THEN Materialize(queue[n].op, Overlay[n - 1])
                                        ELSE Overlay[n - 1]
  <2>1. PICK o : o = Overlay
    OBVIOUS
  <2>2. o = [n \in 0 .. rows |-> IF n = 0 THEN mirror
                                 ELSE IF n \in DOMAIN queue THEN Materialize(queue[n].op, o[n - 1])
                                 ELSE o[n - 1]]
    BY <1>8, <2>1 DEF Def
  <2>3. \A n \in 0 .. rows : o[n] = IF n = 0 THEN mirror
                                    ELSE IF n \in DOMAIN queue THEN Materialize(queue[n].op, o[n - 1])
                                    ELSE o[n - 1]
    BY <2>2
  <2> QED BY <2>1, <2>3
<1> QED BY <1>9 DEF Over

\* The user sees what the queue does to the mirror.
LEMMA SnapshotPlays ==
    ASSUME rows \in Nat, Sound(mirror), NEW f, Plays(f),
           \A r \in DOMAIN queue : Formed(queue[r].op)
    PROVE  /\ Shown(Snapshot) /\ View(Snapshot) = f[rows]
           /\ DOMAIN queue = {} => Snapshot = mirror
<1> DEFINE Fine(s, n) == Shown(s) /\ View(s) = f[n] /\ (DOMAIN queue = {} => s = mirror)
           T == {n \in 0 .. rows : ~Fine(Overlay[n], n)}
<1> HIDE DEF Fine
<1>1. ASSUME T # {} PROVE FALSE
  <2>1. T \subseteq Nat
    OBVIOUS
  <2>2. PICK n \in T : \A m \in T : n <= m
    <3> HIDE DEF T
    <3> QED BY <1>1, <2>1, LeastNat
  <2>3. n \in 0 .. rows /\ ~Fine(Overlay[n], n)
    BY <2>2
  <2>4. n # 0
    <3>1. Overlay[0] = mirror
      BY OverlayIs
    <3> QED BY <2>3, <3>1, SoundShown DEF Plays, Fine
  <2>5. n \in 1 .. rows /\ n - 1 \in 0 .. rows /\ ~(n <= n - 1)
    BY <2>3, <2>4
  <2>6. n - 1 \notin T
    <3> HIDE DEF T
    <3> QED BY <2>2, <2>5
  <2>7. PICK s : s = Overlay[n - 1]
    OBVIOUS
  <2>8. Shown(s) /\ View(s) = f[n - 1] /\ (DOMAIN queue = {} => s = mirror)
    <3>1. Fine(s, n - 1)
      BY <2>5, <2>6, <2>7
    <3> QED BY <3>1 DEF Fine
  <2>9. Overlay[n] = Over(n, s)
    BY <2>5, <2>7, OverlayIs
  <2>10. CASE n \in DOMAIN queue
    <3>1. Overlay[n] = Materialize(queue[n].op, s)
      BY <2>9, <2>10 DEF Over
    <3>2. Formed(queue[n].op) /\ Fits(queue[n].op, View(s)) /\ f[n] = Play(queue[n].op, View(s))
      BY <2>5, <2>8, <2>10 DEF Plays
    <3>3. Seen(Materialize(queue[n].op, s), queue[n].op, s)
      BY <2>8, <3>2, MaterializePlays
    <3>4. Shown(Overlay[n]) /\ View(Overlay[n]) = f[n]
      BY <3>1, <3>2, <3>3 DEF Seen
    <3> QED BY <2>3, <2>10, <3>4 DEF Fine
  <2>11. CASE n \notin DOMAIN queue
    <3>1. Overlay[n] = s
      BY <2>9, <2>11 DEF Over
    <3>2. f[n] = f[n - 1]
      BY <2>5, <2>11 DEF Plays
    <3> QED BY <2>3, <2>8, <3>1, <3>2 DEF Fine
  <2> QED BY <2>10, <2>11
<1>2. rows \in 0 .. rows /\ rows \notin T
  BY <1>1
<1>3. Fine(Overlay[rows], rows)
  BY <1>2
<1> QED BY <1>3 DEF Snapshot, Fine

(* What the user asks for *)

\* A row the user sees is in the tables.
LEMMA ShownTables ==
    ASSUME NEW s, Shown(s)
    PROVE  /\ DOMAIN s.profiles = Profiles /\ DOMAIN s.rules = Rules
           /\ \A p : p \in Present(s.profiles) <=> p \in Profiles /\ s.profiles[p] # None
           /\ \A r : r \in Present(s.rules) <=> r \in Rules /\ s.rules[r] # None
<1>1. s \in ShownState
  BY DEF Shown
<1>2. DOMAIN s.profiles = Profiles /\ DOMAIN s.rules = Rules
  BY <1>1 DEF ShownState
<1> QED BY <1>2 DEF Present

\* What is not taken is free.
LEMMA NotTaken ==
    ASSUME NEW s, Shown(s), NEW p, NEW n, ~NameTaken(s, p, n)
    PROVE  Free(View(s), p, n)
<1>1. ASSUME NEW q \in Profiles, q # p PROVE n \notin View(s).names[q]
  <2>1. n \in View(s).names[q] <=> s.profiles[q] # None /\ s.profiles[q].name = n
    BY ViewSays
  <2>2. q \in Present(s.profiles) <=> s.profiles[q] # None
    BY ShownTables
  <2> QED BY <1>1, <2>1, <2>2 DEF NameTaken
<1> QED BY <1>1 DEF Free

\* A target that is there.
LEMMA PresentThere ==
    ASSUME NEW s, Shown(s), NEW x, x \in Present(s.profiles) \cup {Bypass, None}
    PROVE  There(View(s), x) /\ x \in Profiles \cup {Bypass, None}
<1>1. x \in Profiles => s.profiles[x] # None
  BY ShownTables, StoreAssumption
<1>2. x \in Profiles => View(s).names[x] # {}
  BY <1>1, ViewSays
<1> QED BY <1>2, ShownTables DEF There

\* To expect what one expects changes nothing.
LEMMA SameExpected ==
    ASSUME NEW op, NEW F, op = [f \in F |-> op[f]], NEW x, op.expected = x
    PROVE  [op EXCEPT !.expected = x] = op
  OBVIOUS

\* A creation that the user interface offers fits what it shows.
LEMMA CreationFits ==
    ASSUME NEW s, Shown(s), NEW op \in Creations(s), Materialize(op, s) # s,
           op.kind = "create profile" => ~NameTaken(s, op.profile, op.name)
    PROVE  Formed(op) /\ Fits(op, View(s)) /\ Built(op, s)
<1>1. CASE op \in [kind : {"create profile"}, profile : Profiles, name : Names]
  <2>1. op.kind = "create profile" /\ op.profile \in Profiles /\ op.name \in Names
    BY <1>1
  <2>2. op = [f \in {"kind", "profile", "name"} |-> op[f]]
    BY <1>1
  <2>3. Formed(op)
    BY <2>1, <2>2 DEF Formed, Fields, Kinds
  <2>4. s.profiles[op.profile] = None
    BY <2>1, MaterializeByKind
  <2>5. View(s).names[op.profile] = {}
    BY <2>1, <2>4, ViewSays
  <2>6. Free(View(s), op.profile, op.name)
    BY <2>1, NotTaken
  <2>7. Fits(op, View(s))
    BY <2>1, <2>5, <2>6 DEF Fits
  <2>8. Rebase(op, s) = op
    BY <2>1, RebaseByKind
  <2> QED BY <2>3, <2>7, <2>8 DEF Built
<1>2. CASE op \in [kind : {"create rule"}, rule : Rules, target : Present(s.profiles) \cup {Bypass}]
  <2>1. op.kind = "create rule" /\ op.rule \in Rules /\ op.target \in Present(s.profiles) \cup {Bypass}
    BY <1>2
  <2>2. op = [f \in {"kind", "rule", "target"} |-> op[f]]
    BY <1>2
  <2>a. op.target \in Targets
    BY <2>1, ShownTables DEF Targets
  <2>3. Formed(op)
    BY <2>1, <2>2, <2>a DEF Formed, Fields, Kinds
  <2>4. s.rules[op.rule] = None
    BY <2>1, MaterializeByKind
  <2>5. View(s).targets[op.rule] = {}
    BY <2>1, <2>4, ViewSays
  <2>6. There(View(s), op.target)
    BY <2>1, PresentThere
  <2>7. Fits(op, View(s))
    BY <2>1, <2>5, <2>6 DEF Fits
  <2>8. Rebase(op, s) = op
    BY <2>1, RebaseByKind
  <2> QED BY <2>3, <2>7, <2>8 DEF Built
<1> QED BY <1>1, <1>2 DEF Creations

\* So does an update of a profile ...
LEMMA ProfileUpdateFits ==
    ASSUME NEW s, Shown(s), NEW p \in Present(s.profiles), NEW n \in Names, NEW op, op = ProfileUpdate(s, p, n),
           ~NameTaken(s, op.profile, op.name)
    PROVE  Formed(op) /\ Fits(op, View(s)) /\ Built(op, s)
<1>1. /\ op.kind = "update profile" /\ op.profile = p /\ op.name = n
      /\ op.expected = s.profiles[p].revision
  BY DEF ProfileUpdate
<1>f. op = [f \in {"kind", "profile", "name", "expected"} |-> op[f]]
  BY DEF ProfileUpdate
<1>2. p \in Profiles /\ s.profiles[p] # None
  BY ShownTables
<1>3. Formed(op)
  BY <1>1, <1>2, <1>f DEF Formed, Fields, Kinds
<1>4. View(s).names[p] # {} /\ Free(View(s), p, n)
  <2>1. View(s).names[p] # {}
    BY <1>2, ViewSays
  <2>2. Free(View(s), p, n)
    BY <1>1, NotTaken
  <2> QED BY <2>1, <2>2
<1>5. Fits(op, View(s))
  BY <1>1, <1>4 DEF Fits
<1>6. Rebase(op, s) = op
  <2>1. s.profiles[op.profile] # None /\ op.expected = s.profiles[op.profile].revision
    BY <1>1, <1>2
  <2>2. Rebase(op, s) = [op EXCEPT !.expected = s.profiles[op.profile].revision]
    BY <1>1, <2>1, RebaseByKind
  <2> QED BY <1>f, <2>1, <2>2, SameExpected
<1> QED BY <1>3, <1>5, <1>6 DEF Built

\* ... of a rule ...
LEMMA RuleUpdateFits ==
    ASSUME NEW s, Shown(s), NEW r \in Present(s.rules), NEW x \in Present(s.profiles) \cup {Bypass},
           NEW op, op = RuleUpdate(s, r, x)
    PROVE  Formed(op) /\ Fits(op, View(s)) /\ Built(op, s)
<1>1. /\ op.kind = "update rule" /\ op.rule = r /\ op.target = x
      /\ op.expected = s.rules[r].revision
  BY DEF RuleUpdate
<1>f. op = [f \in {"kind", "rule", "target", "expected"} |-> op[f]]
  BY DEF RuleUpdate
<1>2. r \in Rules /\ s.rules[r] # None /\ x \in Targets
  BY ShownTables DEF Targets
<1>3. Formed(op)
  BY <1>1, <1>2, <1>f DEF Formed, Fields, Kinds
<1>4. View(s).targets[r] # {} /\ There(View(s), x)
  <2>1. View(s).targets[r] # {}
    BY <1>2, ViewSays
  <2>2. There(View(s), x)
    BY PresentThere
  <2> QED BY <2>1, <2>2
<1>5. Fits(op, View(s))
  BY <1>1, <1>4 DEF Fits
<1>6. Rebase(op, s) = op
  <2>1. s.rules[op.rule] # None /\ op.expected = s.rules[op.rule].revision
    BY <1>1, <1>2
  <2>2. Rebase(op, s) = [op EXCEPT !.expected = s.rules[op.rule].revision]
    BY <1>1, <2>1, RebaseByKind
  <2> QED BY <1>f, <2>1, <2>2, SameExpected
<1> QED BY <1>3, <1>5, <1>6 DEF Built

\* ... and of the default, ...
LEMMA DefaultUpdateFits ==
    ASSUME NEW s, Shown(s), NEW p \in Present(s.profiles) \cup {None}, NEW op, op = DefaultUpdate(s, p)
    PROVE  Formed(op) /\ Fits(op, View(s)) /\ Built(op, s)
<1>1. /\ op.kind = "default" /\ op.profile = p /\ op.expected = s.settings
  BY DEF DefaultUpdate
<1>f. op = [f \in {"kind", "profile", "expected"} |-> op[f]]
  BY DEF DefaultUpdate
<1>2. p \in Profiles \cup {None}
  BY ShownTables
<1>3. Formed(op)
  BY <1>1, <1>2, <1>f DEF Formed, Fields, Kinds
<1>4. There(View(s), p)
  BY PresentThere
<1>5. Fits(op, View(s))
  BY <1>1, <1>4 DEF Fits
<1>6. Rebase(op, s) = op
  <2>1. Rebase(op, s) = [op EXCEPT !.expected = s.settings]
    BY <1>1, RebaseByKind
  <2> QED BY <1>1, <1>f, <2>1, SameExpected
<1> QED BY <1>3, <1>5, <1>6 DEF Built

\* ... the deletion of a profile ...
LEMMA ProfileDeletionFits ==
    ASSUME NEW s, Shown(s), NEW p \in Present(s.profiles), NEW q \in Present(s.profiles) \cup {Bypass, None},
           NEW op, op = ProfileDeletion(s, p, q), op.replacement # op.profile,
           op.replacement = None => s.default # op.profile /\ References(s, op.profile) = {}
    PROVE  Formed(op) /\ Fits(op, View(s)) /\ Built(op, s)
<1>1. /\ op.kind = "delete profile" /\ op.profile = p /\ op.replacement = q
      /\ op.expected = s.profiles[p].revision /\ op.settings = s.settings
      /\ op.references = References(s, p)
  BY DEF ProfileDeletion
<1>f. op = [f \in {"kind", "profile", "replacement", "expected", "settings", "references"} |-> op[f]]
  BY DEF ProfileDeletion
<1>2. p \in Profiles /\ s.profiles[p] # None /\ q \in Profiles \cup {Bypass, None}
  BY ShownTables
<1>3. Formed(op)
  BY <1>1, <1>2, <1>f DEF Formed, Fields, Kinds
<1>4. View(s).names[p] # {} /\ There(View(s), q)
  <2>1. View(s).names[p] # {}
    BY <1>2, ViewSays
  <2>2. There(View(s), q)
    BY PresentThere
  <2> QED BY <2>1, <2>2
<1>5. q = None => View(s).default # p /\ \A r \in Rules : View(s).targets[r] # {p}
  <2> SUFFICES ASSUME q = None PROVE View(s).default # p /\ \A r \in Rules : View(s).targets[r] # {p}
    OBVIOUS
  <2>1. View(s).default # p
    BY <1>1, ViewFacts
  <2>2. ASSUME NEW r \in Rules, View(s).targets[r] = {p} PROVE FALSE
    <3>1. s.rules[r] # None /\ s.rules[r].target = p
      BY <2>2, ViewSays
    <3>2. r \in Present(s.rules)
      BY <3>1, ShownTables
    <3>3. <<r, s.rules[r].revision>> \in References(s, p)
      BY <3>1, <3>2 DEF References
    <3> QED BY <1>1, <3>3
  <2> QED BY <2>1, <2>2
<1>6. Fits(op, View(s))
  BY <1>1, <1>4, <1>5 DEF Fits
<1>7. Rebase(op, s) = op
  <2>1. /\ s.profiles[op.profile] # None /\ op.expected = s.profiles[op.profile].revision
        /\ op.settings = s.settings /\ op.references = References(s, op.profile)
    BY <1>1, <1>2
  <2>2. Rebase(op, s) = [op EXCEPT !.expected = IF s.profiles[op.profile] = None THEN @
                                                ELSE s.profiles[op.profile].revision,
                                   !.settings = s.settings,
                                   !.references = References(s, op.profile)]
    BY <1>1, RebaseByKind
  <2>3. Rebase(op, s) = [op EXCEPT !.expected = op.expected, !.settings = op.settings,
                                   !.references = op.references]
    BY <2>1, <2>2
  <2> QED BY <1>f, <2>3
<1> QED BY <1>3, <1>6, <1>7 DEF Built

\* ... and of a rule.
LEMMA RuleDeletionFits ==
    ASSUME NEW s, Shown(s), NEW r \in Present(s.rules), NEW op, op = RuleDeletion(s, r)
    PROVE  Formed(op) /\ Fits(op, View(s)) /\ Built(op, s)
<1>1. /\ op.kind = "delete rule" /\ op.rule = r /\ op.expected = s.rules[r].revision
  BY DEF RuleDeletion
<1>f. op = [f \in {"kind", "rule", "expected"} |-> op[f]]
  BY DEF RuleDeletion
<1>2. r \in Rules /\ s.rules[r] # None
  BY ShownTables
<1>3. Formed(op)
  BY <1>1, <1>2, <1>f DEF Formed, Fields, Kinds
<1>4. View(s).targets[r] # {}
  BY <1>2, ViewSays
<1>5. Fits(op, View(s))
  BY <1>1, <1>4 DEF Fits
<1>6. Rebase(op, s) = op
  <2>1. s.rules[op.rule] # None /\ op.expected = s.rules[op.rule].revision
    BY <1>1, <1>2
  <2>2. Rebase(op, s) = [op EXCEPT !.expected = s.rules[op.rule].revision]
    BY <1>1, <2>1, RebaseByKind
  <2> QED BY <1>f, <2>1, <2>2, SameExpected
<1> QED BY <1>3, <1>5, <1>6 DEF Built

\* What the user can ask for fits what the user sees, and is built on it.
LEMMA RequestFits ==
    ASSUME NEW s, Shown(s), NEW op \in UserRequests(s)
    PROVE  Formed(op) /\ Fits(op, View(s)) /\ Built(op, s)
<1>1. /\ op \in Creations(s) \cup Updates(s) \cup Deletions(s)
      /\ Materialize(op, s) # s
      /\ op.kind \in {"create profile", "update profile"} => ~NameTaken(s, op.profile, op.name)
      /\ (op.kind = "delete profile" /\ op.replacement = None) =>
             s.default # op.profile /\ References(s, op.profile) = {}
  BY DEF UserRequests
<1>2. CASE op \in Creations(s)
  BY <1>1, <1>2, CreationFits
<1>3. CASE op \in Updates(s)
  <2>1. ASSUME NEW p \in Present(s.profiles), NEW n \in Names, op = ProfileUpdate(s, p, n)
        PROVE  Formed(op) /\ Fits(op, View(s)) /\ Built(op, s)
    <3>1. op.kind = "update profile"
      BY <2>1 DEF ProfileUpdate
    <3> QED BY <1>1, <2>1, <3>1, ProfileUpdateFits
  <2>2. ASSUME NEW r \in Present(s.rules), NEW x \in Present(s.profiles) \cup {Bypass}, op = RuleUpdate(s, r, x)
        PROVE  Formed(op) /\ Fits(op, View(s)) /\ Built(op, s)
    BY <2>2, RuleUpdateFits
  <2>3. ASSUME NEW p \in Present(s.profiles) \cup {None}, op = DefaultUpdate(s, p)
        PROVE  Formed(op) /\ Fits(op, View(s)) /\ Built(op, s)
    BY <2>3, DefaultUpdateFits
  <2> QED BY <1>3, <2>1, <2>2, <2>3 DEF Updates
<1>4. CASE op \in Deletions(s)
  <2>1. ASSUME NEW p \in Present(s.profiles), NEW q \in Present(s.profiles) \cup {Bypass, None},
               op = ProfileDeletion(s, p, q), op.replacement # op.profile
        PROVE  Formed(op) /\ Fits(op, View(s)) /\ Built(op, s)
    <3>1. op.kind = "delete profile"
      BY <2>1 DEF ProfileDeletion
    <3> QED BY <1>1, <2>1, <3>1, ProfileDeletionFits
  <2>2. ASSUME NEW r \in Present(s.rules), op = RuleDeletion(s, r)
        PROVE  Formed(op) /\ Fits(op, View(s)) /\ Built(op, s)
    BY <2>2, RuleDeletionFits
  <2> QED BY <1>4, <2>1, <2>2 DEF Deletions
<1> QED BY <1>1, <1>2, <1>3, <1>4

(* The agreement of the device and the server *)

\* Nobody else writes, and the device has let go of nothing the server may have.
ByItself == Alone /\ cut = {}

\* The device has not begun to hand its queue to the local layer.
Going == support # "unsupported" /\ (pc = "preserve" => local = {})

\* The server has what the device knows of it, or has op besides.
Ahead(op) == state = mirror \/ state = Serve(mirror, op).state

\* Nothing was refused.
Calm == DOMAIN conflicts = {} /\ resolving = None /\ dropped = {}

\* What the device does agrees with what it knows of the server.
Posted ==
    /\ support \in {"unknown", "supported", "unsupported"}
    /\ support # "supported" => DOMAIN queue = {}
    /\ pc \in {"probe", "sync probe", "direct", "pull"} => DOMAIN queue = {}
    /\ pc \in {"head", "pull", "preserve"} => support = "supported"
    /\ pc \in {"probe", "direct"} => support # "unsupported"

\* The answers it gets.
Told ==
    /\ answer # None => answer = Down \/ answer = Absent \/ (answer.code = "ok" /\ answer.state = state)
    /\ pc = "head" /\ answer # None /\ answer.code = "ok" => state = Serve(mirror, First(queue).op).state

\* The states and the edits are what the program makes.
Known ==
    /\ Sound(state) /\ Sound(mirror)
    /\ \A r \in DOMAIN queue : Formed(queue[r].op)
    /\ pc \in {"probe", "direct"} => Formed(task.op)

\* The queue runs from the mirror to what the user sees, and the server is at its start
\* or one edit further.
Level(f) ==
    /\ Plays(f)
    /\ DOMAIN queue # {} => Built(First(queue).op, mirror) /\ Ahead(First(queue).op)
    /\ pc \in {"probe", "direct"} => Built(task.op, mirror) /\ Fits(task.op, View(mirror))
    /\ pc = "direct" => Ahead(task.op)
    /\ DOMAIN queue = {} /\ pc # "direct" => state = mirror

Steady == Calm /\ Posted /\ Told /\ Known /\ (Going => \E f : Level(f))

AloneInv ==
    /\ spent.others \in 0 .. MaxOthers
    /\ ByItself => Steady

\* The others' budget.
LEMMA OthersSpent ==
    ASSUME Counted, spent.others \in 0 .. MaxOthers, NEW b \in {"edits", "others", "faults", "resolves"}, Spend(b)
    PROVE  /\ spent'.others \in 0 .. MaxOthers /\ spent'.others <= spent.others
           /\ b = "others" => spent'.others # MaxOthers
<1>1. MaxOthers \in Nat
  BY SyncAssumption
<1>2. spent' = [c \in {"edits", "others", "faults", "resolves"} |->
                  IF c = b THEN spent[c] - 1 ELSE spent[c]] /\ spent[b] > 0
  BY DEF Spend, Counted
<1>3. CASE b = "others"
  <2>1. spent'.others = spent.others - 1 /\ spent.others > 0
    BY <1>2, <1>3
  <2> QED BY <1>1, <1>3, <2>1
<1>4. CASE b # "others"
  <2>1. spent'.others = spent.others
    BY <1>2, <1>4
  <2> QED BY <1>1, <1>4, <2>1
<1> QED BY <1>3, <1>4

\* What is made, and what is let go of, is so for good.
LEMMA HistoryGrows ==
    ASSUME [SyncNext]_syncVars
    PROVE  /\ made \subseteq made' /\ cut \subseteq cut'
           /\ UNCHANGED spent \/ \E b \in {"edits", "others", "faults", "resolves"} : Spend(b)
<1>1. CASE EditLocally
  BY <1>1 DEF EditLocally
<1>2. CASE EditStart
  BY <1>2 DEF EditStart
<1>3. CASE SyncStart \/ Request \/ UNCHANGED syncVars
  BY <1>3 DEF SyncStart, Request, syncVars, history
<1>4. CASE Lose
  BY <1>4 DEF Lose
<1>5. CASE ProbeAnswered \/ SyncProbeAnswered \/ HeadAnswered \/ PullAnswered \/ Preserve
  BY <1>5 DEF ProbeAnswered, SyncProbeAnswered, HeadAnswered, PullAnswered, Preserve, history
<1>6. CASE DirectAnswered
  <2>1. made \subseteq made' /\ UNCHANGED spent
    BY <1>6 DEF DirectAnswered
  <2>2. cut' = cut \/ cut' = cut \cup {task.id}
    BY <1>6 DEF DirectAnswered
  <2> QED BY <2>1, <2>2
<1>7. CASE ResolveStart \/ Discard
  BY <1>7 DEF ResolveStart, Discard
<1>8. CASE ResolveNext \/ ResolveDrop
  BY <1>8 DEF ResolveNext, ResolveDrop
<1>9. CASE Crash
  BY <1>9 DEF Crash
<1>10. CASE Redeploy
  BY <1>10 DEF Redeploy
<1>11. CASE OtherDevice
  BY <1>11 DEF OtherDevice
<1> QED BY <1>1, <1>2, <1>3, <1>4, <1>5, <1>6, <1>7, <1>8, <1>9, <1>10, <1>11 DEF SyncNext, Answered

\* Who is by itself now has been so all along.
LEMMA OnceAlone ==
    ASSUME Counted, spent.others \in 0 .. MaxOthers, [SyncNext]_syncVars
    PROVE  /\ spent'.others \in 0 .. MaxOthers
           /\ ByItself' => ByItself /\ ~OtherDevice
<1>1. MaxOthers \in Nat
  BY SyncAssumption
<1>2. made \subseteq made' /\ cut \subseteq cut'
  BY HistoryGrows
<1>3. spent'.others \in 0 .. MaxOthers /\ spent'.others <= spent.others
  <2>1. CASE UNCHANGED spent
    BY <1>1, <2>1
  <2>2. CASE \E b \in {"edits", "others", "faults", "resolves"} : Spend(b)
    BY <2>2, OthersSpent
  <2> QED BY <2>1, <2>2, HistoryGrows
<1>4. OtherDevice => spent'.others # MaxOthers
  BY OthersSpent DEF OtherDevice
<1>5. spent'.others = MaxOthers => spent.others = MaxOthers
  BY <1>1, <1>3
<1> QED BY <1>2, <1>3, <1>4, <1>5 DEF ByItself, Alone

(* The queue *)

\* The oldest row is the least.
LEMMA OldestIs ==
    ASSUME NEW T, T \subseteq Nat, NEW x \in T, \A y \in T : x <= y
    PROVE  Oldest(T) = x
<1>1. Oldest(T) \in T /\ \A y \in T : Oldest(T) <= y
  BY LeastNat DEF Oldest
<1>2. Oldest(T) \in Nat /\ x \in Nat
  BY <1>1
<1>3. Oldest(T) <= x /\ x <= Oldest(T)
  BY <1>1
<1> QED BY <1>2, <1>3

\* There is an oldest row.
LEMMA OldestLeast ==
    ASSUME NEW T, T \subseteq Nat, T # {}
    PROVE  Oldest(T) \in T /\ \A y \in T : Oldest(T) <= y
  BY LeastNat DEF Oldest

\* A row that is added is the last; the others keep their edits.
LEMMA EnqueueOps ==
    ASSUME Tabled, NEW id, NEW op, Enqueue(id, op)
    PROVE  /\ rows' = rows + 1 /\ DOMAIN queue' = DOMAIN queue \cup {rows + 1}
           /\ \A r \in DOMAIN queue : queue'[r].op = queue[r].op
           /\ queue'[rows + 1].op = op
           /\ DOMAIN queue # {} => First(queue').op = First(queue).op
           /\ DOMAIN queue = {} => First(queue').op = op
<1>1. PICK M, g : queue' = Behind(queue, id, op, M, g)
  <2> DEFINE linked == Linked(queue, op) \cup {r \in DOMAIN queue : queue[r].group = Group(op)}
  <2>1. queue' = Behind(queue, id, op, {queue[r].group : r \in linked},
                        IF linked = {} THEN Group(op) ELSE queue[Oldest(linked)].group)
    BY DEF Enqueue, Enqueued
  <2> QED BY <2>1
<1>2. rows' = rows + 1 /\ DOMAIN queue' = DOMAIN queue \cup {rows + 1}
  BY EnqueueTable
<1>3. rows \in Nat /\ DOMAIN queue \subseteq 1 .. rows /\ rows + 1 \notin DOMAIN queue
  BY DEF Tabled
<1>4. queue'[rows + 1].op = op
  BY <1>1 DEF Behind
<1>5. ASSUME NEW r \in DOMAIN queue
      PROVE  queue'[r].op = queue[r].op
  <2>1. queue[r] = [f \in RowFields |-> queue[r][f]]
    BY DEF Tabled
  <2>2. queue'[r] = IF queue[r].group \in M THEN [queue[r] EXCEPT !.group = g] ELSE queue[r]
    BY <1>1, <1>3 DEF Behind
  <2>3. [queue[r] EXCEPT !.group = g].op = queue[r].op
    BY <2>1 DEF RowFields
  <2> QED BY <2>2, <2>3
<1>6. ASSUME DOMAIN queue # {}
      PROVE  First(queue').op = First(queue).op
  <2>1. Oldest(DOMAIN queue) \in DOMAIN queue /\ \A y \in DOMAIN queue : Oldest(DOMAIN queue) <= y
    BY <1>3, <1>6, OldestLeast
  <2>2. Oldest(DOMAIN queue') = Oldest(DOMAIN queue)
    <3>1. \A y \in DOMAIN queue' : Oldest(DOMAIN queue) <= y
      BY <1>2, <1>3, <2>1
    <3>2. DOMAIN queue' \subseteq Nat
      BY <1>2, <1>3
    <3> QED BY <1>2, <2>1, <3>1, <3>2, OldestIs
  <2> QED BY <1>5, <2>1, <2>2 DEF First
<1>7. ASSUME DOMAIN queue = {}
      PROVE  First(queue').op = op
  <2>1. Oldest({rows + 1}) = rows + 1
    BY <1>3, OldestIs
  <2>2. DOMAIN queue' = {rows + 1}
    BY <1>2, <1>7
  <2> QED BY <1>4, <2>1, <2>2 DEF First
<1> QED BY <1>2, <1>4, <1>5, <1>6, <1>7

\* Before the first row of the queue nothing is played.
LEMMA Flat ==
    ASSUME rows \in Nat, NEW f, Plays(f), NEW k \in 0 .. rows, \A m \in 1 .. k : m \notin DOMAIN queue
    PROVE  f[k] = View(mirror)
<1> DEFINE T == {m \in 0 .. k : f[m] # View(mirror)}
<1>1. ASSUME T # {}
      PROVE  FALSE
  <2>1. PICK m \in T : \A y \in T : m <= y
    <3>1. T \subseteq Nat
      OBVIOUS
    <3> HIDE DEF T
    <3> QED BY <1>1, <3>1, LeastNat
  <2>2. m # 0
    BY <2>1 DEF Plays
  <2>3. m \in 1 .. k /\ m \in 1 .. rows /\ m - 1 \in 0 .. k /\ m - 1 \notin T
    BY <2>1, <2>2
  <2>4. f[m] = f[m - 1]
    BY <2>3 DEF Plays
  <2>5. f[m - 1] = View(mirror)
    BY <2>3
  <2> QED BY <2>1, <2>4, <2>5
<1> QED BY <1>1

\* The first row fits what the mirror holds.
LEMMA HeadFits ==
    ASSUME Tabled, NEW f, Plays(f), DOMAIN queue # {}
    PROVE  /\ Oldest(DOMAIN queue) \in 1 .. rows /\ Oldest(DOMAIN queue) \in DOMAIN queue
           /\ \A r \in DOMAIN queue : Oldest(DOMAIN queue) <= r
           /\ Fits(First(queue).op, View(mirror))
           /\ f[Oldest(DOMAIN queue)] = Play(First(queue).op, View(mirror))
<1>1. rows \in Nat /\ DOMAIN queue \subseteq 1 .. rows /\ DOMAIN queue \subseteq Nat
  BY DEF Tabled
<1>2. PICK h : h = Oldest(DOMAIN queue)
  OBVIOUS
<1>3. h \in DOMAIN queue /\ \A r \in DOMAIN queue : h <= r
  BY <1>1, <1>2, OldestLeast
<1>4. h \in 1 .. rows /\ h - 1 \in 0 .. rows /\ \A m \in 1 .. h - 1 : m \notin DOMAIN queue
  BY <1>1, <1>3
<1>5. f[h - 1] = View(mirror)
  BY <1>1, <1>4, Flat
<1>6. f[h] = Play(queue[h].op, f[h - 1]) /\ Fits(queue[h].op, f[h - 1])
  BY <1>3, <1>4 DEF Plays
<1> QED BY <1>2, <1>3, <1>4, <1>5, <1>6 DEF First

\* An empty queue plays nothing.
LEMMA NothingPlays ==
    ASSUME rows \in Nat, DOMAIN queue = {}
    PROVE  Plays([n \in 0 .. rows |-> View(mirror)])
<1> DEFINE f == [n \in 0 .. rows |-> View(mirror)]
<1>1. \A n \in 0 .. rows : f[n] = View(mirror)
  OBVIOUS
<1>2. 0 \in 0 .. rows /\ \A n \in 1 .. rows : n \in 0 .. rows /\ n - 1 \in 0 .. rows
  OBVIOUS
<1> HIDE DEF f
<1>3. Plays(f)
  BY <1>1, <1>2 DEF Plays
<1> QED BY <1>3 DEF f

\* A row that is added plays on from what the user sees.
LEMMA EnqueuePlays ==
    ASSUME Tabled, NEW f, Plays(f), NEW id, NEW op, Fits(op, f[rows]), Enqueue(id, op), UNCHANGED mirror
    PROVE  \E g : Plays(g)'
<1> DEFINE g == [n \in 0 .. rows + 1 |-> IF n = rows + 1 THEN Play(op, f[rows]) ELSE f[n]]
<1>1. rows \in Nat /\ DOMAIN queue \subseteq 1 .. rows
  BY DEF Tabled
<1>2. PICK G : G = g
  OBVIOUS
<1>3. /\ \A n \in 0 .. rows : G[n] = f[n]
      /\ G[rows + 1] = Play(op, f[rows])
  BY <1>1, <1>2
<1>4. /\ rows' = rows + 1 /\ DOMAIN queue' = DOMAIN queue \cup {rows + 1}
      /\ \A r \in DOMAIN queue : queue'[r].op = queue[r].op
      /\ queue'[rows + 1].op = op
  BY EnqueueOps
<1>5. G[0] = View(mirror)'
  <2>1. View(mirror)' = View(mirror)
    BY DEF View, NamesIn, TargetsIn
  <2> QED BY <1>1, <1>3, <2>1 DEF Plays
<1>6. ASSUME NEW n \in 1 .. rows
      PROVE  /\ n \in DOMAIN queue' => G[n] = Play(queue'[n].op, G[n - 1]) /\ Fits(queue'[n].op, G[n - 1])
             /\ n \notin DOMAIN queue' => G[n] = G[n - 1]
  <2>1. n \in 0 .. rows /\ n - 1 \in 0 .. rows /\ n # rows + 1
    BY <1>1
  <2>2. G[n] = f[n] /\ G[n - 1] = f[n - 1] /\ (n \in DOMAIN queue' <=> n \in DOMAIN queue)
    BY <1>3, <1>4, <2>1
  <2>3. /\ n \in DOMAIN queue => f[n] = Play(queue[n].op, f[n - 1]) /\ Fits(queue[n].op, f[n - 1])
        /\ n \notin DOMAIN queue => f[n] = f[n - 1]
    BY DEF Plays
  <2> QED BY <1>4, <2>2, <2>3
<1>7. \A n \in 1 .. rows' : n \in 1 .. rows \/ n = rows + 1
  BY <1>1, <1>4
<1>8. Plays(G)'
  <2>1. ASSUME NEW n \in 1 .. rows'
        PROVE  /\ n \in DOMAIN queue' => G[n] = Play(queue'[n].op, G[n - 1]) /\ Fits(queue'[n].op, G[n - 1])
               /\ n \notin DOMAIN queue' => G[n] = G[n - 1]
    <3>1. CASE n \in 1 .. rows
      BY <1>6, <3>1
    <3>2. CASE n = rows + 1
      <4>1. n \in DOMAIN queue' /\ queue'[n].op = op
        BY <1>4, <3>2
      <4>2. G[n] = Play(op, f[rows])
        BY <1>3, <3>2
      <4>3. G[n - 1] = f[rows]
        BY <1>1, <1>3, <3>2
      <4> QED BY <4>1, <4>2, <4>3
    <3> QED BY <1>7, <3>1, <3>2
  <2>2. G[0] = View(mirror')
    BY <1>5
  <2>3. Plays(G)' <=>
          /\ G[0] = View(mirror')
          /\ \A n \in 1 .. rows' :
                /\ n \in DOMAIN queue' => G[n] = Play(queue'[n].op, G[n - 1]) /\ Fits(queue'[n].op, G[n - 1])
                /\ n \notin DOMAIN queue' => G[n] = G[n - 1]
    BY DEF Plays
  <2> QED BY <2>1, <2>2, <2>3
<1> QED BY <1>8

\* The server takes the edit that is under way, whether or not it had it before.
LEMMA Settles ==
    ASSUME Sound(mirror), NEW op, Formed(op), Built(op, mirror), Fits(op, View(mirror)), Ahead(op)
    PROVE  \E t : /\ t = Serve(mirror, op).state /\ Sound(t) /\ View(t) = Play(op, View(mirror))
                  /\ Serve(state, op) = Unchanged(t) /\ Serve(t, op) = Unchanged(t)
<1>1. PICK t : /\ Serve(mirror, op) = Unchanged(t) /\ Serve(t, op) = Unchanged(t)
               /\ Sound(t) /\ View(t) = Play(op, View(mirror))
  BY ServeTakes DEF Taken
<1>2. t = Serve(mirror, op).state
  BY <1>1 DEF Unchanged
<1>3. Serve(state, op) = Unchanged(t)
  BY <1>1, <1>2 DEF Ahead
<1> QED BY <1>1, <1>2, <1>3

(* The steps *)

\* The queue plays the same as long as neither it nor the mirror changes.
LEMMA PlaysStays ==
    ASSUME NEW f, Plays(f), UNCHANGED <<mirror, queue, rows>>
    PROVE  Plays(f)'
  BY DEF Plays

\* So it is level while the server's state stays too, and the edit under way ends only
\* if the server does not have it.
LEMMA LevelStays ==
    ASSUME NEW f, Level(f), UNCHANGED <<state, mirror, queue, rows>>,
           pc' \in {"probe", "direct"} => pc' = pc /\ task' = task,
           pc = "direct" => pc' = "direct"
    PROVE  Level(f)'
<1>1. Plays(f)'
  BY PlaysStays DEF Level
<1>2. First(queue)' = First(queue)
  BY DEF First
<1>3. DOMAIN queue' # {} => Built(First(queue').op, mirror') /\ Ahead(First(queue).op)'
  BY <1>2 DEF Level, Ahead
<1>4. pc' \in {"probe", "direct"} => Built(task'.op, mirror') /\ Fits(task'.op, View(mirror'))
  BY DEF Level
<1>5. pc' = "direct" => Ahead(task.op)'
  BY DEF Level, Ahead
<1>6. DOMAIN queue' = {} /\ pc' # "direct" => state' = mirror'
  BY DEF Level
<1> QED BY <1>1, <1>3, <1>4, <1>5, <1>6 DEF Level

\* A step that the edits under way do not notice.
LEMMA SteadyStays ==
    ASSUME Steady, UNCHANGED <<state, mirror, queue, rows, support, pc, task, answer, conflicts,
                              resolving, dropped>>,
           Going' => Going
    PROVE  Steady'
<1>1. Calm' /\ Posted' /\ Told'
  <2>1. First(queue)' = First(queue)
    BY DEF First
  <2> QED BY <2>1 DEF Steady, Calm, Posted, Told
<1>2. Known'
  BY DEF Steady, Known
<1>3. Going' => \E f : Level(f)'
  BY LevelStays DEF Steady
<1> QED BY <1>1, <1>2, <1>3 DEF Steady

\* A server without an equalizer hears of no edit.
LEMMA EditLocallySteady ==
    ASSUME Steady, EditLocally
    PROVE  Steady'
<1>1. ~Going'
  BY DEF EditLocally, Going
<1> QED BY <1>1, SteadyStays DEF EditLocally, storeVars

\* Endpoints that go or come change no state.
LEMMA RedeploySteady ==
    ASSUME Steady, Redeploy
    PROVE  Steady'
<1>1. Going' => Going
  BY DEF Redeploy, Going, device
<1> QED BY <1>1, SteadyStays DEF Redeploy, storeVars, device

\* Nothing happens.
LEMMA StutterSteady ==
    ASSUME Steady, UNCHANGED syncVars
    PROVE  Steady'
<1>1. Going' => Going
  BY DEF syncVars, Going, device
<1> QED BY <1>1, SteadyStays DEF syncVars, storeVars, device, history

\* Nothing is in conflict that could be settled.
LEMMA NothingToSettle ==
    ASSUME Steady
    PROVE  ~ResolveStart /\ ~ResolveNext /\ ~ResolveDrop /\ ~Discard
<1>1. DOMAIN conflicts = {} /\ resolving = None
  BY DEF Steady, Calm
<1>2. ~ResolveStart
  BY <1>1 DEF ResolveStart
<1>3. ~ResolveNext /\ ~ResolveDrop
  BY <1>1 DEF ResolveNext, ResolveDrop
<1>4. ~Discard
  BY <1>1 DEF Discard
<1> QED BY <1>2, <1>3, <1>4

\* Taking the lock changes nothing but who holds it.
LEMMA SyncStartSteady ==
    ASSUME BooksInv, Steady, SyncStart
    PROVE  Steady'
<1>1. /\ pc = "idle" /\ answer = None /\ pc' \in {"head", "pull", "sync probe"}
      /\ UNCHANGED <<state, mirror, support, queue, conflicts, local, task, answer, resolving, dropped, rows>>
  BY DEF SyncStart, Loop, storeVars, device, history, BooksInv, Locked
<1>2. /\ pc' \in {"head", "pull"} => support = "supported"
      /\ pc' = "pull" => DOMAIN queue = {}
      /\ pc' = "sync probe" => support # "supported"
  BY DEF SyncStart, Loop, Some
<1>3. Calm' /\ Posted' /\ Told'
  BY <1>1, <1>2 DEF Steady, Calm, Posted, Told
<1>4. Known'
  BY <1>1 DEF Steady, Known
<1>5. Going' => \E f : Level(f)'
  <2>1. Going' => Going
    BY <1>1 DEF Going
  <2>2. ASSUME NEW f, Level(f)
        PROVE  Level(f)'
    BY <1>1, <2>2, LevelStays
  <2> QED BY <2>1, <2>2 DEF Steady
<1> QED BY <1>3, <1>4, <1>5 DEF Steady

\* A crash that cuts no edit off leaves the device as level as it was.
LEMMA CrashSteady ==
    ASSUME BooksInv, Steady, Crash, cut' = {}
    PROVE  Steady'
<1>1. ~Editing /\ (pc = "preserve" => local = {})
  BY DEF Crash
<1>2. /\ pc' = "idle" /\ answer' = None /\ resolving' = None
      /\ UNCHANGED <<state, mirror, support, queue, conflicts, local, dropped, rows>>
  BY DEF Crash, storeVars, device
<1>3. Calm' /\ Posted' /\ Told'
  BY <1>2 DEF Steady, Calm, Posted, Told
<1>4. Known'
  BY <1>2 DEF Steady, Known
<1>5. Going' => \E f : Level(f)'
  <2>1. Going' => Going
    BY <1>1, <1>2 DEF Going
  <2>2. ASSUME NEW f, Level(f)
        PROVE  Level(f)'
    <3>1. pc # "direct"
      BY <1>1 DEF Editing
    <3> QED BY <1>2, <2>2, <3>1, LevelStays
  <2> QED BY <2>1, <2>2 DEF Steady
<1> QED BY <1>3, <1>4, <1>5 DEF Steady

\* Handing edits to the local layer asks nothing of the server.
LEMMA PreserveSteady ==
    ASSUME BooksInv, Steady, Preserve
    PROVE  Steady'
<1>1. /\ pc = "preserve" /\ pc' \in {"preserve", "idle"} /\ answer = None
      /\ UNCHANGED <<state, mirror, conflicts, task, answer, resolving, dropped, rows>>
  BY DEF Preserve, storeVars, history, BooksInv, Locked
<1>2. /\ DOMAIN queue' \subseteq DOMAIN queue /\ \A r \in DOMAIN queue' : queue'[r] = queue[r]
      /\ pc' = "preserve" => support' = support
      /\ pc' = "idle" => support' = "unsupported" /\ DOMAIN queue' = {}
      /\ pc' = "preserve" => local' # {}
  <2>1. CASE Some(queue) /\ First(queue).id \notin local
    <3>1. pc' = pc /\ support' = support /\ queue' = queue /\ local' = local \cup {First(queue).id}
      BY <2>1 DEF Preserve
    <3> QED BY <1>1, <3>1
  <2>2. CASE Some(queue) /\ First(queue).id \in local
    <3>1. pc' = pc /\ support' = support /\ queue' = Without(queue, {Oldest(DOMAIN queue)}) /\ local' = local
      BY <2>2 DEF Preserve
    <3> QED BY <1>1, <2>2, <3>1 DEF Without
  <2>3. CASE ~Some(queue)
    BY <1>1, <2>3 DEF Preserve, Some
  <2> QED BY <2>1, <2>2, <2>3
<1>3. support = "supported"
  BY <1>1 DEF Steady, Posted
<1>4. Calm' /\ Posted' /\ Told'
  BY <1>1, <1>2, <1>3 DEF Steady, Calm, Posted, Told
<1>5. Known'
  BY <1>1, <1>2 DEF Steady, Known
<1>6. ~Going'
  BY <1>1, <1>2 DEF Going
<1> QED BY <1>4, <1>5, <1>6 DEF Steady

\* An answer says how the request went, or that it did not.
LEMMA Codes ==
    /\ Down.code = "transport" /\ Absent.code = "unimplemented"
    /\ "transport" # "ok" /\ "unimplemented" # "ok" /\ Down # Absent
  BY DEF Down, Absent

\* A good answer carries the server's state.
LEMMA GoodAnswer ==
    ASSUME Told, answer # None, answer.code = "ok"
    PROVE  answer.state = state /\ answer # Down /\ answer # Absent
<1>1. answer # Down /\ answer # Absent
  BY Codes
<1> QED BY <1>1 DEF Told

\* An edit that fits what the user sees goes its way.
LEMMA RoutedSteady ==
    ASSUME BooksInv, NEW f, Plays(f), Posted, Known,
           DOMAIN queue # {} => Built(First(queue).op, mirror) /\ Ahead(First(queue).op),
           DOMAIN queue = {} => state = mirror,
           NEW id, NEW op, Formed(op), Fits(op, f[rows]), DOMAIN queue = {} => Built(op, mirror),
           Route(id, op), UNCHANGED <<state, mirror>>,
           support' \in {"unknown", "supported"}, support = "supported" => support' = support
    PROVE  /\ Posted' /\ Known' /\ \E g : Level(g)'
           /\ pc' \in {"idle", "direct"}
<1>1. CASE DOMAIN queue = {}
  <2>1. /\ pc' = "direct" /\ task' = [id |-> id, op |-> op]
        /\ UNCHANGED <<queue, rows>>
    BY <1>1 DEF Route, Some
  <2>2. task'.op = op /\ DOMAIN queue' = {}
    BY <1>1, <2>1
  <2>3. Posted' /\ Known'
    BY <2>1, <2>2 DEF Posted, Known
  <2>4. Plays(f)'
    BY <2>1, PlaysStays
  <2>5. f[rows] = View(mirror)
    BY <1>1, Flat DEF BooksInv, Tabled
  <2>6. Built(task'.op, mirror') /\ Fits(task'.op, View(mirror')) /\ Ahead(task.op)'
    BY <1>1, <2>2, <2>5 DEF Ahead
  <2>7. Level(f)'
    BY <2>1, <2>2, <2>4, <2>6 DEF Level
  <2> QED BY <2>1, <2>3, <2>7
<1>2. CASE DOMAIN queue # {}
  <2>1. Enqueue(id, op) /\ pc' = "idle" /\ task' = None
    BY <1>2 DEF Route, Some
  <2>2. /\ DOMAIN queue' = DOMAIN queue \cup {rows + 1}
        /\ \A r \in DOMAIN queue : queue'[r].op = queue[r].op
        /\ queue'[rows + 1].op = op
        /\ First(queue').op = First(queue).op
    BY <1>2, <2>1, EnqueueOps DEF BooksInv
  <2>3. support = "supported"
    BY <1>2 DEF Posted
  <2>4. Posted' /\ Known'
    BY <2>1, <2>2, <2>3 DEF Posted, Known
  <2>5. PICK g : Plays(g)'
    BY <2>1, EnqueuePlays DEF BooksInv
  <2>6. Built(First(queue').op, mirror') /\ Ahead(First(queue).op)'
    BY <1>2, <2>2 DEF Ahead
  <2>7. Level(g)'
    BY <2>1, <2>2, <2>5, <2>6 DEF Level
  <2> QED BY <2>1, <2>4, <2>7
<1> QED BY <1>1, <1>2

\* The user's edit fits what is shown, and goes its way.
LEMMA EditStartSteady ==
    ASSUME BooksInv, Steady, EditStart
    PROVE  Steady'
<1>1. /\ pc = "idle" /\ support # "unsupported" /\ answer = None
      /\ UNCHANGED <<state, mirror, support, conflicts, local, answer, resolving, dropped>>
  BY DEF EditStart, storeVars, BooksInv, Locked
<1>2. PICK op \in UserRequests(Snapshot) :
        IF support = "unknown"
        THEN pc' = "probe" /\ task' = [id |-> NextEdit, op |-> op] /\ UNCHANGED <<queue, rows>>
        ELSE Route(NextEdit, op)
  BY DEF EditStart
<1>3. PICK f : Level(f)
  BY <1>1 DEF Steady, Going
<1>4. /\ Plays(f) /\ Posted /\ Known
      /\ DOMAIN queue # {} => Built(First(queue).op, mirror) /\ Ahead(First(queue).op)
      /\ DOMAIN queue = {} => state = mirror
  BY <1>1, <1>3 DEF Level, Steady
<1>5. Shown(Snapshot) /\ View(Snapshot) = f[rows] /\ (DOMAIN queue = {} => Snapshot = mirror)
  <2>1. rows \in Nat
    BY DEF BooksInv, Tabled
  <2>2. Sound(mirror) /\ \A r \in DOMAIN queue : Formed(queue[r].op)
    BY <1>4 DEF Known
  <2> QED BY <1>4, <2>1, <2>2, SnapshotPlays
<1>6. Formed(op) /\ Fits(op, f[rows]) /\ (DOMAIN queue = {} => Built(op, mirror))
  <2>1. Formed(op) /\ Fits(op, View(Snapshot)) /\ Built(op, Snapshot)
    BY <1>5, RequestFits
  <2> QED BY <1>5, <2>1
<1>7. Posted' /\ Known' /\ (\E g : Level(g)') /\ pc' \in {"idle", "probe", "direct"}
  <2>1. CASE support = "unknown"
    <3>1. /\ pc' = "probe" /\ task' = [id |-> NextEdit, op |-> op] /\ UNCHANGED <<queue, rows>>
      BY <1>2, <2>1
    <3>2. DOMAIN queue = {}
      BY <1>4, <2>1 DEF Posted
    <3>3. task'.op = op
      BY <3>1
    <3>4. Posted' /\ Known'
      BY <1>1, <1>4, <1>6, <3>1, <3>2, <3>3 DEF Posted, Known
    <3>5. Plays(f)'
      BY <1>1, <1>4, <3>1, PlaysStays
    <3>6. f[rows] = View(mirror)
      BY <1>4, <3>2, Flat DEF BooksInv, Tabled
    <3>7. Built(task'.op, mirror') /\ Fits(task'.op, View(mirror')) /\ state' = mirror'
      BY <1>1, <1>4, <1>6, <3>2, <3>3, <3>6
    <3>8. Level(f)'
      BY <3>1, <3>2, <3>5, <3>7 DEF Level
    <3> QED BY <3>1, <3>4, <3>8
  <2>2. CASE support # "unknown"
    <3>1. Route(NextEdit, op) /\ support' \in {"unknown", "supported"}
      BY <1>1, <1>2, <1>4, <2>2 DEF Posted
    <3> QED BY <1>1, <1>4, <1>6, <3>1, RoutedSteady
  <2> QED BY <2>1, <2>2
<1>8. Calm' /\ Told'
  BY <1>1 DEF Steady, Calm, Told
<1> QED BY <1>7, <1>8 DEF Steady

\* A probe tells the device nothing new, or that the equalizer is gone.
LEMMA ProbeSteady ==
    ASSUME BooksInv, Steady, ProbeAnswered
    PROVE  Steady'
<1>1. /\ pc = "probe" /\ answer # None /\ answer' = None
      /\ UNCHANGED <<state, conflicts, resolving, dropped>>
  BY DEF ProbeAnswered, storeVars
<1>2. DOMAIN queue = {} /\ support # "unsupported" /\ Formed(task.op) /\ Posted /\ Known
  BY <1>1 DEF Steady, Posted, Known
<1>3. PICK f : Level(f)
  BY <1>1, <1>2 DEF Steady, Going
<1>4. Plays(f) /\ Built(task.op, mirror) /\ Fits(task.op, View(mirror)) /\ state = mirror
  BY <1>1, <1>2, <1>3 DEF Level
<1>5. f[rows] = View(mirror)
  BY <1>2, <1>4, Flat DEF BooksInv, Tabled
<1>6. Calm' /\ Told'
  BY <1>1 DEF Steady, Calm, Told
<1>7. CASE answer.code = "ok"
  <2>1. answer.state = state /\ answer # Down /\ answer # Absent
    BY <1>1, <1>7, GoodAnswer DEF Steady
  <2>2. Mirrored(answer.state) /\ Route(task.id, task.op)
    BY <1>7, <2>1 DEF ProbeAnswered
  <2>3. mirror' = mirror /\ support' = "supported"
    BY <1>4, <2>1, <2>2 DEF Mirrored
  <2>4. Posted' /\ Known' /\ \E g : Level(g)'
    BY <1>1, <1>2, <1>4, <1>5, <2>2, <2>3, RoutedSteady
  <2> QED BY <1>6, <2>4 DEF Steady
<1>8. CASE answer = Down
  <2>1. Route(task.id, task.op) /\ UNCHANGED <<mirror, support>>
    BY <1>8 DEF ProbeAnswered, Down, Absent
  <2>2. support' \in {"unknown", "supported"}
    BY <1>2, <2>1 DEF Posted
  <2>3. Posted' /\ Known' /\ \E g : Level(g)'
    BY <1>1, <1>2, <1>4, <1>5, <2>1, <2>2, RoutedSteady
  <2> QED BY <1>6, <2>3 DEF Steady
<1>9. CASE answer = Absent
  <2>1. support' = "unsupported" /\ pc' = "idle" /\ UNCHANGED <<mirror, queue, rows>>
    BY <1>9 DEF ProbeAnswered, Down, Absent
  <2>2. Posted' /\ Known' /\ ~Going'
    BY <1>1, <1>2, <2>1 DEF Posted, Known, Going
  <2> QED BY <1>6, <2>2 DEF Steady
<1> QED BY <1>1, <1>7, <1>8, <1>9 DEF Steady, Told

\* A mirror that has just been filled is level if nothing is queued.
LEMMA FilledLevel ==
    ASSUME rows' \in Nat, DOMAIN queue' = {}, mirror' = state', pc' \notin {"probe", "direct"}
    PROVE  \E g : Level(g)'
<1>1. PICK g : g = [n \in 0 .. rows' |-> View(mirror')]
  OBVIOUS
<1>2. \A n \in 0 .. rows' : g[n] = View(mirror')
  BY <1>1
<1>3. 0 \in 0 .. rows' /\ \A n \in 1 .. rows' : n \in 0 .. rows' /\ n - 1 \in 0 .. rows'
  OBVIOUS
<1>4. Plays(g)'
  BY <1>2, <1>3 DEF Plays
<1>5. Level(g)'
  BY <1>4 DEF Level
<1> QED BY <1>5

\* The first probe fills the mirror.
LEMMA SyncProbeSteady ==
    ASSUME BooksInv, Steady, SyncProbeAnswered
    PROVE  Steady'
<1>1. /\ pc = "sync probe" /\ answer # None /\ answer' = None
      /\ UNCHANGED <<state, queue, conflicts, local, resolving, dropped, rows>>
  BY DEF SyncProbeAnswered, storeVars, history
<1>2. DOMAIN queue = {} /\ DOMAIN queue' = {} /\ Posted /\ Known /\ rows \in Nat
  BY <1>1 DEF Steady, Posted, BooksInv, Tabled
<1>3. Calm' /\ Told'
  BY <1>1 DEF Steady, Calm, Told
<1>4. CASE answer.code = "ok"
  <2>1. answer.state = state /\ answer # Down /\ answer # Absent
    BY <1>1, <1>4, GoodAnswer DEF Steady
  <2>2. mirror' = state' /\ support' = "supported" /\ pc' = "pull"
    BY <1>1, <1>2, <1>4, <2>1 DEF SyncProbeAnswered, Mirrored, Loop, Some
  <2>3. Posted' /\ Known'
    BY <1>1, <1>2, <2>2 DEF Posted, Known
  <2>4. \E g : Level(g)'
    BY <1>1, <1>2, <2>2, FilledLevel
  <2> QED BY <1>3, <2>3, <2>4 DEF Steady
<1>5. CASE answer = Down
  <2>1. pc' = "idle" /\ UNCHANGED <<mirror, support>>
    BY <1>5 DEF SyncProbeAnswered, Down, Absent
  <2>2. Posted' /\ Known'
    BY <1>1, <1>2, <2>1 DEF Posted, Known
  <2>3. Going' => Going
    BY <1>1, <2>1 DEF Going
  <2>4. ASSUME NEW f, Level(f)
        PROVE  Level(f)'
    BY <1>1, <2>1, <2>4, LevelStays
  <2> QED BY <1>3, <2>2, <2>3, <2>4 DEF Steady
<1>6. CASE answer = Absent
  <2>1. pc' = "idle" /\ support' = "unsupported" /\ mirror' = mirror
    BY <1>6 DEF SyncProbeAnswered, Down, Absent
  <2>2. Posted' /\ Known' /\ ~Going'
    BY <1>1, <1>2, <2>1 DEF Posted, Known, Going
  <2> QED BY <1>3, <2>2 DEF Steady
<1> QED BY <1>1, <1>4, <1>5, <1>6 DEF Steady, Told

\* A direct edit is done, or queued to be sent again.
LEMMA DirectSteady ==
    ASSUME BooksInv, Steady, DirectAnswered, cut' = {}
    PROVE  Steady'
<1>1. /\ pc = "direct" /\ answer # None /\ answer' = None /\ pc' = "idle" /\ task' = None
      /\ UNCHANGED <<state, conflicts, resolving>>
  BY DEF DirectAnswered, Idle, storeVars
<1>2. /\ DOMAIN queue = {} /\ support # "unsupported" /\ Formed(task.op) /\ Posted /\ Known
      /\ rows \in Nat
  BY <1>1 DEF Steady, Posted, Known, BooksInv, Tabled
<1>3. PICK f : Level(f)
  BY <1>1, <1>2 DEF Steady, Going
<1>4. CASE answer.code = "ok"
  <2>1. answer.state = state /\ answer # Down /\ answer # Absent
    BY <1>1, <1>4, GoodAnswer DEF Steady
  <2>2. mirror' = state' /\ support' = "supported" /\ UNCHANGED <<queue, rows, local, dropped>>
    BY <1>1, <1>4, <2>1 DEF DirectAnswered, Mirrored
  <2>3. Posted' /\ Known' /\ Calm' /\ Told'
    BY <1>1, <1>2, <2>2 DEF Posted, Known, Steady, Calm, Told
  <2>4. \E g : Level(g)'
    BY <1>1, <1>2, <2>2, FilledLevel
  <2> QED BY <2>3, <2>4 DEF Steady
<1>5. CASE answer = Absent
  <2>1. support' = "unsupported" /\ UNCHANGED <<mirror, queue, rows, dropped>>
    BY <1>5 DEF DirectAnswered, Absent, Down
  <2>2. Posted' /\ Known' /\ Calm' /\ Told' /\ ~Going'
    BY <1>1, <1>2, <2>1 DEF Posted, Known, Steady, Calm, Told, Going
  <2> QED BY <2>2 DEF Steady
<1>6. CASE answer = Down
  <2>1. /\ IF support = "unknown" \/ ~complete
           THEN /\ local' = local \cup {task.id} /\ cut' = cut \cup {task.id}
                /\ UNCHANGED <<queue, rows>>
           ELSE Enqueue(task.id, task.op) /\ UNCHANGED <<local, cut>>
        /\ UNCHANGED <<mirror, support, dropped>>
    BY <1>6 DEF DirectAnswered, Absent, Down
  <2>2. support = "supported" /\ Enqueue(task.id, task.op)
    BY <1>2, <2>1 DEF Posted
  <2>3. /\ DOMAIN queue' = DOMAIN queue \cup {rows + 1}
        /\ queue'[rows + 1].op = task.op /\ First(queue').op = task.op
    BY <1>2, <2>2, EnqueueOps DEF BooksInv
  <2>4. Posted' /\ Known' /\ Calm' /\ Told'
    BY <1>1, <1>2, <2>1, <2>2, <2>3 DEF Posted, Known, Steady, Calm, Told
  <2>5. Plays(f) /\ Built(task.op, mirror) /\ Fits(task.op, View(mirror)) /\ Ahead(task.op)
    BY <1>1, <1>3 DEF Level
  <2>6. f[rows] = View(mirror)
    BY <1>2, <2>5, Flat
  <2>7. PICK g : Plays(g)'
    BY <2>1, <2>2, <2>5, <2>6, EnqueuePlays DEF BooksInv
  <2>8. Built(First(queue').op, mirror') /\ Ahead(First(queue).op)'
    BY <1>1, <2>1, <2>3, <2>5 DEF Ahead
  <2>9. Level(g)'
    BY <1>1, <2>3, <2>7, <2>8 DEF Level
  <2> QED BY <2>4, <2>9 DEF Steady
<1> QED BY <1>1, <1>4, <1>5, <1>6 DEF Steady, Told

\* A pull finds what the mirror has.
LEMMA PullSteady ==
    ASSUME BooksInv, Steady, PullAnswered
    PROVE  Steady'
<1>1. /\ pc = "pull" /\ answer # None /\ answer' = None /\ pc' = "idle"
      /\ UNCHANGED <<state, queue, conflicts, local, resolving, dropped, rows>>
  BY DEF PullAnswered, Idle, storeVars, history
<1>2. DOMAIN queue = {} /\ support = "supported" /\ Posted /\ Known
  BY <1>1 DEF Steady, Posted
<1>3. PICK f : Level(f)
  BY <1>1, <1>2 DEF Steady, Going
<1>4. state = mirror
  BY <1>1, <1>2, <1>3 DEF Level
<1>5. Calm' /\ Told'
  BY <1>1 DEF Steady, Calm, Told
<1>6. CASE answer = Absent
  <2>1. support' = "unsupported" /\ mirror' = mirror
    BY <1>6 DEF PullAnswered, Absent, Down
  <2>2. Posted' /\ Known' /\ ~Going'
    BY <1>1, <1>2, <2>1 DEF Posted, Known, Going
  <2> QED BY <1>5, <2>2 DEF Steady
<1>7. CASE answer # Absent
  <2>1. mirror' = mirror /\ support' = "supported"
    <3>1. CASE answer.code = "ok"
      <4>1. answer.state = state /\ answer # Down /\ answer # Absent
        BY <1>1, <3>1, GoodAnswer DEF Steady
      <4> QED BY <1>4, <3>1, <4>1 DEF PullAnswered
    <3>2. CASE answer = Down
      BY <1>2, <3>2 DEF PullAnswered, Down, Absent
    <3> QED BY <1>1, <1>7, <3>1, <3>2 DEF Steady, Told
  <2>2. Posted' /\ Known'
    BY <1>1, <1>2, <2>1 DEF Posted, Known
  <2>3. Level(f)'
    BY <1>1, <1>3, <2>1, LevelStays
  <2> QED BY <1>5, <2>2, <2>3 DEF Steady
<1> QED BY <1>6, <1>7

\* The edit a request carries.
Carries(op) == (pc = "direct" /\ op = task.op) \/ (pc = "head" /\ op = First(queue).op)

\* The server takes the edit that a request carries, once.
LEMMA CarriedSettles ==
    ASSUME BooksInv, Steady, NEW op, Carries(op)
    PROVE  \E t : /\ t = Serve(mirror, op).state /\ Sound(t) /\ View(t) = Play(op, View(mirror))
                  /\ Serve(state, op) = Unchanged(t) /\ Serve(t, op) = Unchanged(t)
<1>1. pc \in {"direct", "head"} /\ Posted /\ Known
  BY DEF Carries, Steady
<1>2. PICK f : Level(f)
  BY <1>1 DEF Steady, Going, Posted
<1>3. Sound(mirror) /\ Formed(op) /\ Built(op, mirror) /\ Fits(op, View(mirror)) /\ Ahead(op)
  <2>1. CASE pc = "direct" /\ op = task.op
    BY <1>1, <1>2, <2>1 DEF Level, Known
  <2>2. CASE pc = "head" /\ op = First(queue).op
    <3>1. DOMAIN queue # {} /\ Tabled
      BY <2>2 DEF BooksInv, Locked, Some
    <3>2. Plays(f) /\ Built(op, mirror) /\ Ahead(op)
      BY <1>2, <2>2, <3>1 DEF Level
    <3>3. Oldest(DOMAIN queue) \in DOMAIN queue /\ Fits(op, View(mirror))
      BY <2>2, <3>1, <3>2, HeadFits
    <3>4. Sound(mirror) /\ Formed(op)
      BY <1>1, <2>2, <3>3 DEF Known, First
    <3> QED BY <3>2, <3>3, <3>4
  <2> QED BY <2>1, <2>2 DEF Carries
<1> QED BY <1>3, Settles

\* The server has what it had, or the edit that a request carries.
LEMMA AskedSteady ==
    ASSUME BooksInv, Steady, Told',
           UNCHANGED <<mirror, queue, rows, support, pc, task, conflicts, resolving, dropped, local>>,
           state' = state \/ \E op : Carries(op) /\ state' = Serve(mirror, op).state
    PROVE  Steady'
<1>1. CASE state' = state
  <2>1. Calm' /\ Posted' /\ Known'
    BY <1>1 DEF Steady, Calm, Posted, Known
  <2>2. Going' => Going
    BY DEF Going
  <2>3. ASSUME NEW f, Level(f)
        PROVE  Level(f)'
    BY <1>1, <2>3, LevelStays
  <2> QED BY <2>1, <2>2, <2>3 DEF Steady
<1>2. CASE \E op : Carries(op) /\ state' = Serve(mirror, op).state
  <2>1. PICK op : Carries(op) /\ state' = Serve(mirror, op).state
    BY <1>2
  <2>2. Sound(state')
    BY <2>1, CarriedSettles
  <2>3. Calm' /\ Posted'
    BY DEF Steady, Calm, Posted
  <2>4. Known'
    BY <2>2 DEF Steady, Known
  <2>5. PICK f : Level(f)
    BY <2>1 DEF Carries, Steady, Going, Posted
  <2>6. Plays(f)'
    BY <2>5, PlaysStays DEF Level
  <2>7. CASE pc = "direct" /\ op = task.op
    <3>1. DOMAIN queue' = {}
      BY <2>7 DEF Steady, Posted
    <3>2. Ahead(task.op)'
      BY <2>1, <2>7 DEF Ahead
    <3>3. Built(task'.op, mirror') /\ Fits(task'.op, View(mirror'))
      BY <2>5, <2>7 DEF Level
    <3>4. Level(f)'
      BY <2>6, <2>7, <3>1, <3>2, <3>3 DEF Level
    <3> QED BY <2>3, <2>4, <3>4 DEF Steady
  <2>8. CASE pc = "head" /\ op = First(queue).op
    <3>1. DOMAIN queue' # {} /\ DOMAIN queue # {} /\ First(queue') = First(queue)
      BY <2>8 DEF BooksInv, Locked, Some, First
    <3>2. Ahead(First(queue).op)'
      BY <2>1, <2>8, <3>1 DEF Ahead
    <3>3. Built(First(queue').op, mirror')
      BY <2>5, <3>1 DEF Level
    <3>4. Level(f)'
      BY <2>6, <2>8, <3>1, <3>2, <3>3 DEF Level
    <3> QED BY <2>3, <2>4, <3>4 DEF Steady
  <2> QED BY <2>1, <2>7, <2>8 DEF Carries
<1> QED BY <1>1, <1>2

\* What a request does to the server.
LEMMA ServedByPlace ==
    ASSUME Asking, NEW s
    PROVE  /\ ~served => Outcome(s) = Absent /\ Served(s) = s
           /\ served /\ pc \in {"probe", "sync probe", "pull"} => Outcome(s) = Unchanged(s)
           /\ served /\ pc = "direct" => Outcome(s) = Serve(s, task.op)
           /\ served /\ pc = "head" => Outcome(s) = Serve(s, First(queue).op)
           /\ served => Served(s) = Outcome(s).state
<1>1. ~served => Outcome(s) = Absent /\ Served(s) = s
  BY DEF Outcome, Served
<1>2. served => Served(s) = Outcome(s).state
  BY DEF Served
<1>3. served /\ pc \in {"probe", "sync probe", "pull"} => Outcome(s) = Unchanged(s)
  BY DEF Outcome
<1>4. served /\ pc = "direct" => Outcome(s) = Serve(s, task.op)
  BY DEF Outcome
<1>5. served /\ pc = "head" => Outcome(s) = Serve(s, First(queue).op)
  BY DEF Outcome
<1> QED BY <1>1, <1>2, <1>3, <1>4, <1>5

\* However often it is served, a request is answered well or not at all.
LEMMA ServedOnce ==
    ASSUME BooksInv, Steady, Asking
    PROVE  \/ /\ ~served /\ Served(state) = state /\ Outcome(state) = Absent
           \/ /\ served /\ pc \in {"probe", "sync probe", "pull"}
              /\ Served(state) = state /\ Outcome(state) = Unchanged(state)
           \/ /\ served
              /\ \E op, t : /\ Carries(op) /\ t = Serve(mirror, op).state
                            /\ Outcome(state) = Unchanged(t) /\ Served(state) = t
                            /\ Outcome(t) = Unchanged(t) /\ Served(t) = t
<1>1. CASE ~served
  BY <1>1, ServedByPlace
<1>2. CASE served /\ pc \in {"probe", "sync probe", "pull"}
  <2>1. Outcome(state) = Unchanged(state) /\ Served(state) = Outcome(state).state
    BY <1>2, ServedByPlace
  <2>2. Unchanged(state).state = state
    BY DEF Unchanged
  <2> QED BY <1>2, <2>1, <2>2
<1>3. CASE served /\ pc \in {"direct", "head"}
  <2>1. PICK op : Carries(op) /\ op = IF pc = "direct" THEN task.op ELSE First(queue).op
    BY <1>3 DEF Carries
  <2>2. ASSUME NEW s
        PROVE  Outcome(s) = Serve(s, op) /\ Served(s) = Outcome(s).state
    <3>1. CASE pc = "direct"
      BY <1>3, <2>1, <3>1, ServedByPlace
    <3>2. CASE pc = "head"
      BY <1>3, <2>1, <3>2, ServedByPlace
    <3> QED BY <1>3, <3>1, <3>2
  <2>3. PICK t : /\ t = Serve(mirror, op).state
                 /\ Serve(state, op) = Unchanged(t) /\ Serve(t, op) = Unchanged(t)
    BY <2>1, CarriedSettles
  <2>4. Unchanged(t).state = t
    BY DEF Unchanged
  <2>5. Outcome(state) = Unchanged(t) /\ Outcome(t) = Unchanged(t)
    BY <2>2, <2>3
  <2>6. Served(state) = t /\ Served(t) = t
    BY <2>2, <2>4, <2>5
  <2> QED BY <1>3, <2>1, <2>3, <2>5, <2>6
<1> QED BY <1>1, <1>2, <1>3 DEF Asking

\* A request is served once or twice, and answered well.
LEMMA RequestSteady ==
    ASSUME BooksInv, Steady, Request
    PROVE  Steady'
<1>1. /\ Asking
      /\ UNCHANGED <<mirror, queue, rows, support, pc, task, conflicts, resolving, dropped, local>>
  BY DEF Request, device, history
<1>2. PICK s \in {state, Served(state)} :
        /\ state' = Served(s)
        /\ answer' = IF Outcome(s).code = "ok" THEN Outcome(s) ELSE [code |-> Outcome(s).code]
  BY DEF Request
<1>3. CASE ~served /\ Served(state) = state /\ Outcome(state) = Absent
  <2>1. state' = state /\ answer' = [code |-> Outcome(state).code]
    BY <1>2, <1>3, Codes
  <2>2. answer' = Absent
    BY <1>3, <2>1 DEF Absent
  <2>3. Told'
    BY <2>2, Codes DEF Told
  <2> QED BY <1>1, <2>1, <2>3, AskedSteady
<1>4. CASE /\ pc \in {"probe", "sync probe", "pull"}
           /\ Served(state) = state /\ Outcome(state) = Unchanged(state)
  <2>1. state' = state /\ answer' = Unchanged(state)
    <3>1. s = state
      BY <1>4
    <3>2. Unchanged(state).code = "ok"
      BY DEF Unchanged
    <3> QED BY <1>2, <1>4, <3>1, <3>2
  <2>2. Told'
    BY <1>1, <1>4, <2>1 DEF Told, Unchanged
  <2> QED BY <1>1, <2>1, <2>2, AskedSteady
<1>5. CASE \E op, t : /\ Carries(op) /\ t = Serve(mirror, op).state
                      /\ Outcome(state) = Unchanged(t) /\ Served(state) = t
                      /\ Outcome(t) = Unchanged(t) /\ Served(t) = t
  <2>1. PICK op, t : /\ Carries(op) /\ t = Serve(mirror, op).state
                     /\ Outcome(state) = Unchanged(t) /\ Served(state) = t
                     /\ Outcome(t) = Unchanged(t) /\ Served(t) = t
    BY <1>5
  <2>2. state' = t /\ Outcome(s) = Unchanged(t)
    BY <1>2, <2>1
  <2>3. Unchanged(t).code = "ok" /\ Unchanged(t).state = t
    BY DEF Unchanged
  <2>4. answer' = Unchanged(t)
    BY <1>2, <2>2, <2>3
  <2>5. answer'.code = "ok" /\ answer'.state = state'
    BY <2>2, <2>3, <2>4
  <2>6. pc' = "head" => state' = Serve(mirror', First(queue').op).state
    BY <1>1, <2>1, <2>2 DEF Carries
  <2>7. Told'
    BY <2>5, <2>6 DEF Told
  <2> QED BY <1>1, <2>1, <2>2, <2>7, AskedSteady
<1> QED BY <1>1, <1>3, <1>4, <1>5, ServedOnce

\* A request is lost before the server has it, or after.
LEMMA LoseSteady ==
    ASSUME BooksInv, Steady, Lose
    PROVE  Steady'
<1>1. /\ Asking /\ answer' = Down /\ state' \in {state, Served(state)}
      /\ UNCHANGED <<mirror, queue, rows, support, pc, task, conflicts, resolving, dropped, local>>
  BY DEF Lose, device
<1>2. Told'
  BY <1>1, Codes DEF Told
<1>3. state' = state \/ \E op : Carries(op) /\ state' = Serve(mirror, op).state
  BY <1>1, ServedOnce
<1> QED BY <1>1, <1>2, <1>3, AskedSteady

\* The rows behind an acknowledged one do what they did, built on the new state.
LEMMA AcknowledgedPlays ==
    ASSUME Tabled, Known, NEW f, Plays(f), DOMAIN queue # {},
           NEW t, View(t) = f[Oldest(DOMAIN queue)],
           queue' = [r \in DOMAIN queue \ {Oldest(DOMAIN queue)} |-> [queue[r] EXCEPT !.op = Rebase(@, t)]],
           mirror' = t, rows' = rows
    PROVE  /\ \E g : Plays(g)'
           /\ \A r \in DOMAIN queue' : Formed(queue'[r].op) /\ Built(queue'[r].op, t)
<1>1. PICK h : h = Oldest(DOMAIN queue)
  OBVIOUS
<1>2. /\ rows \in Nat /\ DOMAIN queue \subseteq 1 .. rows
      /\ h \in 1 .. rows /\ h \in DOMAIN queue /\ \A r \in DOMAIN queue : h <= r
  BY <1>1, HeadFits DEF Tabled
<1>3. /\ DOMAIN queue' = DOMAIN queue \ {h}
      /\ \A r \in DOMAIN queue' : queue'[r].op = Rebase(queue[r].op, t)
  <2>1. \A r \in DOMAIN queue : queue[r] = [x \in RowFields |-> queue[r][x]]
    BY DEF Tabled
  <2>2. \A r \in DOMAIN queue : [queue[r] EXCEPT !.op = Rebase(@, t)].op = Rebase(queue[r].op, t)
    BY <2>1 DEF RowFields
  <2> QED BY <1>1, <2>2
<1>4. ASSUME NEW r \in DOMAIN queue'
      PROVE  /\ Formed(queue'[r].op) /\ Built(queue'[r].op, t)
             /\ \A v : /\ Play(queue'[r].op, v) = Play(queue[r].op, v)
                       /\ Fits(queue'[r].op, v) <=> Fits(queue[r].op, v)
  <2>1. PICK o, op : o = queue'[r].op /\ op = queue[r].op
    OBVIOUS
  <2>2. o = Rebase(op, t) /\ Formed(op)
    BY <1>3, <2>1 DEF Known
  <2>3. Formed(o) /\ Built(o, t) /\ Alike(o, op)
    BY <2>2, RebaseBuilds
  <2>4. op.kind \in Kinds
    BY <2>2 DEF Formed
  <2>5. \A v : Play(o, v) = Play(op, v) /\ (Fits(o, v) <=> Fits(op, v))
    BY <2>3, <2>4, AlikePlay
  <2> QED BY <2>1, <2>3, <2>5
<1>5. PICK g : g = [n \in 0 .. rows |-> IF n <= h THEN View(t) ELSE f[n]]
  OBVIOUS
<1>6. /\ \A n \in 0 .. rows : n <= h => g[n] = View(t)
      /\ \A n \in 0 .. rows : n >= h => g[n] = f[n]
  <2>1. View(t) = f[h]
    BY <1>1
  <2>2. h \in Nat
    BY <1>2
  <2>3. \A n \in 0 .. rows : g[n] = IF n <= h THEN View(t) ELSE f[n]
    BY <1>5
  <2>4. ASSUME NEW n \in 0 .. rows, n >= h
        PROVE  g[n] = f[n]
    <3>1. CASE n = h
      BY <2>1, <2>2, <2>3, <3>1
    <3>2. CASE n # h
      <4>1. ~(n <= h)
        BY <2>2, <2>4, <3>2
      <4> QED BY <2>3, <4>1
    <3> QED BY <3>1, <3>2
  <2> QED BY <2>3, <2>4
<1>7. ASSUME NEW n \in 1 .. rows
      PROVE  /\ n \in DOMAIN queue' => g[n] = Play(queue'[n].op, g[n - 1]) /\ Fits(queue'[n].op, g[n - 1])
             /\ n \notin DOMAIN queue' => g[n] = g[n - 1]
  <2>1. n \in 0 .. rows /\ n - 1 \in 0 .. rows
    BY <1>2
  <2>2. CASE n <= h
    <3>1. n - 1 <= h
      BY <1>2, <2>2
    <3>2. ASSUME n \in DOMAIN queue'
          PROVE  FALSE
      <4>1. h <= n /\ n # h
        BY <1>2, <1>3, <3>2
      <4> QED BY <1>2, <2>2, <4>1
    <3> QED BY <1>6, <2>1, <2>2, <3>1, <3>2
  <2>3. CASE n > h
    <3>1. n >= h /\ n - 1 >= h
      BY <1>2, <2>3
    <3>2. g[n] = f[n] /\ g[n - 1] = f[n - 1]
      BY <1>6, <2>1, <3>1
    <3>3. n # h /\ (n \in DOMAIN queue' <=> n \in DOMAIN queue)
      BY <1>2, <1>3, <2>3
    <3>4. /\ n \in DOMAIN queue => f[n] = Play(queue[n].op, f[n - 1]) /\ Fits(queue[n].op, f[n - 1])
          /\ n \notin DOMAIN queue => f[n] = f[n - 1]
      BY DEF Plays
    <3>5. CASE n \in DOMAIN queue'
      <4>1. /\ Play(queue'[n].op, f[n - 1]) = Play(queue[n].op, f[n - 1])
            /\ Fits(queue'[n].op, f[n - 1]) <=> Fits(queue[n].op, f[n - 1])
        BY <1>4, <3>5
      <4> QED BY <3>2, <3>3, <3>4, <3>5, <4>1
    <3>6. CASE n \notin DOMAIN queue'
      BY <3>2, <3>3, <3>4, <3>6
    <3> QED BY <3>5, <3>6
  <2> QED BY <1>2, <2>2, <2>3
<1>8. g[0] = View(mirror')
  BY <1>2, <1>6
<1>9. Plays(g)'
  BY <1>7, <1>8 DEF Plays
<1> QED BY <1>4, <1>9

\* The head has been done, and the rows behind it meet the new state.
LEMMA AcknowledgeSteady ==
    ASSUME BooksInv, Steady, HeadAnswered, Acknowledge
    PROVE  Steady'
<1>1. /\ pc = "head" /\ answer # None /\ answer.code = "ok" /\ answer' = None
      /\ UNCHANGED <<state, conflicts, resolving, dropped, rows>>
      /\ mirror' = answer.state /\ support' = "supported" /\ pc' = Loop(queue')
  BY DEF HeadAnswered, Acknowledge, Mirrored, storeVars
<1>2. queue' = [r \in DOMAIN queue \ {Oldest(DOMAIN queue)} |-> [queue[r] EXCEPT !.op = Rebase(@, answer.state)]]
  BY DEF Acknowledge
<1>3. DOMAIN queue # {} /\ Tabled /\ Posted /\ Known /\ Calm /\ Told
  BY <1>1 DEF BooksInv, Locked, Some, Steady
<1>4. PICK f : Level(f)
  BY <1>1, <1>3 DEF Steady, Going, Posted
<1>5. Plays(f)
  BY <1>4 DEF Level
<1>6. PICK t : t = answer.state /\ t = state /\ t = Serve(mirror, First(queue).op).state
  BY <1>1, <1>3, GoodAnswer DEF Told
<1>7. Sound(t) /\ View(t) = Play(First(queue).op, View(mirror))
  BY <1>1, <1>6, CarriedSettles DEF Carries
<1>8. View(t) = f[Oldest(DOMAIN queue)]
  BY <1>3, <1>5, <1>7, HeadFits
<1>9. /\ \E g : Plays(g)'
      /\ \A r \in DOMAIN queue' : Formed(queue'[r].op) /\ Built(queue'[r].op, t)
  BY <1>1, <1>2, <1>3, <1>5, <1>6, <1>8, AcknowledgedPlays
<1>10. state' = t /\ mirror' = t
  BY <1>1, <1>6
<1>11. pc' \in {"head", "pull"} /\ (pc' = "pull" => DOMAIN queue' = {})
  BY <1>1 DEF Loop, Some
<1>12. Calm' /\ Posted' /\ Told'
  BY <1>1, <1>3, <1>11 DEF Calm, Posted, Told
<1>13. Known'
  BY <1>7, <1>9, <1>10, <1>11 DEF Known
<1>14. PICK g : Plays(g)'
  BY <1>9
<1>15. DOMAIN queue' # {} => Built(First(queue').op, mirror') /\ Ahead(First(queue).op)'
  <2>1. ASSUME DOMAIN queue' # {}
        PROVE  Built(First(queue').op, t)
    <3>1. DOMAIN queue' \subseteq Nat
      BY <1>2, <1>3 DEF Tabled
    <3>2. Oldest(DOMAIN queue') \in DOMAIN queue'
      BY <2>1, <3>1, OldestLeast
    <3> QED BY <1>9, <3>2 DEF First
  <2> QED BY <1>10, <2>1 DEF Ahead
<1>16. Level(g)'
  BY <1>10, <1>11, <1>14, <1>15 DEF Level
<1> QED BY <1>12, <1>13, <1>16 DEF Steady

\* Whatever the answer for the head, it is no conflict.
LEMMA HeadSteady ==
    ASSUME BooksInv, Steady, HeadAnswered
    PROVE  Steady'
<1>1. /\ pc = "head" /\ answer # None /\ answer' = None
      /\ UNCHANGED <<state, local, resolving, dropped, rows>>
  BY DEF HeadAnswered, storeVars
<1>2. Posted /\ Known /\ Calm /\ Told /\ support = "supported"
  BY <1>1 DEF Steady, Posted
<1>3. CASE Acknowledge
  BY <1>3, AcknowledgeSteady
<1>4. ~SetAside
  <2>1. answer.code # "conflict"
    BY <1>1, <1>2, Codes DEF Told
  <2> QED BY <2>1 DEF SetAside
<1>5. CASE Stop \/ Abandon
  <2>1. pc' \in {"idle", "preserve"} /\ UNCHANGED <<mirror, support, queue, conflicts>>
    BY <1>5 DEF Stop, Abandon
  <2>2. Calm' /\ Posted' /\ Told' /\ Known'
    BY <1>1, <1>2, <2>1 DEF Calm, Posted, Told, Known
  <2>3. Going
    BY <1>1, <1>2 DEF Going
  <2>4. PICK f : Level(f)
    BY <2>3 DEF Steady
  <2>5. Level(f)'
    BY <1>1, <2>1, <2>4, LevelStays
  <2> QED BY <2>2, <2>5 DEF Steady
<1> QED BY <1>3, <1>4, <1>5 DEF HeadAnswered

\* No step of the device's own breaks the agreement.
LEMMA NextSteady ==
    ASSUME BooksInv, Steady, [SyncNext]_syncVars, ~OtherDevice, cut' = {}
    PROVE  Steady'
<1>1. CASE EditLocally \/ EditStart \/ SyncStart
  BY <1>1, EditLocallySteady, EditStartSteady, SyncStartSteady
<1>2. CASE Request \/ Lose
  BY <1>2, RequestSteady, LoseSteady
<1>3. CASE Answered
  BY <1>3, ProbeSteady, SyncProbeSteady, DirectSteady, HeadSteady, PullSteady DEF Answered
<1>4. CASE Preserve \/ Crash \/ Redeploy \/ UNCHANGED syncVars
  BY <1>4, PreserveSteady, CrashSteady, RedeploySteady, StutterSteady
<1> QED BY <1>1, <1>2, <1>3, <1>4, NothingToSettle DEF SyncNext

\* So the invariant is kept.
LEMMA NextAlone == BooksInv /\ AloneInv /\ [SyncNext]_syncVars => AloneInv'
<1> SUFFICES ASSUME BooksInv, AloneInv, [SyncNext]_syncVars
             PROVE  AloneInv'
  OBVIOUS
<1>1. spent'.others \in 0 .. MaxOthers /\ (ByItself' => ByItself /\ ~OtherDevice)
  BY OnceAlone DEF AloneInv, BooksInv
<1>2. ByItself' => Steady'
  <2>1. ASSUME ByItself'
        PROVE  Steady'
    <3>1. cut' = {} /\ Steady /\ ~OtherDevice
      BY <1>1, <2>1 DEF ByItself, AloneInv
    <3> QED BY <3>1, NextSteady
  <2> QED BY <2>1
<1> QED BY <1>1, <1>2 DEF AloneInv

\* A device that is by itself joins an empty account.
LEMMA JoinsEmpty ==
    ASSUME state \in Inherited, made = Present(state.profiles), ByItself
    PROVE  state = Empty
<1>1. ASSUME NEW p \in Profiles \ Mine, NEW n \in Names,
             state = [Empty EXCEPT !.profiles[p] = [name |-> n, revision |-> 1], !.revision = 1]
      PROVE  FALSE
  <2>1. [name |-> n, revision |-> 1] \in ProfileRow
    BY DEF ProfileRow
  <2>2. [name |-> n, revision |-> 1] # None
    BY <2>1, StoreAssumption
  <2>3. state.profiles = [Empty.profiles EXCEPT ![p] = [name |-> n, revision |-> 1]]
    BY <1>1 DEF Empty
  <2>4. DOMAIN state.profiles = Profiles /\ state.profiles[p] = [name |-> n, revision |-> 1]
    BY <2>3 DEF Empty
  <2>5. p \in made \cap Profiles
    BY <2>2, <2>4 DEF Present
  <2> QED BY <2>5 DEF ByItself, Alone
<1>2. (CHOOSE n \in Names : TRUE) \in Names
  BY SyncAssumption
<1> QED BY <1>1, <1>2 DEF Inherited

\* It holds when the device joins the account.
LEMMA InitAlone == SyncInit => AloneInv
<1> SUFFICES ASSUME SyncInit
             PROVE  AloneInv
  OBVIOUS
<1>1. /\ state \in Inherited /\ made = Present(state.profiles) /\ mirror = Empty /\ rows = 0
      /\ support = "unknown" /\ queue = NoRows /\ conflicts = NoRows /\ pc = "idle"
      /\ answer = None /\ resolving = None /\ dropped = {}
  BY DEF SyncInit
<1>2. spent.others \in 0 .. MaxOthers
  BY SyncAssumption DEF SyncInit
<1>3. DOMAIN queue = {} /\ DOMAIN conflicts = {}
  BY <1>1 DEF NoRows
<1>4. ASSUME ByItself
      PROVE  Steady
  <2>1. state = Empty
    BY <1>1, <1>4, JoinsEmpty
  <2>2. Sound(Empty)
    BY EmptyTyped DEF Sound
  <2>3. Calm /\ Posted /\ Told
    BY <1>1, <1>3 DEF Calm, Posted, Told
  <2>4. Known
    BY <1>1, <1>3, <2>1, <2>2 DEF Known
  <2>5. PICK f : Plays(f)
    BY <1>1, <1>3, NothingPlays
  <2>6. Level(f)
    BY <1>1, <1>3, <2>1, <2>5 DEF Level
  <2> QED BY <2>3, <2>4, <2>6 DEF Steady
<1> QED BY <1>2, <1>4 DEF AloneInv

\* It says that nothing is in conflict and nothing refused.
LEMMA AloneHolds == AloneInv => NeverAgainstItself
  BY DEF AloneInv, ByItself, Steady, Calm, NeverAgainstItself, Some

\* While nobody else writes to the account, and the device has let go of no edit that
\* the server may have, none of its edits conflicts or is refused, whatever fails.
THEOREM OwnEditsNeverConflict == SyncSpec => []NeverAgainstItself
<1>1. SyncInit => BooksInv /\ AloneInv
  BY InitBooks, InitAlone
<1>2. BooksInv /\ AloneInv /\ [SyncNext]_syncVars => (BooksInv /\ AloneInv)'
  BY NextBooks, NextAlone
<1>3. BooksInv /\ AloneInv => NeverAgainstItself
  BY AloneHolds
<1> QED BY <1>1, <1>2, <1>3, PTL DEF SyncSpec
=============================================================================
