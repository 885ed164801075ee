-------------------------- MODULE ConfigFormsProofs --------------------------
(***************************************************************************)
(* Theorems about ConfigForms: type correctness, that the audit log tells  *)
(* the settings, what a mapping leads to and when one made by hand is lost.*)
(***************************************************************************)
EXTENDS ConfigForms, FiniteSetTheorems, TLAPS

Mapping == [how : {"none", "auto", "manual"}, name : Names \cup {Nameless}]
Setting == [key : Keys, value : Values \cup {Bad}]
Saved   == [key : Keys, value : Values]

Forms ==
  [kind : {"none"}] \cup [kind : {"mapping"}, user : Users]
  \cup [kind : {"settings"}, saved : Seq(Saved), left : Seq(Setting)]

FormTyped ==
  /\ FormsTypeOK
  /\ form \in Forms
  /\ umap \in [Users -> Mapping] /\ draft \in [Users -> Mapping]

\* The write lock is that of the run, inside its pull or once it has rewritten a
\* row of the map; until then the run has nothing uncommitted, from then on the
\* map that it commits differs by one mapping made by hand at most.
RunInv ==
  /\ holder # "none" => holder = run.who /\ run.at \in {"held", "map", "put"}
  /\ run.at = "put" =>
       /\ run.who = "cli" /\ todo # << >>
       /\ holder # "none" => draft[Head(todo)].how # "manual"
  /\ run.at \in {"map", "put"} => Len(todo) <= Len(UserOrder)
  /\ run.at \in {"map", "put"} /\ holder # "none" => Len(todo) < Len(UserOrder)
  /\ holder = "none" \/ run.at \notin {"map", "put"} => draft = umap
  /\ run.at \in {"map", "put"} =>
       \E u : \A w \in Users \ {u} : umap[w].how = "manual" => draft[w].how = "manual"

-----------------------------------------------------------------------------
(* Type correctness.                                                       *)

LEMMA FormKinds ==
  ASSUME form \in Forms
  PROVE  /\ form.kind = "settings" =>
              form.saved \in Seq(Saved) /\ form.left \in Seq(Setting)
         /\ form.kind = "mapping" => form.user \in Users
         /\ form.kind \in {"none", "mapping", "settings"}
BY DEF Forms

LEMMA SavedAreKeys == form \in Forms => SavedKeys \subseteq Keys
<1>1. ASSUME form \in Forms, form.kind = "settings", NEW i \in DOMAIN form.saved
      PROVE  form.saved[i].key \in Keys
  <2>1. form.saved \in Seq(Saved)
    BY <1>1, FormKinds
  <2>2. form.saved[i] \in Saved
    BY <1>1, <2>1
  <2> QED
    BY <2>2 DEF Saved
<1> QED
  BY <1>1 DEF SavedKeys

LEMMA RunPlaces ==
  ASSUME FormsTypeOK, NEW who \in {"task", "cli"},
         NEW place \in Over \cup {"pull", "held", "users", "requests", "map", "put", "judge", "missed"}
  PROVE  /\ [run EXCEPT !.at = place].who = run.who
         /\ [run EXCEPT !.at = place].at = place
         /\ [run EXCEPT !.at = place] \in [who : {"task", "cli"},
              at : Over \cup {"pull", "held", "users", "requests", "map", "put", "judge", "missed"}]
BY DEF FormsTypeOK

LEMMA FormTypedInit == FormsInit => FormTyped
<1> SUFFICES ASSUME FormsInit PROVE FormTyped
  OBVIOUS
<1>1. Unmapped \in Mapping /\ 0 \in Names
  BY FormsAssumption DEF Unmapped, Mapping, Names
<1>2. << >> \in Seq(Users)
  OBVIOUS
<1>3. NoForm \in Forms /\ NoForm.kind = "none"
  BY DEF NoForm, Forms
<1> QED
  BY <1>1, <1>2, <1>3, FormsAssumption DEF FormsInit, FormTyped, FormsTypeOK, NoList, Mapping, Over

LEMMA FormTypedForms ==
  FormTyped /\ (FormStep \/ SubmitSettings \/ \E u \in Users : SubmitMapping(u)) => FormTyped'
<1> SUFFICES ASSUME FormTyped, FormStep \/ SubmitSettings \/ \E u \in Users : SubmitMapping(u)
             PROVE  FormTyped'
  OBVIOUS
<1>k. /\ form.kind = "settings" =>
           form.saved \in Seq(Saved) /\ form.left \in Seq(Setting)
      /\ form.kind = "mapping" => form.user \in Users
  BY FormKinds DEF FormTyped
<1>n. NoForm \in Forms /\ NoForm.kind = "none"
  BY DEF NoForm, Forms
<1>s. SavedKeys \subseteq Keys
  BY SavedAreKeys DEF FormTyped
<1>1. CASE SubmitSettings
  <2>1. PICK value \in [Keys -> Values \cup {Bad}] :
          form' = [kind |-> "settings", saved |-> << >>,
                   left |-> [i \in DOMAIN KeyOrder |->
                               [key |-> KeyOrder[i], value |-> value[KeyOrder[i]]]]]
    BY <1>1 DEF SubmitSettings
  <2>2. [i \in DOMAIN KeyOrder |-> [key |-> KeyOrder[i], value |-> value[KeyOrder[i]]]] \in Seq(Setting)
    <3>1. \A i \in 1 .. Len(KeyOrder) : KeyOrder[i] \in Keys /\ DOMAIN KeyOrder = 1 .. Len(KeyOrder)
      BY FormsAssumption
    <3>2. \A i \in 1 .. Len(KeyOrder) :
            [key |-> KeyOrder[i], value |-> value[KeyOrder[i]]] \in Setting
      BY <3>1 DEF Setting
    <3>3. Len(KeyOrder) \in Nat /\ DOMAIN KeyOrder = 1 .. Len(KeyOrder)
      BY FormsAssumption
    <3>4. [i \in DOMAIN KeyOrder |-> [key |-> KeyOrder[i], value |-> value[KeyOrder[i]]]]
            \in [1 .. Len(KeyOrder) -> Setting]
      BY <3>2, <3>3
    <3> QED
      BY <3>3, <3>4
  <2>3. form' \in Forms /\ form'.kind = "settings"
    BY <2>1, <2>2 DEF Forms
  <2> QED
    BY <1>1, <2>3 DEF SubmitSettings, FormTyped, FormsTypeOK, setVars, mapVars, runVars
<1>2. ASSUME NEW u \in Users, SubmitMapping(u) PROVE FormTyped'
  <2>1. form' \in Forms /\ form'.kind = "mapping"
    BY <1>2 DEF SubmitMapping, Forms
  <2> QED
    BY <1>2, <2>1 DEF SubmitMapping, FormTyped, FormsTypeOK, setVars, mapVars, runVars
<1>3. CASE SaveKey
  <2>1. Head(form.left) \in Saved /\ Tail(form.left) \in Seq(Setting)
    <3>1. form.left \in Seq(Setting) /\ form.left # << >> /\ Head(form.left).value # Bad
      BY <1>3, <1>k DEF SaveKey, AtSetting
    <3>2. Head(form.left) \in Setting /\ Tail(form.left) \in Seq(Setting)
      BY <3>1
    <3> QED
      BY <3>1, <3>2 DEF Setting, Saved
  <2>2. form' \in Forms /\ form'.kind = "settings"
    <3>2. form' = [kind |-> "settings", saved |-> Append(form.saved, Head(form.left)),
                   left |-> Tail(form.left)]
      BY <1>3 DEF SaveKey
    <3>3. Append(form.saved, Head(form.left)) \in Seq(Saved)
      BY <1>3, <1>k, <2>1 DEF SaveKey, AtSetting
    <3> QED
      BY <2>1, <3>2, <3>3 DEF Forms
  <2> QED
    BY <1>3, <2>1, <2>2 DEF SaveKey, FormTyped, FormsTypeOK, mapVars, runVars, Saved
<1>4. CASE Refuse
  BY <1>4, <1>n, <1>s DEF Refuse, FormTyped, FormsTypeOK, mapVars, runVars
<1>5. CASE Audit
  <2>1. \A k \in SavedKeys : (CHOOSE x \in Range(form.saved) : x.key = k).value \in Values
    <3> SUFFICES ASSUME NEW k \in SavedKeys
                 PROVE  (CHOOSE x \in Range(form.saved) : x.key = k).value \in Values
      OBVIOUS
    <3>1. \E x \in Range(form.saved) : x.key = k
      BY <1>5 DEF SavedKeys, Range
    <3>2. Range(form.saved) \subseteq Saved
      BY <1>5, <1>k DEF Audit, AtAudit, Range
    <3> QED
      BY <3>1, <3>2 DEF Saved
  <2>2. logged' \in [Keys -> Values \cup {Unset}]
    BY <1>5, <2>1 DEF Audit, FormTyped, FormsTypeOK
  <2> QED
    BY <1>5, <1>n, <2>2 DEF Audit, FormTyped, FormsTypeOK, mapVars, runVars
<1>6. CASE MapUser
  <2>1. form.user \in Users
    BY <1>6, <1>k DEF MapUser
  <2>2. umap' \in [Users -> Mapping]
    BY <1>6, <2>1 DEF MapUser, FormTyped, Mapping
  <2> QED
    BY <1>6, <1>n, <2>1, <2>2 DEF MapUser, FormTyped, FormsTypeOK, setVars, Mapping
<1>7. CASE BusyTimeout
  BY <1>7, <1>n, <1>s DEF BusyTimeout, FormTyped, FormsTypeOK, mapVars, runVars
<1> QED
  BY <1>1, <1>2, <1>3, <1>4, <1>5, <1>6, <1>7 DEF FormStep

LEMMA HeadTail ==
  ASSUME NEW S, NEW s \in Seq(S), s # << >> PROVE Head(s) \in S /\ Tail(s) \in Seq(S)
OBVIOUS

LEMMA FormTypedRun ==
  ASSUME FormTyped, RunInv, NEW who \in {"task", "cli"},
         BeginRun(who) \/ RunStep(who) \/ Die(who) \/ \E u \in Users : Rename(u)
  PROVE  FormTyped'
<1>e. [k \in Keys |-> Effective(k)] \in [Keys -> Values]
  BY FormsAssumption DEF Effective, FormTyped, FormsTypeOK
<1>l. NoList \in [Users -> Names] /\ << >> \in Seq(Users)
  BY FormsAssumption DEF NoList, Names
<1>g. \A place \in Over \cup {"pull", "held", "users", "requests", "map", "put", "judge", "missed"} :
        Go(place) => run' \in [who : {"task", "cli"},
          at : Over \cup {"pull", "held", "users", "requests", "map", "put", "judge", "missed"}]
  BY RunPlaces DEF Go, FormTyped
<1>1. CASE BeginRun(who)
  BY <1>1, <1>e DEF BeginRun, FormTyped, FormsTypeOK, setVars, mapVars
<1>2. ASSUME NEW u \in Users, Rename(u) PROVE FormTyped'
  <2>1. upstream' \in [Users -> Names]
    BY <1>2, FormsAssumption DEF Rename, FormTyped, FormsTypeOK, Names
  <2> QED
    BY <1>2, <2>1 DEF Rename, FormTyped, FormsTypeOK, setVars, runVars
<1>3. CASE OpenPull(who)
  BY <1>3, <1>g DEF OpenPull, FormTyped, FormsTypeOK, setVars, mapVars
<1>4. CASE ClosePull(who)
  BY <1>4, <1>g DEF ClosePull, FormTyped, FormsTypeOK, setVars, mapVars
<1>5. CASE ListUsers(who)
  BY <1>5, <1>g DEF ListUsers, FormTyped, FormsTypeOK, setVars, mapVars
<1>6. CASE PullRequests(who)
  BY <1>6, <1>g, FormsAssumption DEF PullRequests, FormTyped, FormsTypeOK, setVars
<1>7. CASE MissUsers(who)
  BY <1>7, <1>g, <1>l DEF MissUsers, FormTyped, FormsTypeOK, setVars, mapVars
<1>a. \A u \in Users : AutoRow(u) \in Mapping
  BY DEF AutoRow, Mapping, FormTyped, FormsTypeOK
<1>8. CASE RefreshAtOnce
  <2>1. umap' \in [Users -> Mapping]
    BY <1>8, <1>a DEF RefreshAtOnce, FormTyped
  <2> QED
    BY <1>8, <1>g, <1>l, <2>1 DEF RefreshAtOnce, FormTyped, FormsTypeOK, setVars, Mapping
<1>9. CASE Look
  <2>1. Tail(todo) \in Seq(Users)
    BY <1>9, HeadTail DEF Look, FormTyped, FormsTypeOK
  <2> QED
    BY <1>9, <1>g, <2>1 DEF Look, FormTyped, FormsTypeOK, setVars, mapVars
<1>10. CASE Put
  <2>1. Head(todo) \in Users /\ Tail(todo) \in Seq(Users)
    BY <1>10, HeadTail DEF Put, At, RunInv, FormTyped, FormsTypeOK
  <2>2. draft' \in [Users -> Mapping]
    BY <1>10, <1>a, <2>1 DEF Put, FormTyped
  <2> QED
    BY <1>10, <1>g, <2>1, <2>2 DEF Put, FormTyped, FormsTypeOK, setVars, mapVars, Mapping
<1>11. CASE CommitMap
  BY <1>11, <1>g DEF CommitMap, FormTyped, FormsTypeOK, setVars
<1>12. CASE Judge(who)
  BY <1>12, <1>g, <1>l, FormsAssumption DEF Judge, FormTyped, FormsTypeOK, setVars, mapVars, Over
<1>13. CASE Die(who)
  <2>1. NoForm \in Forms /\ NoForm.kind = "none"
    BY DEF NoForm, Forms
  <2>2. SavedKeys \subseteq Keys
    BY SavedAreKeys DEF FormTyped
  <2> QED
    BY <1>13, <1>g, <1>l, <2>1, <2>2, FormsAssumption
    DEF Die, FormTyped, FormsTypeOK, mapVars, Over
<1> QED
  BY <1>1, <1>2, <1>3, <1>4, <1>5, <1>6, <1>7, <1>8, <1>9, <1>10, <1>11, <1>12, <1>13 DEF RunStep

-----------------------------------------------------------------------------
(* The run and the write lock.                                             *)

LEMMA RunInvInit == FormsInit => RunInv
BY DEF FormsInit, RunInv

LEMMA RunInvForms ==
  ASSUME FormTyped, RunInv, FormStep \/ SubmitSettings \/ \E u \in Users : SubmitMapping(u)
  PROVE  RunInv'
<1>1. CASE MapUser
  <2>1. /\ holder = "none" /\ holder' = "none" /\ draft' = umap'
        /\ run' = run /\ todo' = todo
    BY <1>1 DEF MapUser
  <2> QED
    BY <2>1 DEF RunInv
<1>2. CASE ~MapUser
  <2>1. /\ holder' = holder /\ draft' = draft /\ umap' = umap
        /\ run' = run /\ todo' = todo
    BY <1>2 DEF FormStep, SaveKey, Refuse, Audit, BusyTimeout, SubmitSettings, SubmitMapping,
                mapVars, runVars
  <2> QED
    BY <2>1 DEF RunInv
<1> QED
  BY <1>1, <1>2

LEMMA RunInvRun ==
  ASSUME FormTyped, RunInv, NEW who \in {"task", "cli"},
         BeginRun(who) \/ RunStep(who) \/ Die(who) \/ \E u \in Users : Rename(u)
  PROVE  RunInv'
<1>g. \A place \in Over \cup {"pull", "held", "users", "requests", "map", "put", "judge", "missed"} :
        Go(place) => run'.who = run.who /\ run'.at = place
  BY RunPlaces DEF Go, FormTyped
<1>l. todo \in Seq(Users) /\ UserOrder \in Seq(Users) /\ Len(UserOrder) \in Nat /\ Len(todo) \in Nat
  BY FormsAssumption DEF FormTyped, FormsTypeOK
<1>1. CASE BeginRun(who)
  BY <1>1 DEF BeginRun, RunInv, mapVars, Over
<1>2. ASSUME NEW u \in Users, Rename(u) PROVE RunInv'
  BY <1>2 DEF Rename, RunInv, runVars
<1>3. CASE OpenPull(who)
  BY <1>3, <1>g DEF OpenPull, At, RunInv, mapVars
<1>4. CASE ClosePull(who)
  BY <1>4, <1>g DEF ClosePull, At, RunInv, mapVars
<1>5. CASE ListUsers(who)
  BY <1>5, <1>g DEF ListUsers, At, RunInv, mapVars
<1>6. CASE PullRequests(who)
  BY <1>6, <1>g, <1>l DEF PullRequests, At, RunInv
<1>7. CASE MissUsers(who)
  <2>1. holder = "none"
    BY <1>7, <1>l DEF MissUsers, At, RunInv
  <2> QED
    BY <1>7, <1>g, <2>1 DEF MissUsers, RunInv, mapVars
<1>8. CASE RefreshAtOnce
  BY <1>8, <1>g DEF RefreshAtOnce, RunInv
<1>9. CASE Look
  <2>1. /\ Len(Tail(todo)) = Len(todo) - 1
        /\ holder' = holder /\ draft' = draft /\ umap' = umap /\ run.at = "map" /\ run.who = "cli"
    BY <1>9, <1>l DEF Look, At, mapVars
  <2>2. CASE draft[Head(todo)].how = "manual"
    BY <1>9, <1>l, <2>1, <2>2 DEF Look, RunInv
  <2>3. CASE draft[Head(todo)].how # "manual"
    <3>1. todo' = todo /\ todo # << >> /\ run'.at = "put" /\ run'.who = "cli"
      BY <1>9, <1>g, <2>1, <2>3 DEF Look
    <3> QED
      BY <2>1, <2>3, <3>1 DEF RunInv
  <2> QED
    BY <2>2, <2>3
<1>10. CASE Put
  <2>1. /\ run.at = "put" /\ run.who = "cli" /\ todo # << >> /\ umap' = umap /\ holder' = "cli"
        /\ run'.who = "cli" /\ run'.at = "map"
    BY <1>10, <1>g DEF Put, At, RunInv, mapVars
  <2>2. Head(todo) \in Users /\ Len(todo') = Len(todo) - 1
    BY <1>10, <1>l, <2>1, HeadTail DEF Put
  <2>3. \A w \in Users \ {Head(todo)} : draft'[w] = draft[w]
    BY <1>10, <2>2 DEF Put, FormTyped
  <2>4. \E u : \A w \in Users \ {u} : umap[w].how = "manual" => draft'[w].how = "manual"
    <3>1. CASE holder = "none"
      <4>1. draft = umap
        BY <3>1 DEF RunInv
      <4> QED
        BY <2>3, <4>1
    <3>2. CASE holder # "none"
      <4>1. PICK u : \A w \in Users \ {u} : umap[w].how = "manual" => draft[w].how = "manual"
        BY <2>1 DEF RunInv
      <4>2. draft[Head(todo)].how # "manual"
        BY <2>1, <3>2 DEF RunInv
      <4>3. \A w \in Users \ {u} : umap[w].how = "manual" => draft'[w].how = "manual"
        BY <2>3, <4>1, <4>2
      <4> QED
        BY <4>3
    <3> QED
      BY <3>1, <3>2
  <2>5. Len(todo') < Len(UserOrder) /\ Len(todo') <= Len(UserOrder)
    <3>1. Len(todo) <= Len(UserOrder)
      BY <2>1 DEF RunInv
    <3> QED
      BY <1>l, <2>2, <3>1
  <2>6. \E u : \A w \in Users \ {u} : umap'[w].how = "manual" => draft'[w].how = "manual"
    BY <2>1, <2>4
  <2> QED
    BY <2>1, <2>5, <2>6 DEF RunInv
<1>11. CASE CommitMap
  BY <1>11, <1>g DEF CommitMap, RunInv
<1>12. CASE Judge(who)
  BY <1>12, <1>g DEF Judge, At, RunInv, mapVars, Over
<1>13. CASE Die(who)
  BY <1>13, <1>g DEF Die, RunInv, mapVars, Over
<1> QED
  BY <1>1, <1>2, <1>3, <1>4, <1>5, <1>6, <1>7, <1>8, <1>9, <1>10, <1>11, <1>12, <1>13 DEF RunStep

-----------------------------------------------------------------------------
(* The settings and the audit log.                                         *)

\* What a form saved is in the table, and a form has one value for a key.
FormFaithful ==
  form.kind = "settings" =>
    /\ \A i \in DOMAIN form.saved : store[form.saved[i].key] = form.saved[i].value
    /\ \A i \in DOMAIN form.saved, j \in DOMAIN form.left :
         form.saved[i].key = form.left[j].key => form.saved[i].value = form.left[j].value
    /\ \A i, j \in DOMAIN form.left :
         form.left[i].key = form.left[j].key => form.left[i].value = form.left[j].value

Audited == FormFaithful /\ SavedIsAudited

LEMMA AuditedInit == FormsInit => Audited
BY DEF FormsInit, Audited, FormFaithful, SavedIsAudited, NoForm

\* A form that ends leaves nothing unrecorded, and nothing to be faithful to.
LEMMA FormEnds ==
  ASSUME SavedIsAudited, form' = NoForm, store' = store, logged' = logged, cut' = cut \cup SavedKeys
  PROVE  Audited'
<1>1. form'.kind = "none"
  BY DEF NoForm
<1> QED
  BY <1>1 DEF Audited, FormFaithful, SavedIsAudited, SavedKeys

LEMMA AuditedSave == ASSUME FormTyped, Audited, SaveKey PROVE Audited'
<1> DEFINE next == Head(form.left)
<1>1. /\ form.kind = "settings" /\ form.saved \in Seq(Saved) /\ form.left \in Seq(Setting)
      /\ form.left # << >>
  BY FormKinds DEF SaveKey, AtSetting, FormTyped
<1>2. /\ store' = [store EXCEPT ![next.key] = next.value]
      /\ form' = [kind |-> "settings", saved |-> Append(form.saved, next), left |-> Tail(form.left)]
      /\ cut' = cut /\ logged' = logged
  BY DEF SaveKey
<1>3. /\ form'.kind = "settings" /\ form'.saved = Append(form.saved, next)
      /\ form'.left = Tail(form.left)
  BY <1>2
<1>4. /\ next = form.left[1] /\ 1 \in DOMAIN form.left /\ next \in Setting
      /\ \A j \in DOMAIN form'.left : j + 1 \in DOMAIN form.left /\ form'.left[j] = form.left[j + 1]
  BY <1>1, <1>3
<1>5. \A i \in DOMAIN form'.saved :
        \/ i \in DOMAIN form.saved /\ form'.saved[i] = form.saved[i]
        \/ form'.saved[i] = next
  BY <1>1, <1>3
<1>6. store \in [Keys -> Values \cup {Unset}] /\ next.key \in Keys
  BY <1>4 DEF FormTyped, FormsTypeOK, Setting
<1>7. FormFaithful'
  <2>1. ASSUME NEW i \in DOMAIN form'.saved
        PROVE  store'[form'.saved[i].key] = form'.saved[i].value
    <3>1. CASE form'.saved[i] = next
      BY <1>2, <1>6, <3>1
    <3>2. CASE i \in DOMAIN form.saved /\ form'.saved[i] = form.saved[i]
      <4>1. form.saved[i].key \in Keys
        <5>1. form.saved[i] \in Saved
          BY <1>1, <3>2
        <5> QED
          BY <5>1 DEF Saved
      <4>2. CASE form.saved[i].key = next.key
        BY <1>1, <1>2, <1>4, <1>6, <3>2, <4>2 DEF Audited, FormFaithful
      <4>3. CASE form.saved[i].key # next.key
        BY <1>1, <1>2, <1>6, <3>2, <4>1, <4>3 DEF Audited, FormFaithful
      <4> QED
        BY <4>2, <4>3
    <3> QED
      BY <1>5, <3>1, <3>2
  <2>2. ASSUME NEW i \in DOMAIN form'.saved, NEW j \in DOMAIN form'.left,
               form'.saved[i].key = form'.left[j].key
        PROVE  form'.saved[i].value = form'.left[j].value
    BY <1>1, <1>4, <1>5, <2>2 DEF Audited, FormFaithful
  <2>3. ASSUME NEW i \in DOMAIN form'.left, NEW j \in DOMAIN form'.left,
               form'.left[i].key = form'.left[j].key
        PROVE  form'.left[i].value = form'.left[j].value
    BY <1>1, <1>4, <2>3 DEF Audited, FormFaithful
  <2> QED
    BY <2>1, <2>2, <2>3 DEF FormFaithful
<1>8. SavedIsAudited'
  <2>1. SavedKeys = {form.saved[i].key : i \in DOMAIN form.saved}
    BY <1>1 DEF SavedKeys
  <2>2. SavedKeys' = {form'.saved[i].key : i \in DOMAIN form'.saved}
    BY <1>3 DEF SavedKeys
  <2>3. \A i \in DOMAIN form.saved : i \in DOMAIN form'.saved /\ form'.saved[i] = form.saved[i]
    BY <1>1, <1>3
  <2>4. Len(form'.saved) \in DOMAIN form'.saved /\ form'.saved[Len(form'.saved)] = next
    BY <1>1, <1>3, <1>4 DEF Setting
  <2>5. SavedKeys \subseteq SavedKeys' /\ next.key \in SavedKeys'
    BY <2>1, <2>2, <2>3, <2>4
  <2>6. \A k \in Keys : store'[k] # logged'[k] => k = next.key \/ store[k] # logged[k]
    BY <1>2, <1>6
  <2> QED
    BY <1>2, <2>5, <2>6 DEF Audited, SavedIsAudited
<1> QED
  BY <1>7, <1>8 DEF Audited

LEMMA AuditedAudit == ASSUME FormTyped, Audited, Audit PROVE Audited'
<1>1. /\ form.kind = "settings" /\ form' = NoForm /\ store' = store /\ cut' = cut \ SavedKeys
      /\ form.saved \in Seq(Saved)
  BY FormKinds DEF Audit, AtAudit, FormTyped
<1>2. ASSUME NEW k \in SavedKeys
      PROVE  (CHOOSE x \in Range(form.saved) : x.key = k).value = store[k]
  <2>1. PICK i \in DOMAIN form.saved : form.saved[i].key = k
    BY <1>1, <1>2 DEF SavedKeys
  <2>2. \E x \in Range(form.saved) : x.key = k
    BY <2>1 DEF Range
  <2>3. \A x \in Range(form.saved) : x.key = k => x.value = store[k]
    BY <1>1 DEF Range, Audited, FormFaithful
  <2> QED
    BY <2>2, <2>3
<1>3. \A k \in Keys : logged'[k] = IF k \in SavedKeys THEN store[k] ELSE logged[k]
  BY <1>2 DEF Audit
<1>4. \A k \in Keys : store'[k] # logged'[k] => k \in cut'
  BY <1>1, <1>3 DEF Audited, SavedIsAudited
<1>5. form'.kind = "none"
  BY <1>1 DEF NoForm
<1> QED
  BY <1>4, <1>5 DEF Audited, FormFaithful, SavedIsAudited, SavedKeys

LEMMA AuditedSubmit ==
  ASSUME FormTyped, Audited, SubmitSettings \/ \E u \in Users : SubmitMapping(u) PROVE Audited'
<1>1. form.kind = "none" /\ store' = store /\ cut' = cut /\ logged' = logged
  BY DEF SubmitSettings, SubmitMapping, LoopFree, setVars
<1>2. \A k \in Keys : store[k] # logged[k] => k \in cut
  BY <1>1 DEF Audited, SavedIsAudited, SavedKeys
<1>3. SavedIsAudited'
  BY <1>1, <1>2 DEF SavedIsAudited
<1>4. CASE SubmitSettings
  <2>1. PICK value \in [Keys -> Values \cup {Bad}] :
          form' = [kind |-> "settings", saved |-> << >>,
                   left |-> [i \in DOMAIN KeyOrder |->
                               [key |-> KeyOrder[i], value |-> value[KeyOrder[i]]]]]
    BY <1>4 DEF SubmitSettings
  <2>2. DOMAIN form'.saved = {}
    BY <2>1
  <2>3. \A i \in DOMAIN form'.left : form'.left[i].value = value[form'.left[i].key]
    BY <2>1
  <2> QED
    BY <1>3, <2>2, <2>3 DEF Audited, FormFaithful
<1>5. ASSUME NEW u \in Users, SubmitMapping(u) PROVE Audited'
  BY <1>3, <1>5 DEF SubmitMapping, Audited, FormFaithful
<1> QED
  BY <1>4, <1>5

LEMMA AuditedForms ==
  ASSUME FormTyped, Audited, FormStep \/ SubmitSettings \/ \E u \in Users : SubmitMapping(u)
  PROVE  Audited'
<1>1. CASE SaveKey
  BY <1>1, AuditedSave
<1>2. CASE Refuse \/ BusyTimeout
  BY <1>2, FormEnds DEF Refuse, BusyTimeout, Audited
<1>3. CASE Audit
  BY <1>3, AuditedAudit
<1>4. CASE MapUser
  <2>1. /\ form.kind = "mapping" /\ form' = NoForm /\ store' = store /\ logged' = logged /\ cut' = cut
    BY <1>4 DEF MapUser, setVars
  <2>2. SavedKeys = {}
    BY <2>1 DEF SavedKeys
  <2> QED
    BY <2>1, <2>2, FormEnds DEF Audited
<1>5. CASE SubmitSettings \/ \E u \in Users : SubmitMapping(u)
  BY <1>5, AuditedSubmit
<1> QED
  BY <1>1, <1>2, <1>3, <1>4, <1>5 DEF FormStep

LEMMA AuditedRun ==
  ASSUME Audited, NEW who \in {"task", "cli"},
         BeginRun(who) \/ RunStep(who) \/ Die(who) \/ \E u \in Users : Rename(u)
  PROVE  Audited'
<1>1. CASE Die("task")
  BY <1>1, FormEnds DEF Die, Audited
<1>2. CASE ~Die("task")
  <2>1. UNCHANGED <<form, store, logged, cut>>
    BY <1>2 DEF BeginRun, RunStep, Die, Rename, OpenPull, ClosePull, ListUsers, PullRequests,
                MissUsers, RefreshAtOnce, Look, Put, CommitMap, Judge, setVars
  <2> QED
    BY <2>1 DEF Audited, FormFaithful, SavedIsAudited, SavedKeys
<1> QED
  BY <1>1, <1>2

-----------------------------------------------------------------------------
(* The mappings that a run uses.                                           *)

\* The places of a run that has listed the users.
Listed == {"requests", "map", "put", "judge"}

\* A row of the map: the name is one that the user had, and not later than the
\* names that the run listed; only a row made by hand can be without one.
Kept(row, u) ==
  /\ row.how = "none" => row = Unmapped
  /\ row.how = "auto" => row.name >= 0
  /\ row.how = "manual" => row.name >= 0 \/ u \in early
  /\ row.name <= upstream[u]
  /\ run.at \in Listed => row.name <= list[u]

\* What the run has dealt with, the user's row has its name or is made by hand.
Dealt(u) ==
  run.at = "judge" \/ (run.at \in {"map", "put"} /\ u \notin Range(todo)) =>
    draft[u].how = "manual" \/ draft[u].name = list[u]

MapInv ==
  \A u \in Users :
    /\ list[u] <= upstream[u]
    /\ Kept(umap[u], u) /\ Kept(draft[u], u)
    /\ Dealt(u)

LEMMA MapInvInit == FormsInit => MapInv
<1> SUFFICES ASSUME FormsInit, NEW u \in Users
             PROVE  /\ list[u] <= upstream[u]
                    /\ Kept(umap[u], u) /\ Kept(draft[u], u)
                    /\ Dealt(u)
  BY DEF MapInv
<1>1. run.at = "idle" /\ umap[u] = Unmapped /\ draft[u] = Unmapped /\ upstream[u] = 0 /\ list[u] = 0
  BY DEF FormsInit, NoList
<1> QED
  BY <1>1 DEF Kept, Dealt, Listed, Unmapped, Nameless

LEMMA MapInvForms ==
  ASSUME FormTyped, RunInv, MapInv, FormStep \/ SubmitSettings \/ \E u \in Users : SubmitMapping(u)
  PROVE  MapInv'
<1>1. CASE MapUser
  <2> DEFINE v == form.user
  <2>1. /\ v \in Users /\ draft' = umap' /\ umap' = [umap EXCEPT ![v].how = "manual"]
        /\ early' = IF umap[v] = Unmapped THEN early \cup {v} ELSE early
        /\ UNCHANGED <<upstream, run, list, todo>> /\ draft = umap
    BY <1>1, FormKinds DEF MapUser, FormTyped, RunInv
  <2>2. SUFFICES ASSUME NEW u \in Users
                 PROVE  list[u] <= upstream[u] /\ Kept(umap[u], u)' /\ Dealt(u)'
    BY <2>1 DEF MapInv
  <2>3. umap[u] \in Mapping /\ umap \in [Users -> Mapping]
    BY DEF FormTyped
  <2>4. list[u] <= upstream[u] /\ Kept(umap[u], u) /\ Dealt(u)
    BY DEF MapInv
  <2>5. CASE u = v
    <3>1. umap'[u].how = "manual" /\ umap'[u].name = umap[u].name
      BY <2>1, <2>3, <2>5 DEF Mapping
    <3>2. umap[u].name >= 0 \/ u \in early'
      BY <2>1, <2>3, <2>4, <2>5 DEF Kept, Mapping
    <3>3. early \subseteq early'
      BY <2>1
    <3> HIDE DEF v
    <3> QED
      BY <2>1, <2>4, <3>1, <3>2, <3>3 DEF Kept, Dealt
  <2>6. CASE u # v
    <3>1. umap'[u] = umap[u] /\ early \subseteq early'
      BY <2>1, <2>3, <2>6
    <3> HIDE DEF v
    <3> QED
      BY <2>1, <2>4, <3>1 DEF Kept, Dealt
  <2> QED
    BY <2>4, <2>5, <2>6
<1>2. CASE ~MapUser
  <2>1. UNCHANGED <<draft, umap, early, upstream, run, list, todo>>
    BY <1>2 DEF FormStep, SaveKey, Refuse, Audit, BusyTimeout, SubmitSettings, SubmitMapping,
                mapVars, runVars
  <2> QED
    BY <2>1 DEF MapInv, Kept, Dealt
<1> QED
  BY <1>1, <1>2

LEMMA HeadOrTail ==
  ASSUME NEW S, NEW s \in Seq(S), s # << >>, NEW x \in Range(s)
  PROVE  x = Head(s) \/ x \in Range(Tail(s))
<1>1. PICK i \in 1 .. Len(s) : x = s[i]
  BY DEF Range
<1>2. CASE i = 1
  BY <1>1, <1>2
<1>3. CASE i # 1
  <2>1. i - 1 \in DOMAIN Tail(s) /\ Tail(s)[i - 1] = s[i]
    BY <1>1, <1>3
  <2>2. \A f, k : k \in DOMAIN f => f[k] \in Range(f)
    BY DEF Range
  <2>3. Tail(s)[i - 1] \in Range(Tail(s))
    BY <2>1, <2>2
  <2> QED
    BY <1>1, <2>1, <2>3
<1> QED
  BY <1>2, <1>3

\* A step that leaves the map alone, and deals with nobody.
LEMMA MapLeftAlone ==
  ASSUME MapInv, UNCHANGED <<umap, early, upstream, list, todo>>,
         draft' = draft \/ draft' = umap,
         run'.at \in Listed => run.at \in Listed,
         run'.at # "judge", run'.at \in {"map", "put"} => run.at \in {"map", "put"} /\ draft' = draft
  PROVE  MapInv'
BY DEF MapInv, Kept, Dealt

LEMMA MapInvRun ==
  ASSUME FormTyped, RunInv, MapInv, NEW who \in {"task", "cli"},
         BeginRun(who) \/ RunStep(who) \/ Die(who) \/ \E u \in Users : Rename(u)
  PROVE  MapInv'
<1>g. \A place \in Over \cup {"pull", "held", "users", "requests", "map", "put", "judge", "missed"} :
        Go(place) => run'.who = run.who /\ run'.at = place
  BY RunPlaces DEF Go, FormTyped
<1>t. /\ todo \in Seq(Users)
      /\ \A u \in Users : list[u] \in Int /\ upstream[u] \in Int /\ upstream[u] >= 0 /\ list[u] >= 0
      /\ umap \in [Users -> Mapping] /\ draft \in [Users -> Mapping]
      /\ \A u \in Users : umap[u].name \in Int /\ draft[u].name \in Int
  BY FormsAssumption DEF FormTyped, FormsTypeOK, Names, Nameless, Mapping
<1>1. CASE BeginRun(who) \/ OpenPull(who) \/ ClosePull(who)
  <2>1. UNCHANGED <<draft, umap, early, upstream, list, todo>> /\ run'.at \in {"pull", "held", "users"}
    BY <1>1, <1>g DEF BeginRun, OpenPull, ClosePull, mapVars
  <2> QED
    BY <2>1, MapLeftAlone DEF Listed
<1>2. ASSUME NEW w \in Users, Rename(w) PROVE MapInv'
  <2>1. UNCHANGED <<draft, umap, early, run, list, todo>> /\ \A u \in Users : upstream'[u] >= upstream[u]
    BY <1>2, <1>t DEF Rename, runVars, FormTyped, FormsTypeOK
  <2>2. \A u \in Users : upstream'[u] \in Int
    BY <1>2, <1>t DEF Rename, FormTyped, FormsTypeOK
  <2> QED
    BY <1>t, <2>1, <2>2 DEF MapInv, Kept, Dealt
<1>5. CASE ListUsers(who)
  <2>1. UNCHANGED <<draft, umap, early, upstream, todo>> /\ list' = upstream /\ run'.at = "requests"
    BY <1>5, <1>g DEF ListUsers, mapVars
  <2> QED
    BY <1>t, <2>1 DEF MapInv, Kept, Dealt
<1>6. CASE PullRequests(who)
  <2>1. /\ UNCHANGED <<draft, umap, early, upstream, list>> /\ todo' = UserOrder
        /\ run.at = "requests" /\ run'.at = "map"
    BY <1>6, <1>g DEF PullRequests, At
  <2>2. \A u \in Users : u \in Range(todo')
    BY <2>1 DEF Users
  <2> QED
    BY <2>1, <2>2 DEF MapInv, Kept, Dealt, Listed
<1>7. CASE MissUsers(who)
  <2>1. /\ UNCHANGED <<draft, umap, early, upstream>> /\ list' = NoList /\ run'.at = "missed"
    BY <1>7, <1>g DEF MissUsers, mapVars
  <2> QED
    BY <1>t, <2>1 DEF MapInv, Kept, Dealt, Listed, NoList
<1>a. \A u \in Users : AutoRow(u).how = "auto" /\ AutoRow(u).name = list[u]
  BY DEF AutoRow
<1>8. CASE RefreshAtOnce
  <2>1. /\ UNCHANGED <<early, upstream, list>> /\ run'.at = "judge" /\ run.at = "map" /\ draft' = umap'
        /\ \A u \in Users : umap'[u] = IF umap[u].how = "manual" THEN umap[u] ELSE AutoRow(u)
    BY <1>8, <1>g DEF RefreshAtOnce, At
  <2>2. ASSUME NEW u \in Users
        PROVE  list[u] <= upstream[u] /\ Kept(umap[u], u)' /\ Dealt(u)'
    <3>1. list[u] <= upstream[u] /\ Kept(umap[u], u)
      BY DEF MapInv
    <3>2. CASE umap[u].how = "manual"
      BY <2>1, <3>1, <3>2 DEF Kept, Dealt, Listed
    <3>3. CASE umap[u].how # "manual"
      <4>1. umap'[u].how = "auto" /\ umap'[u].name = list[u]
        BY <1>a, <2>1, <3>3
      <4> QED
        BY <1>t, <2>1, <3>1, <4>1 DEF Kept, Dealt
    <3> QED
      BY <3>2, <3>3
  <2> QED
    BY <2>1, <2>2 DEF MapInv
<1>9. CASE Look
  <2>1. /\ UNCHANGED <<draft, umap, early, upstream, list>> /\ run.at = "map" /\ todo # << >>
        /\ run'.at \in {"map", "put"}
        /\ todo' = todo \/ (todo' = Tail(todo) /\ draft[Head(todo)].how = "manual")
    BY <1>9, <1>g DEF Look, At, mapVars
  <2>2. ASSUME NEW u \in Users PROVE Dealt(u)'
    <3>1. CASE u \in Range(todo)
      BY <1>t, <2>1, <2>2, <3>1, HeadOrTail DEF Dealt
    <3>2. CASE u \notin Range(todo)
      BY <2>1, <2>2, <3>2 DEF Dealt, MapInv
    <3> QED
      BY <3>1, <3>2
  <2> QED
    BY <2>1, <2>2 DEF MapInv, Kept, Listed
<1>10. CASE Put
  <2>1. /\ UNCHANGED <<umap, early, upstream, list>> /\ run.at = "put" /\ todo # << >>
        /\ run'.at = "map" /\ todo' = Tail(todo)
        /\ draft' = [draft EXCEPT ![Head(todo)] = AutoRow(Head(todo))]
    BY <1>10, <1>g DEF Put, At, mapVars, RunInv
  <2>2. Head(todo) \in Users
    BY <1>t, <2>1
  <2>3. ASSUME NEW u \in Users PROVE Kept(draft[u], u)' /\ Dealt(u)'
    <3>0. list[u] <= upstream[u] /\ Kept(draft[u], u) /\ Dealt(u)
      BY DEF MapInv
    <3>1. CASE u = Head(todo)
      <4>1. draft'[u].how = "auto" /\ draft'[u].name = list[u]
        BY <1>a, <1>t, <2>1, <3>1
      <4> QED
        BY <1>t, <2>1, <3>0, <4>1 DEF Kept, Dealt
    <3>2. CASE u # Head(todo)
      <4>1. draft'[u] = draft[u] /\ (u \in Range(todo) => u \in Range(todo'))
        BY <1>t, <2>1, <3>2, HeadOrTail
      <4> QED
        BY <2>1, <3>0, <4>1 DEF Kept, Dealt, Listed
    <3> QED
      BY <3>1, <3>2
  <2>4. \A u \in Users : Kept(umap[u], u)'
    BY <2>1 DEF MapInv, Kept, Listed
  <2> QED
    BY <2>1, <2>3, <2>4 DEF MapInv
<1>11. CASE CommitMap
  <2>1. /\ UNCHANGED <<draft, early, upstream, list>> /\ run.at = "map" /\ todo = << >> /\ umap' = draft
        /\ run'.at = "judge"
    BY <1>11, <1>g DEF CommitMap, At
  <2>2. \A u \in Users : u \notin Range(todo)
    BY <2>1 DEF Range
  <2> QED
    BY <2>1, <2>2 DEF MapInv, Kept, Dealt, Listed
<1>12. CASE Judge(who)
  <2>1. UNCHANGED <<draft, umap, early, upstream>> /\ list' = NoList /\ run'.at = "done"
    BY <1>12, <1>g DEF Judge, mapVars, Over
  <2> QED
    BY <1>t, <2>1 DEF MapInv, Kept, Dealt, Listed, NoList
<1>13. CASE Die(who)
  <2>1. UNCHANGED <<umap, early, upstream>> /\ draft' = umap /\ list' = NoList /\ run'.at = "dead"
    BY <1>13, <1>g DEF Die, mapVars, Over
  <2> QED
    BY <1>t, <2>1 DEF MapInv, Kept, Dealt, Listed, NoList
<1> QED
  BY <1>1, <1>2, <1>5, <1>6, <1>7, <1>8, <1>9, <1>10, <1>11, <1>12, <1>13 DEF RunStep

\* What has been dealt with when the run judges is every user.
LEMMA EffectFromInv == FormTyped /\ RunInv /\ MapInv => MappingTakesEffect
<1> SUFFICES ASSUME FormTyped, RunInv, MapInv, run.at = "judge", NEW u \in Users, reqs[u] = list[u]
             PROVE  Joins(u) \/ (umap[u].how = "manual" /\ (u \in early \/ umap[u].name \in 0 .. list[u] - 1))
  BY DEF MappingTakesEffect
<1>1. draft = umap
  BY DEF RunInv
<1>2. umap[u].name \in Int /\ list[u] \in Int
  BY FormsAssumption DEF FormTyped, FormsTypeOK, Names, Nameless, Mapping
<1>3. Kept(umap[u], u) /\ (umap[u].how = "manual" \/ umap[u].name = list[u])
  BY <1>1 DEF MapInv, Dealt
<1> QED
  BY <1>2, <1>3 DEF Joins, Kept, Listed

-----------------------------------------------------------------------------
(* The theorems.                                                           *)

FormInv == FormTyped /\ RunInv /\ Audited /\ MapInv

LEMMA FormInvStep == FormInv /\ [FormsNext]_formVars => FormInv'
<1> SUFFICES ASSUME FormInv, [FormsNext]_formVars PROVE FormInv'
  OBVIOUS
<1>1. CASE UNCHANGED formVars
  BY <1>1 DEF formVars, setVars, mapVars, runVars, FormInv, FormTyped, FormsTypeOK, RunInv,
              Audited, FormFaithful, SavedIsAudited, SavedKeys, MapInv, Kept, Dealt
<1>2. CASE FormStep \/ SubmitSettings \/ \E u \in Users : SubmitMapping(u)
  BY <1>2, FormTypedForms, RunInvForms, AuditedForms, MapInvForms DEF FormInv
<1>3. ASSUME NEW who \in {"task", "cli"},
             BeginRun(who) \/ RunStep(who) \/ Die(who) \/ \E u \in Users : Rename(u)
      PROVE  FormInv'
  BY <1>3, FormTypedRun, RunInvRun, AuditedRun, MapInvRun DEF FormInv
<1> QED
  BY <1>1, <1>2, <1>3 DEF FormsNext

LEMMA FormInvariant == FormsSpec => []FormInv
<1>1. FormsInit => FormInv
  BY FormTypedInit, RunInvInit, AuditedInit, MapInvInit DEF FormInv
<1> QED
  BY <1>1, FormInvStep, PTL DEF FormsSpec

\* The types of the tables, of the form and of the run (config_route.py).
THEOREM FormsTypeCorrect == FormsSpec => []FormsTypeOK
<1>1. FormInv => FormsTypeOK
  BY DEF FormInv, FormTyped
<1> QED
  BY <1>1, FormInvariant, PTL

\* The audit log tells every setting but those of forms that did not get to
\* their audit row (save_settings() of settings_store.py).
THEOREM SettingsAreAudited == FormsSpec => []SavedIsAudited
<1>1. FormInv => SavedIsAudited
  BY DEF FormInv, Audited
<1> QED
  BY <1>1, FormInvariant, PTL

\* When a run has refreshed the map, a mapping joins the requests of its user, but
\* for renames that the run or the row made by hand could not know of
\* (refresh_user_identity_map(), config_save_user_mapping()).
THEOREM MappingsTakeEffect == FormsSpec => []MappingTakesEffect
<1>1. FormInv => MappingTakesEffect
  BY EffectFromInv DEF FormInv
<1> QED
  BY <1>1, FormInvariant, PTL

LEMMA LostStep ==
  ASSUME FormInv, [FormsNext]_formVars,
         NEW lost, lost = {u \in Users : umap[u].how = "manual" /\ umap'[u].how # "manual"},
         lost # {}
  PROVE  run.who = "cli" /\ Cardinality(lost) = 1
<1>1. umap \in [Users -> Mapping]
  BY DEF FormInv, FormTyped
<1>2. CASE MapUser
  <2>1. form.user \in Users
    BY <1>2, FormKinds DEF MapUser, FormInv, FormTyped
  <2>2. \A u \in Users : umap[u].how = "manual" => umap'[u].how = "manual"
    BY <1>1, <1>2, <2>1 DEF MapUser, Mapping
  <2> QED
    BY <2>2
<1>3. CASE RefreshAtOnce
  BY <1>3 DEF RefreshAtOnce
<1>4. CASE CommitMap
  <2>1. run.who = "cli" /\ run.at = "map" /\ umap' = draft
    BY <1>4 DEF CommitMap, At
  <2>2. PICK u : \A w \in Users \ {u} : umap[w].how = "manual" => draft[w].how = "manual"
    BY <2>1 DEF FormInv, RunInv
  <2>3. lost = {u}
    BY <2>1, <2>2
  <2> QED
    BY <2>1, <2>3, FS_Singleton
<1>5. CASE ~(MapUser \/ RefreshAtOnce \/ CommitMap)
  <2>1. umap' = umap
    BY <1>5 DEF FormsNext, formVars, FormStep, SaveKey, Refuse, Audit, BusyTimeout, SubmitSettings,
                SubmitMapping, BeginRun, RunStep, Die, Rename, OpenPull, ClosePull, ListUsers,
                PullRequests, MissUsers, Look, Put, Judge, mapVars
  <2> QED
    BY <2>1
<1> QED
  BY <1>2, <1>3, <1>4, <1>5

\* A mapping made by hand is lost only to a run of another process, and one at
\* most to a run (refresh_user_identity_map() of requester_sync.py).
THEOREM MappingsLostOnlyByRace == FormsSpec => ManualLostOnlyByRace
<1>1. FormInv /\ [FormsNext]_formVars =>
        [LET lost == {u \in Users : umap[u].how = "manual" /\ umap'[u].how # "manual"}
         IN lost # {} => run.who = "cli" /\ Cardinality(lost) = 1]_formVars
  BY LostStep
<1> QED
  BY <1>1, FormInvariant, PTL DEF FormsSpec, ManualLostOnlyByRace
=============================================================================
