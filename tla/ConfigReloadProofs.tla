------------------------- MODULE ConfigReloadProofs -------------------------
(***************************************************************************)
(* Proofs about ConfigReload: however saves and reloads overlap, once the  *)
(* watcher has nothing left to do the proxies have the rules of the file.  *)
(***************************************************************************)
EXTENDS ConfigReload, TLAPS

-----------------------------------------------------------------------------
(* What ReadConfigFromFile returns *)

\* A rule with its defaults is a rule.
LEMMA DefaultedRule ==
    ASSUME NEW r \in Rules
    PROVE  Defaulted(r) \in Rules
BY RulesAssumption DEF Defaulted

\* Sorting permutes the list.
LEMMA SortedList ==
    ASSUME NEW rs \in Seq(Rules), NEW ts \in Sorted(rs)
    PROVE  ts \in Seq(Rules)
<1>1. PICK f \in Orders(Len(rs)) : ts = [i \in DOMAIN rs |-> rs[f[i]]]
  BY DEF Sorted
<1>2. f \in [1..Len(rs) -> 1..Len(rs)]
  BY DEF Orders
<1>3. ts \in [1..Len(rs) -> Rules]
  BY <1>1, <1>2
<1> QED
  BY <1>3

\* So is every rule of a list.
LEMMA DefaultedList ==
    ASSUME NEW rs \in Seq(Rules)
    PROVE  [i \in DOMAIN rs |-> Defaulted(rs[i])] \in Seq(Rules)
<1>1. \A i \in 1..Len(rs) : Defaulted(rs[i]) \in Rules
  BY DefaultedRule
<1>2. [i \in 1..Len(rs) |-> Defaulted(rs[i])] \in [1..Len(rs) -> Rules]
  BY <1>1
<1> QED
  BY <1>2

\* WithDefaults leaves every section a section.
LEMMA WithDefaultsParts ==
    ASSUME NEW c \in Config
    PROVE  /\ WithDefaults(c) \in Config
           /\ WithDefaults(c).evm = c.evm
<1> DEFINE rs == [i \in DOMAIN c.rules |-> Defaulted(c.rules[i])]
           d  == IF c.default = "" THEN "deny" ELSE c.default
<1>1. c.rules \in Seq(Rules) /\ c.evm \in BOOLEAN /\ d \in {"allow", "deny", ""}
  BY DEF Config
<1>2. rs \in Seq(Rules)
  BY <1>1, DefaultedList
<1> HIDE DEF rs, d
<1>3. WithDefaults(c) = [evm |-> c.evm, rules |-> rs, default |-> d]
  BY Zenon DEF WithDefaults, rs, d
<1>4. [evm |-> c.evm, rules |-> rs, default |-> d] \in Config
  BY <1>1, <1>2, Zenon DEF Config
<1>5. WithDefaults(c).evm = c.evm
  BY <1>3
<1> QED
  BY <1>3, <1>4, <1>5, Zenon

\* The configuration that is read differs from the file in the order and the defaults.
LEMMA ReadConfigType ==
    ASSUME NEW c \in Config, NEW r \in ReadConfigFromFile(c)
    PROVE  r \in Config /\ r.evm = c.evm
<1>1. PICK rs \in Sorted(c.rules) : r = WithDefaults([c EXCEPT !.rules = rs])
  BY DEF ReadConfigFromFile
<1>2. rs \in Seq(Rules)
  BY SortedList DEF Config
<1>3. [c EXCEPT !.rules = rs] \in Config /\ [c EXCEPT !.rules = rs].evm = c.evm
  BY <1>2 DEF Config
<1> QED
  BY <1>1, <1>3, WithDefaultsParts

-----------------------------------------------------------------------------
(* The inductive invariant *)

\* what the file may be: it is always something that was saved, whole or not
FileKnown == file \in Contents \cup Partial

\* each notification has a write of its own, and a save has at most two
EventsBounded == events + (IF saving = None THEN 0 ELSE 1) <= 2 * saves

\* what the goroutine holds was read from a file
CfgKnown == pc \in {"apply", "wait"} =>
    \E c \in (Contents \cup Partial) \cap Config : cfg \in ReadConfigFromFile(c)

\* if nothing has happened since, from the file as it is
CfgCurrent == pc \in {"apply", "wait"} /\ events = 0 /\ ~missed =>
    file \in Config /\ cfg \in ReadConfigFromFile(file)

\* a proxy has the rules of cfg, or will be given them
Handing == pc \in {"apply", "wait"} =>
    \A i \in DOMAIN Order(cfg) :
        \/ installed[Order(cfg)[i]] = Policy(cfg)
        \/ \E j \in DOMAIN todo : todo[j] = Order(cfg)[i]

Waiting == pc = "wait" => todo = <<>>

IndInv ==
    /\ TypeOK /\ FileKnown /\ EventsBounded /\ CfgKnown /\ CfgCurrent
    /\ Handing /\ Waiting

\* Every configuration read has sections of the right types.
LEMMA ConfigFacts ==
    /\ Contents \subseteq Config /\ Partial \subseteq Config \cup {Unreadable}
    /\ Unreadable \notin Config /\ None \notin Contents /\ MaxSaves \in Nat
BY ContentsAssumption, PartialAssumption, UnreadableAssumption, SavesAssumption

\* The sections that are reloaded are sections.
LEMMA OrderType == \A c : Order(c) \in Seq(Sections)
<1>1. Base \in Seq(Sections) /\ Evm \in Seq(Sections)
  BY DEF Base, Evm, Sections
<1>2. Base \o Evm \in Seq(Sections)
  BY <1>1
<1> QED
  BY <1>1, <1>2 DEF Order

\* The next section to install, and those after it.
LEMMA HeadAndTail ==
    ASSUME NEW T, NEW s \in Seq(T), s # <<>>
    PROVE  /\ Head(s) \in T /\ Tail(s) \in Seq(T)
           /\ \A j \in DOMAIN s :
                 \/ j = 1 /\ s[j] = Head(s)
                 \/ j - 1 \in DOMAIN Tail(s) /\ Tail(s)[j - 1] = s[j]
OBVIOUS

\* What is installed is a policy.
LEMMA PolicyType ==
    ASSUME NEW c \in Config
    PROVE  Policy(c) \in [rules : Seq(Rules), default : {"allow", "deny", ""}]
BY DEF Config, Policy

\* The invariant holds at first.
LEMMA InitInv == Init => IndInv
<1> SUFFICES ASSUME Init PROVE IndInv
  OBVIOUS
<1> USE ConfigFacts DEF Init
<1>1. Unset \in [rules : Seq(Rules), default : {"allow", "deny", ""}]
  <2>1. <<>> \in Seq(Rules)
    OBVIOUS
  <2> QED
    BY <2>1, Zenon DEF Unset
<1>2. <<>> \in Seq(Sections) /\ 0 \in 0..MaxSaves /\ 0 \in 0..(2 * MaxSaves)
  OBVIOUS
<1>3. TypeOK
  BY <1>1, <1>2, Zenon DEF TypeOK
<1>4. FileKnown /\ EventsBounded /\ CfgKnown /\ CfgCurrent /\ Handing /\ Waiting
  BY DEF FileKnown, EventsBounded, CfgKnown, CfgCurrent, Handing, Waiting
<1> QED
  BY <1>3, <1>4 DEF IndInv

\* What a read of the file leaves behind.
LEMMA LoadKeeps == IndInv /\ LoadConfig => IndInv'
<1> SUFFICES ASSUME IndInv, LoadConfig PROVE IndInv'
  OBVIOUS
<1> USE ConfigFacts DEF IndInv, LoadConfig, editVars
<1>1. CASE file = Unreadable
  <2>1. TypeOK' /\ FileKnown' /\ EventsBounded'
    BY <1>1 DEF TypeOK, FileKnown, EventsBounded
  <2>2. CfgKnown' /\ CfgCurrent' /\ Handing' /\ Waiting'
    BY <1>1 DEF CfgKnown, CfgCurrent, Handing, Waiting
  <2> QED
    BY <2>1, <2>2
<1>2. CASE file # Unreadable
  <2>1. PICK c \in ReadConfigFromFile(file) :
           /\ cfg' = c /\ todo' = Order(c) /\ missed' = FALSE /\ pc' = "apply"
           /\ built' = IF pc = "new" THEN c.evm ELSE built
    BY <1>2
  <2>2. file \in (Contents \cup Partial) \cap Config
    BY <1>2 DEF FileKnown
  <2>3. c \in Config /\ c.evm \in BOOLEAN
    BY <2>1, <2>2, ReadConfigType DEF Config
  <2>4. TypeOK'
    BY <2>1, <2>3, OrderType DEF TypeOK
  <2>5. FileKnown' /\ EventsBounded' /\ Waiting'
    BY <2>1 DEF FileKnown, EventsBounded, Waiting
  <2>6. CfgKnown' /\ CfgCurrent' /\ Handing'
    BY <2>1, <2>2 DEF CfgKnown, CfgCurrent, Handing
  <2> QED
    BY <2>4, <2>5, <2>6
<1> QED
  BY <1>1, <1>2

\* SetRules of one proxy: the section at the head of todo has the rules of cfg, the
\* others are where they were.
LEMMA ApplyKeeps == IndInv /\ ApplyRules => IndInv'
<1> SUFFICES ASSUME IndInv, ApplyRules PROVE IndInv'
  OBVIOUS
<1> USE DEF IndInv, ApplyRules, editVars
<1>1. CASE pc' = "exited" /\ UNCHANGED <<todo, installed>>
  <2>1. TypeOK' /\ FileKnown' /\ EventsBounded'
    BY <1>1 DEF TypeOK, FileKnown, EventsBounded
  <2>2. CfgKnown' /\ CfgCurrent' /\ Handing' /\ Waiting'
    BY <1>1 DEF CfgKnown, CfgCurrent, Handing, Waiting
  <2> QED
    BY <2>1, <2>2
<1>2. CASE /\ installed' = [installed EXCEPT ![Head(todo)] = Policy(cfg)]
           /\ todo' = Tail(todo) /\ UNCHANGED pc
  <2>1. PICK c \in (Contents \cup Partial) \cap Config : cfg \in ReadConfigFromFile(c)
    BY DEF CfgKnown
  <2>2. cfg \in Config
    BY <2>1, ReadConfigType
  <2>3. /\ todo \in Seq(Sections) /\ todo # <<>>
        /\ Head(todo) \in Sections /\ Tail(todo) \in Seq(Sections)
        /\ \A j \in DOMAIN todo :
              \/ j = 1 /\ todo[j] = Head(todo)
              \/ j - 1 \in DOMAIN Tail(todo) /\ Tail(todo)[j - 1] = todo[j]
    BY HeadAndTail, Zenon DEF TypeOK
  <2>4. TypeOK'
    BY <1>2, <2>2, <2>3, PolicyType DEF TypeOK
  <2>5. FileKnown' /\ EventsBounded' /\ CfgKnown' /\ CfgCurrent' /\ Waiting'
    BY <1>2 DEF FileKnown, EventsBounded, CfgKnown, CfgCurrent, Waiting
  <2>6. Handing'
    <3> SUFFICES ASSUME NEW i \in DOMAIN Order(cfg)
                 PROVE  \/ installed'[Order(cfg)[i]] = Policy(cfg)
                        \/ \E j \in DOMAIN todo' : todo'[j] = Order(cfg)[i]
      BY <1>2 DEF Handing
    <3>1. Order(cfg)[i] \in Sections
      BY OrderType
    <3>2. CASE installed[Order(cfg)[i]] = Policy(cfg) \/ Order(cfg)[i] = Head(todo)
      BY <1>2, <2>3, <3>1, <3>2 DEF TypeOK
    <3>3. CASE /\ Order(cfg)[i] # Head(todo)
               /\ \E j \in DOMAIN todo : todo[j] = Order(cfg)[i]
      <4>1. PICK j \in DOMAIN todo : todo[j] = Order(cfg)[i]
        BY <3>3
      <4>2. j # 1
        BY <2>3, <3>3, <4>1
      <4> QED
        BY <1>2, <2>3, <4>1, <4>2
    <3> QED
      BY <3>2, <3>3 DEF Handing
  <2> QED
    BY <2>4, <2>5, <2>6
<1> QED
  BY <1>1, <1>2

\* A write of the editor is either notified or marked as missed.
LEMMA WriteKeeps ==
    ASSUME IndInv, NEW c \in Contents, Save(c) \/ SaveEnds
    PROVE  IndInv'
<1> USE ConfigFacts DEF IndInv, Save, SaveEnds, Notify
<1>1. /\ events \in 0..(2 * MaxSaves) /\ saves \in 0..MaxSaves
      /\ watching \in BOOLEAN /\ saving \in Contents \cup {None}
      /\ events + (IF saving = None THEN 0 ELSE 1) <= 2 * saves
  BY Zenon DEF TypeOK, EventsBounded
<1>2. UNCHANGED <<watching, pc, cfg, built, todo, installed>> /\ missed' = (missed \/ ~watching)
  BY Zenon
<1>3. missed' \in BOOLEAN
  BY <1>2, Zenon
<1>4. /\ events' \in 0..(2 * MaxSaves) /\ saves' \in 0..MaxSaves
      /\ saving' \in Contents \cup {None} /\ EventsBounded'
  BY <1>1 DEF EventsBounded
<1>5. file' \in Contents \cup Partial
  BY <1>1
<1>6. TypeOK' /\ FileKnown'
  BY <1>2, <1>3, <1>4, <1>5, Zenon DEF TypeOK, FileKnown
<1>7. events' # 0 \/ missed'
  <2>1. CASE watching
    <3>1. events' = events + 1
      BY <2>1, Zenon
    <3> HIDE DEF IndInv, Save, SaveEnds, Notify
    <3> QED
      BY <1>1, <3>1
  <2>2. CASE ~watching
    BY <1>2, <2>2, Zenon
  <2> QED
    BY <2>1, <2>2, Zenon
<1>8. CfgCurrent'
  BY <1>7, Zenon DEF CfgCurrent
<1>9. CfgKnown' /\ Handing' /\ Waiting'
  BY <1>2 DEF CfgKnown, Handing, Waiting
<1> QED
  BY <1>4, <1>6, <1>8, <1>9

\* The loop of WatchConfigFile touches neither the file nor the proxies.
LEMMA LoopKeeps == IndInv /\ (Watch \/ Event \/ WatchFails \/ UNCHANGED vars) => IndInv'
<1> SUFFICES ASSUME IndInv, Watch \/ Event \/ WatchFails \/ UNCHANGED vars PROVE IndInv'
  OBVIOUS
<1> USE ConfigFacts DEF IndInv, Watch, Event, WatchFails, vars, editVars
<1>1. /\ UNCHANGED <<file, saving, saves, cfg, built, todo, installed, missed>>
      /\ watching' \in {watching, TRUE} /\ pc' \in {pc, "wait", "load", "unwatched"}
  OBVIOUS
<1>2. events' \in 0..(2 * MaxSaves) /\ FileKnown' /\ EventsBounded'
  <2>1. events \in 0..(2 * MaxSaves) /\ saves \in 0..MaxSaves
    BY Zenon DEF TypeOK
  <2>2. events' = events \/ (events > 0 /\ events' = events - 1)
    BY Zenon
  <2>3. FileKnown /\ EventsBounded
    BY Zenon
  <2> HIDE DEF IndInv, Watch, Event, WatchFails, vars, editVars
  <2> QED
    BY <1>1, <2>1, <2>2, <2>3 DEF FileKnown, EventsBounded
<1>3. TypeOK'
  BY <1>1, <1>2, Zenon DEF TypeOK
<1>4. CfgKnown' /\ CfgCurrent' /\ Waiting'
  BY DEF CfgKnown, CfgCurrent, Waiting
<1>5. Handing'
  BY DEF Handing
<1> QED
  BY <1>2, <1>3, <1>4, <1>5

\* Every step keeps the invariant.
LEMMA InvPreserved == IndInv /\ [Next]_vars => IndInv'
BY LoadKeeps, ApplyKeeps, WriteKeeps, LoopKeeps, ConfigFacts
   DEF Next, Stopped, SaveEnds, IndInv, TypeOK

\* The invariant of the reload: unless a notification is pending, cfg is what is in
\* the file, and every proxy has it or is still to be given it.
THEOREM Invariance == Spec => []IndInv
BY InitInv, InvPreserved, PTL DEF Spec

\* Every variable keeps its type; at most two notifications are pending for a save.
THEOREM TypeCorrect == Spec => []TypeOK
<1>1. IndInv => TypeOK
  BY DEF IndInv
<1> QED
  BY <1>1, Invariance, PTL

\* Once the watcher waits with nothing pending, every proxy of applyRules has rules
\* and default action of the file as it is.
THEOREM SettlesOnFile == Spec => []SettledOnFile
<1>1. IndInv => SettledOnFile
  <2> SUFFICES ASSUME IndInv, Settled, NEW i \in DOMAIN Order(file)
               PROVE  installed[Order(file)[i]] \in {Policy(r) : r \in ReadConfigFromFile(file)}
    BY DEF SettledOnFile, InForce
  <2>1. file \in Config /\ cfg \in ReadConfigFromFile(file) /\ todo = <<>>
    BY DEF IndInv, Settled, CfgCurrent, Waiting
  <2>2. Order(cfg) = Order(file)
    BY <2>1, ReadConfigType DEF Order
  <2>3. installed[Order(file)[i]] = Policy(cfg)
    BY <2>1, <2>2 DEF IndInv, Settled, Handing
  <2> QED
    BY <2>1, <2>3
<1> QED
  BY <1>1, Invariance, PTL
=============================================================================
