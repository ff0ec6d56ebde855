------------------------ MODULE WorkflowEdits_proofs ------------------------
(***************************************************************************)
(* The editing operations of a workflow, for every document, every name    *)
(* and every number of edits.                                              *)
(***************************************************************************)
EXTENDS WorkflowEdits, FiniteSetTheorems, SequenceTheorems, TLAPS

(* Sequences.                                                              *)
LEMMA MakeSeq ==
  ASSUME NEW S, NEW n \in Nat, NEW f \in [1 .. n -> S]
  PROVE  f \in Seq(S) /\ Len(f) = n /\ DOMAIN f = 1 .. n
  <1>1. f \in Seq(S)
    BY SeqDef
  <1>2. QED  BY <1>1, LenProperties

(* What comes of a sequence that gets or loses an entry.                   *)
Adds(new, seq, x) ==
  /\ \A i \in DOMAIN seq : \E j \in DOMAIN new : new[j] = seq[i]
  /\ \A j \in DOMAIN new : new[j] = x \/ \E i \in DOMAIN seq : new[j] = seq[i]
  /\ UniqueNames(seq) /\ (\A i \in DOMAIN seq : seq[i].name # x.name) => UniqueNames(new)

Drops(new, seq, at) ==
  /\ \A i \in DOMAIN seq \ {at} : \E j \in DOMAIN new : new[j] = seq[i]
  /\ \A j \in DOMAIN new : \E i \in DOMAIN seq \ {at} : new[j] = seq[i]
  /\ UniqueNames(seq) => UniqueNames(new)

Swaps(new, seq, i) ==
  \E j \in DOMAIN seq : \A k \in DOMAIN seq :
    new[k] = IF k = j THEN seq[i] ELSE IF k = i THEN seq[j] ELSE seq[k]

LEMMA AppendSeq ==
  ASSUME NEW S, NEW seq \in Seq(S), NEW x \in S
  PROVE  /\ Append(seq, x) \in Seq(S)
         /\ Len(Append(seq, x)) = Len(seq) + 1
         /\ Adds(Append(seq, x), seq, x)
  <1> DEFINE new == Append(seq, x)
  <1>1. Len(seq) \in Nat /\ DOMAIN seq = 1 .. Len(seq)
    BY LenProperties
  <1>2. /\ new \in Seq(S) /\ Len(new) = Len(seq) + 1 /\ DOMAIN new = 1 .. Len(seq) + 1
        /\ \A i \in 1 .. Len(seq) : new[i] = seq[i]
        /\ new[Len(seq) + 1] = x
    BY <1>1, AppendProperties
  <1> HIDE DEF new
  <1>3. \A j \in DOMAIN new : (j \in DOMAIN seq /\ new[j] = seq[j]) \/ (j \notin DOMAIN seq /\ new[j] = x)
    BY <1>1, <1>2
  <1>4. \A i, j \in DOMAIN new : i \notin DOMAIN seq /\ j \notin DOMAIN seq => i = j
    BY <1>1, <1>2
  <1>5. UniqueNames(seq) /\ (\A i \in DOMAIN seq : seq[i].name # x.name) => UniqueNames(new)
    BY <1>3, <1>4 DEF UniqueNames
  <1>6. \A i \in DOMAIN seq : \E j \in DOMAIN new : new[j] = seq[i]
    BY <1>1, <1>2
  <1>7. QED  BY <1>2, <1>3, <1>5, <1>6 DEF Adds, new

LEMMA InsertedSeq ==
  ASSUME NEW S, NEW seq \in Seq(S), NEW at \in 1 .. Len(seq) + 1, NEW x \in S
  PROVE  /\ Inserted(seq, at, x) \in Seq(S)
         /\ Len(Inserted(seq, at, x)) = Len(seq) + 1
         /\ Adds(Inserted(seq, at, x), seq, x)
  <1>1. Len(seq) \in Nat /\ DOMAIN seq = 1 .. Len(seq)
    BY LenProperties
  <1>2. \A i \in 1 .. Len(seq) : seq[i] \in S
    BY ElementOfSeq
  <1> DEFINE new == Inserted(seq, at, x)
             Old(j) == IF j < at THEN j ELSE j - 1
             New(i) == IF i < at THEN i ELSE i + 1
  <1>3. new \in [1 .. Len(seq) + 1 -> S]
    BY <1>1, <1>2 DEF Inserted
  <1>4. new \in Seq(S) /\ Len(new) = Len(seq) + 1 /\ DOMAIN new = 1 .. Len(seq) + 1
    <2> HIDE DEF new
    <2> QED  BY <1>1, <1>3, MakeSeq
  <1>5. \A j \in 1 .. Len(seq) + 1 : new[j] = IF j = at THEN x ELSE seq[Old(j)]
    BY <1>1 DEF Inserted
  <1>6. \A j \in 1 .. Len(seq) + 1 : j # at => Old(j) \in DOMAIN seq
    BY <1>1
  <1>7. \A i, j \in 1 .. Len(seq) + 1 : i # at /\ j # at /\ Old(i) = Old(j) => i = j
    BY <1>1
  <1>8. \A i \in DOMAIN seq : New(i) \in 1 .. Len(seq) + 1 /\ New(i) # at /\ Old(New(i)) = i
    BY <1>1
  <1> HIDE DEF new, Old, New
  <1>9. \A i \in DOMAIN seq : \E j \in DOMAIN new : new[j] = seq[i]
    BY <1>4, <1>5, <1>8
  <1>10. \A j \in DOMAIN new : new[j] = x \/ \E i \in DOMAIN seq : new[j] = seq[i]
    BY <1>4, <1>5, <1>6
  <1>11. UniqueNames(seq) /\ (\A i \in DOMAIN seq : seq[i].name # x.name) => UniqueNames(new)
    BY <1>4, <1>5, <1>6, <1>7 DEF UniqueNames
  <1>12. QED  BY <1>4, <1>9, <1>10, <1>11 DEF Adds, new

LEMMA RemovedSeq ==
  ASSUME NEW S, NEW seq \in Seq(S), NEW at \in 1 .. Len(seq)
  PROVE  /\ Removed(seq, at) \in Seq(S)
         /\ Len(Removed(seq, at)) = Len(seq) - 1
         /\ Drops(Removed(seq, at), seq, at)
  <1>1. Len(seq) \in Nat /\ DOMAIN seq = 1 .. Len(seq)
    BY LenProperties
  <1>2. \A i \in 1 .. Len(seq) : seq[i] \in S
    BY ElementOfSeq
  <1> DEFINE new == Removed(seq, at)
             Old(j) == IF j < at THEN j ELSE j + 1
             New(i) == IF i < at THEN i ELSE i - 1
  <1>3. new \in [1 .. Len(seq) - 1 -> S]
    BY <1>1, <1>2 DEF Removed
  <1>4. new \in Seq(S) /\ Len(new) = Len(seq) - 1 /\ DOMAIN new = 1 .. Len(seq) - 1
    <2> HIDE DEF new
    <2>1. Len(seq) - 1 \in Nat
      BY <1>1
    <2> QED  BY <2>1, <1>3, MakeSeq
  <1>5. \A j \in 1 .. Len(seq) - 1 : new[j] = seq[Old(j)]
    BY <1>1 DEF Removed
  <1>6. \A j \in 1 .. Len(seq) - 1 : Old(j) \in DOMAIN seq \ {at}
    BY <1>1
  <1>7. \A i, j \in 1 .. Len(seq) - 1 : Old(i) = Old(j) => i = j
    BY <1>1
  <1>8. \A i \in DOMAIN seq \ {at} : New(i) \in 1 .. Len(seq) - 1 /\ Old(New(i)) = i
    BY <1>1
  <1> HIDE DEF new, Old, New
  <1>9. \A i \in DOMAIN seq \ {at} : \E j \in DOMAIN new : new[j] = seq[i]
    BY <1>4, <1>5, <1>8
  <1>10. \A j \in DOMAIN new : \E i \in DOMAIN seq \ {at} : new[j] = seq[i]
    BY <1>4, <1>5, <1>6
  <1>11. UniqueNames(seq) => UniqueNames(new)
    BY <1>4, <1>5, <1>6, <1>7 DEF UniqueNames
  <1>12. QED  BY <1>4, <1>9, <1>10, <1>11 DEF Drops, new

LEMMA MovedSeq ==
  ASSUME NEW S, NEW seq \in Seq(S), NEW i \in DOMAIN seq, NEW direction
  PROVE  /\ Moved(seq, i, direction) \in Seq(S)
         /\ DOMAIN Moved(seq, i, direction) = DOMAIN seq
         /\ Swaps(Moved(seq, i, direction), seq, i)
  <1> DEFINE j == IF direction = "up" THEN i - 1 ELSE i + 1
  <1>1. Len(seq) \in Nat /\ DOMAIN seq = 1 .. Len(seq)
    BY LenProperties
  <1>2. \A k \in 1 .. Len(seq) : seq[k] \in S
    BY ElementOfSeq
  <1>3. CASE j \in DOMAIN seq
    <2>1. Moved(seq, i, direction) = [seq EXCEPT ![i] = seq[j], ![j] = seq[i]]
      BY <1>3 DEF Moved, Swapped
    <2>2. seq \in [1 .. Len(seq) -> S]
      BY <1>1, <1>2
    <2>3. Moved(seq, i, direction) \in [1 .. Len(seq) -> S]
      BY <1>1, <1>2, <1>3, <2>1, <2>2
    <2>4. \A k \in DOMAIN seq : Moved(seq, i, direction)[k] =
                IF k = j THEN seq[i] ELSE IF k = i THEN seq[j] ELSE seq[k]
      BY <1>1, <1>3, <2>1, <2>2
    <2> HIDE DEF j
    <2>5. QED  BY <1>1, <1>3, <2>3, <2>4, MakeSeq DEF Swaps
  <1>4. CASE j \notin DOMAIN seq
    <2>1. Moved(seq, i, direction) = seq
      BY <1>4 DEF Moved
    <2>2. QED  BY <2>1 DEF Swaps
  <1>5. QED  BY <1>3, <1>4

(* Every nonempty set of numbers has a least one.                          *)
LEMMA LeastNat ==
  ASSUME NEW T, T \subseteq Nat, T # {}
  PROVE  \E m \in T : \A k \in T : m <= k
  <1> DEFINE R == {ss \in Nat \X Nat : ss[1] < ss[2]}
  <1>1. IsWellFoundedOn(R, Nat)
    BY NatLessThanWellFounded DEF OpToRel
  <1>2. PICK m \in T : \A k \in T : <<k, m>> \notin R
    <2> HIDE DEF R
    <2> QED  BY <1>1, WFMin, Zenon
  <1>3. \A k \in T : k < m => <<k, m>> \in R
    <2> SUFFICES ASSUME NEW k \in T, k < m PROVE <<k, m>> \in R
      OBVIOUS
    <2>1. <<k, m>> \in Nat \X Nat
      OBVIOUS
    <2>2. <<k, m>>[1] < <<k, m>>[2]
      OBVIOUS
    <2> QED  BY <2>1, <2>2
  <1> HIDE DEF R
  <1>4. \A k \in T : ~ (k < m)
    BY <1>2, <1>3, Zenon
  <1>5. QED  BY <1>4

(* The first of a name.                                                    *)
LEMMA IndexOfIs ==
  ASSUME NEW S, NEW seq \in Seq(S), NEW name
  PROVE  /\ IndexOf(seq, name) \in 0 .. Len(seq)
         /\ IndexOf(seq, name) # 0 => /\ IndexOf(seq, name) \in DOMAIN seq
                                      /\ seq[IndexOf(seq, name)].name = name
         /\ IndexOf(seq, name) = 0 => \A i \in DOMAIN seq : seq[i].name # name
  <1>1. Len(seq) \in Nat /\ DOMAIN seq = 1 .. Len(seq)
    BY LenProperties
  <1>2. ASSUME NEW k \in DOMAIN seq, seq[k].name = name
        PROVE  IndexOf(seq, name) \in DOMAIN seq /\ seq[IndexOf(seq, name)].name = name
    <2> DEFINE T == {i \in DOMAIN seq : seq[i].name = name}
    <2>1. PICK i \in T : \A j \in T : i <= j
      <3>1. T \subseteq Nat /\ T # {}
        BY <1>1, <1>2
      <3> HIDE DEF T
      <3>2. QED  BY <3>1, LeastNat
    <2>2. \A j \in 1 .. i - 1 : seq[j].name # name
      BY <1>1, <2>1
    <2>3. \E m \in DOMAIN seq : seq[m].name = name /\ \A j \in 1 .. m - 1 : seq[j].name # name
      BY <2>1, <2>2
    <2>4. IndexOf(seq, name) = CHOOSE m \in DOMAIN seq :
                                 seq[m].name = name /\ \A j \in 1 .. m - 1 : seq[j].name # name
      BY <1>2 DEF IndexOf
    <2>5. QED  BY <2>3, <2>4
  <1>3. ASSUME \A i \in DOMAIN seq : seq[i].name # name PROVE IndexOf(seq, name) = 0
    BY <1>3 DEF IndexOf
  <1>4. QED  BY <1>1, <1>2, <1>3

-----------------------------------------------------------------------------
(* Unique names.                                                           *)
LEMMA MovedUnique ==
  ASSUME NEW S, NEW seq \in Seq(S), NEW i \in DOMAIN seq, NEW direction, UniqueNames(seq)
  PROVE  UniqueNames(Moved(seq, i, direction))
  <1> DEFINE new == Moved(seq, i, direction)
  <1>1. DOMAIN new = DOMAIN seq /\ Swaps(new, seq, i)
    BY MovedSeq
  <1> HIDE DEF new
  <1>2. PICK j \in DOMAIN seq : \A k \in DOMAIN seq :
          new[k] = IF k = j THEN seq[i] ELSE IF k = i THEN seq[j] ELSE seq[k]
    BY <1>1 DEF Swaps
  <1>3. UniqueNames(new)
    BY <1>1, <1>2 DEF UniqueNames
  <1>4. QED  BY <1>3 DEF new

(* Names that stay, or change in one place to one that was not there.      *)
LEMMA SameUnique ==
  ASSUME NEW seq, NEW new, DOMAIN new = DOMAIN seq, UniqueNames(seq),
         \A i \in DOMAIN seq : new[i].name = seq[i].name
  PROVE  UniqueNames(new)
  BY DEF UniqueNames

LEMMA RenamedUnique ==
  ASSUME NEW seq, NEW new, DOMAIN new = DOMAIN seq, UniqueNames(seq),
         NEW at \in DOMAIN seq, ~ NameTaken(seq, new[at].name, at),
         \A i \in DOMAIN seq \ {at} : new[i].name = seq[i].name
  PROVE  UniqueNames(new)
  BY DEF UniqueNames, NameTaken

-----------------------------------------------------------------------------
(* Documents.                                                              *)
DefinedIn(d, c) == {d.defs[c][i].name : i \in DOMAIN d.defs[c]}

(* What the editors see of a state names something, or is in T.            *)
StateSound(d, s, T) ==
  /\ VisibleTargets(d, s) \subseteq NamesOf(d) \cup T
  /\ \A c \in Collections : SeesUses(d, s, c) => Uses(s, c) \subseteq DefinedIn(d, c) \cup T

Sound(d, T) ==
  /\ d.start \in NamesOf(d) \cup T \cup {None}
  /\ \A i \in DOMAIN d.states : StateSound(d, d.states[i], T)
  /\ DanglingAliases(d) \subseteq T

(* What an operation keeps of d when it makes e of it.                     *)
Kept(d, e, T, U) ==
  /\ e \in Document
  /\ Sound(d, T) => Sound(e, U)
  /\ UniquelyNamed(d) => UniquelyNamed(e)

LEMMA SoundIs ==
  ASSUME NEW d, NEW T
  PROVE  Sound(d, T) <=>
           /\ VisiblyDangling(d) \subseteq T
           /\ \A c \in Collections : DefinitionReferences(d, c) \subseteq DefinedIn(d, c) \cup T
           /\ DanglingAliases(d) \subseteq T
  <1>1. VisiblyDangling(d) \subseteq T <=>
          /\ d.start \in NamesOf(d) \cup T \cup {None}
          /\ \A i \in DOMAIN d.states : VisibleTargets(d, d.states[i]) \subseteq NamesOf(d) \cup T
    <2>1. \A i \in DOMAIN d.states : None \notin VisibleTargets(d, d.states[i])
      BY DEF VisibleTargets
    <2>2. QED  BY <2>1 DEF VisiblyDangling, References
  <1>2. ASSUME NEW c \in Collections
        PROVE  DefinitionReferences(d, c) \subseteq DefinedIn(d, c) \cup T <=>
                 \A i \in DOMAIN d.states : SeesUses(d, d.states[i], c) =>
                   Uses(d.states[i], c) \subseteq DefinedIn(d, c) \cup T
    BY DEF DefinitionReferences
  <1>3. QED  BY <1>1, <1>2 DEF Sound, StateSound

LEMMA VisibleTargetIs ==
  ASSUME NEW d, NEW s, NEW x
  PROVE  x \in VisibleTargets(d, s) <=>
           /\ x # None
           /\ \/ x = s.transition
              \/ Visible(d, s, "default") /\ x = s.default
              \/ Visible(d, s, "conditions") /\ \E k \in DOMAIN s.conditions : x = s.conditions[k].to
              \/ Visible(d, s, "errors") /\ \E k \in DOMAIN s.errors : x = s.errors[k].to
  <1>1. x \in UNION {BranchTargets(s, f) : f \in {g \in BranchFields : Visible(d, s, g)}} <=>
          \/ Visible(d, s, "conditions") /\ x \in BranchTargets(s, "conditions")
          \/ Visible(d, s, "errors") /\ x \in BranchTargets(s, "errors")
    BY DEF BranchFields
  <1>2. /\ BranchTargets(s, "conditions") = {s.conditions[k].to : k \in DOMAIN s.conditions}
        /\ BranchTargets(s, "errors") = {s.errors[k].to : k \in DOMAIN s.errors}
    BY DEF BranchTargets
  <1>3. QED  BY <1>1, <1>2 DEF VisibleTargets

LEMMA SameSight ==
  ASSUME NEW d, NEW e, e.format = d.format, NEW s
  PROVE  /\ VisibleTargets(e, s) = VisibleTargets(d, s)
         /\ \A c : SeesUses(e, s, c) <=> SeesUses(d, s, c)
  <1>1. \A f : Visible(e, s, f) <=> Visible(d, s, f)
    BY DEF Visible
  <1>2. \A x : x \in VisibleTargets(e, s) <=> x \in VisibleTargets(d, s)
    BY <1>1, VisibleTargetIs
  <1>3. QED  BY <1>1, <1>2 DEF SeesUses

LEMMA SameAliases ==
  ASSUME NEW d, NEW e, e.format = d.format, e.defs = d.defs, e.flow = d.flow
  PROVE  /\ AliasUses(e) = AliasUses(d)
         /\ e.aliases = d.aliases => DanglingAliases(e) = DanglingAliases(d)
  <1>1. SeenDefs(e, "functions") = SeenDefs(d, "functions")
    BY DEF SeenDefs
  <1>2. QED  BY <1>1 DEF AliasUses, DanglingAliases

LEMMA StatesReplaced ==
  ASSUME NEW d \in Document, NEW states \in Seq(State), NEW e, e = [d EXCEPT !.states = states]
  PROVE  /\ e \in Document
         /\ e.states = states /\ e.format = d.format /\ e.parses = d.parses
         /\ e.start = d.start /\ e.defs = d.defs /\ e.flow = d.flow /\ e.aliases = d.aliases
         /\ NamesOf(e) = {states[i].name : i \in DOMAIN states}
         /\ \A c : DefinedIn(e, c) = DefinedIn(d, c)
         /\ DanglingAliases(e) = DanglingAliases(d)
  <1>1. /\ e.states = states /\ e.format = d.format /\ e.parses = d.parses
        /\ e.start = d.start /\ e.defs = d.defs /\ e.flow = d.flow /\ e.aliases = d.aliases
        /\ e \in Document
    BY DEF Document
  <1>2. /\ NamesOf(e) = {states[i].name : i \in DOMAIN states}
        /\ \A c : DefinedIn(e, c) = DefinedIn(d, c)
        /\ DanglingAliases(e) = DanglingAliases(d)
    BY <1>1, SameAliases DEF NamesOf, DefinedIn
  <1>3. QED  BY <1>1, <1>2

(* The states change, and no name is lost.                                 *)
LEMMA StatesKept ==
  ASSUME NEW d \in Document, NEW states \in Seq(State), NEW e, e = [d EXCEPT !.states = states],
         NEW T, NEW U, T \subseteq U,
         \A i \in DOMAIN d.states : \E j \in DOMAIN states : states[j].name = d.states[i].name,
         Sound(d, T) => \A i \in DOMAIN states : StateSound(d, states[i], U),
         UniquelyNamed(d) => UniqueNames(states)
  PROVE  Kept(d, e, T, U)
  <1>1. /\ e \in Document /\ e.states = states /\ e.format = d.format
        /\ e.start = d.start /\ e.defs = d.defs
        /\ NamesOf(e) = {states[i].name : i \in DOMAIN states}
        /\ \A c : DefinedIn(e, c) = DefinedIn(d, c)
        /\ DanglingAliases(e) = DanglingAliases(d)
    BY StatesReplaced
  <1>2. NamesOf(d) \subseteq NamesOf(e)
    BY <1>1 DEF NamesOf
  <1>3. ASSUME Sound(d, T) PROVE Sound(e, U)
    <2>1. ASSUME NEW i \in DOMAIN states PROVE StateSound(e, states[i], U)
      <3>1. StateSound(d, states[i], U)
        BY <1>3
      <3>2. VisibleTargets(e, states[i]) = VisibleTargets(d, states[i])
        BY <1>1, SameSight
      <3>3. \A c : SeesUses(e, states[i], c) <=> SeesUses(d, states[i], c)
        BY <1>1, SameSight
      <3>4. QED  BY <1>1, <1>2, <3>1, <3>2, <3>3 DEF StateSound
    <2>2. e.start \in NamesOf(e) \cup U \cup {None} /\ DanglingAliases(e) \subseteq U
      BY <1>1, <1>2, <1>3 DEF Sound
    <2>3. QED  BY <1>1, <2>1, <2>2 DEF Sound
  <1>4. QED  BY <1>1, <1>3 DEF Kept, UniquelyNamed

LEMMA DocumentIs ==
  ASSUME NEW d \in Document
  PROVE  /\ d.states \in Seq(State) /\ Len(d.states) \in Nat
         /\ DOMAIN d.states = 1 .. Len(d.states)
         /\ \A i \in DOMAIN d.states : d.states[i] \in State
         /\ \A c \in Collections : /\ d.defs[c] \in Seq(Definition) /\ Len(d.defs[c]) \in Nat
                                   /\ DOMAIN d.defs[c] = 1 .. Len(d.defs[c])
                                   /\ \A i \in DOMAIN d.defs[c] : d.defs[c][i] \in Definition
  <1>1. d.states \in Seq(State) /\ \A c \in Collections : d.defs[c] \in Seq(Definition)
    BY DEF Document
  <1>2. QED  BY <1>1, LenProperties, ElementOfSeq

LEMMA KeptSame ==
  ASSUME NEW d \in Document, NEW T, NEW U, T \subseteq U
  PROVE  Kept(d, d, T, U)
  BY DEF Kept, Sound, StateSound

LEMMA StateReplaced ==
  ASSUME NEW d \in Document, NEW i \in DOMAIN d.states, NEW s \in State, NEW e,
         e = [d EXCEPT !.states[i] = s], s.name = d.states[i].name,
         NEW T, NEW U, T \subseteq U, StateSound(d, d.states[i], T) => StateSound(d, s, U)
  PROVE  Kept(d, e, T, U)
  <1> DEFINE states == [d.states EXCEPT ![i] = s]
  <1>1. /\ states \in Seq(State) /\ DOMAIN states = DOMAIN d.states
        /\ \A j \in DOMAIN states : states[j] = IF j = i THEN s ELSE d.states[j]
    <2>1. /\ d.states \in Seq(State) /\ i \in 1 .. Len(d.states)
          /\ DOMAIN d.states = 1 .. Len(d.states)
      BY DocumentIs
    <2>2. states \in Seq(State)
      BY <2>1, ExceptSeq
    <2>3. QED  BY <2>1, <2>2
  <1>2. e = [d EXCEPT !.states = states]
    BY DEF Document
  <1> HIDE DEF states
  <1>3. \A j \in DOMAIN d.states : states[j].name = d.states[j].name
    BY <1>1
  <1>4. ASSUME Sound(d, T), NEW j \in DOMAIN states PROVE StateSound(d, states[j], U)
    BY <1>1, <1>4 DEF Sound, StateSound
  <1>5. UniquelyNamed(d) => UniqueNames(states)
    BY <1>1, <1>3, SameUnique DEF UniquelyNamed
  <1>6. QED  BY <1>1, <1>2, <1>3, <1>4, <1>5, StatesKept

(* What is written in a state is in U, and the rest was there.             *)
LEMMA WrittenSound ==
  ASSUME NEW d, NEW s, NEW new, NEW T, NEW U, T \subseteq U, StateSound(d, s, T),
         {new.transition} \subseteq {s.transition, None} \cup NamesOf(d) \cup U,
         Visible(d, new, "default") =>
           \/ new.default \in NamesOf(d) \cup U \cup {None}
           \/ Visible(d, s, "default") /\ new.default = s.default,
         Visible(d, new, "conditions") =>
           \A k \in DOMAIN new.conditions :
             \/ new.conditions[k].to \in U
             \/ /\ Visible(d, s, "conditions")
                /\ \E l \in DOMAIN s.conditions : new.conditions[k].to = s.conditions[l].to,
         Visible(d, new, "errors") =>
           \A k \in DOMAIN new.errors :
             \/ new.errors[k].to \in U
             \/ Visible(d, s, "errors") /\ \E l \in DOMAIN s.errors : new.errors[k].to = s.errors[l].to,
         SeesUses(d, new, "functions") =>
           RefNames(new) \subseteq U \/ (SeesUses(d, s, "functions") /\ RefNames(new) \subseteq RefNames(s)),
         {new.event} \subseteq {s.event, None} \cup U,
         ErrorRefs(new) \subseteq ErrorRefs(s) \cup U
  PROVE  StateSound(d, new, U)
  <1>1. ASSUME NEW x \in VisibleTargets(d, new) PROVE x \in NamesOf(d) \cup U
    <2>1. \A y : y \in VisibleTargets(d, s) => y \in NamesOf(d) \cup U
      BY DEF StateSound
    <2>2. CASE x = new.transition
      <3>1. x # None
        BY VisibleTargetIs
      <3>2. x = s.transition => x \in VisibleTargets(d, s)
        BY <3>1, VisibleTargetIs
      <3>3. QED  BY <2>1, <2>2, <3>1, <3>2
    <2>3. CASE Visible(d, new, "default") /\ x = new.default
      <3>1. x # None
        BY VisibleTargetIs
      <3>2. Visible(d, s, "default") /\ x = s.default => x \in VisibleTargets(d, s)
        BY <3>1, VisibleTargetIs
      <3>3. QED  BY <2>1, <2>3, <3>1, <3>2
    <2>4. ASSUME Visible(d, new, "conditions"), NEW k \in DOMAIN new.conditions,
                 x = new.conditions[k].to
          PROVE  x \in NamesOf(d) \cup U
      <3>1. x # None
        BY VisibleTargetIs
      <3>2. (Visible(d, s, "conditions") /\ \E l \in DOMAIN s.conditions : x = s.conditions[l].to)
              => x \in VisibleTargets(d, s)
        BY <3>1, VisibleTargetIs
      <3>3. QED  BY <2>1, <2>4, <3>2
    <2>5. ASSUME Visible(d, new, "errors"), NEW k \in DOMAIN new.errors, x = new.errors[k].to
          PROVE  x \in NamesOf(d) \cup U
      <3>1. x # None
        BY VisibleTargetIs
      <3>2. (Visible(d, s, "errors") /\ \E l \in DOMAIN s.errors : x = s.errors[l].to)
              => x \in VisibleTargets(d, s)
        BY <3>1, VisibleTargetIs
      <3>3. QED  BY <2>1, <2>5, <3>2
    <2>6. QED  BY <2>2, <2>3, <2>4, <2>5, VisibleTargetIs
  <1>2. ASSUME NEW c \in Collections, SeesUses(d, new, c)
        PROVE  Uses(new, c) \subseteq DefinedIn(d, c) \cup U
    <2>1. SeesUses(d, s, c) => Uses(s, c) \subseteq DefinedIn(d, c) \cup U
      BY DEF StateSound
    <2>2. CASE c = "functions"
      BY <1>2, <2>1, <2>2 DEF Uses
    <2>3. CASE c = "events"
      BY <1>2, <2>1, <2>3 DEF Uses, SeesUses
    <2>4. CASE c = "errors"
      BY <1>2, <2>1, <2>4 DEF Uses, SeesUses
    <2>5. QED  BY <2>2, <2>3, <2>4 DEF Collections
  <1>3. QED  BY <1>1, <1>2 DEF StateSound

(* A state with the name of none.                                          *)
LEMMA StatesMore ==
  ASSUME NEW d \in Document, NEW s \in State, NEW states \in Seq(State), NEW e,
         e = [d EXCEPT !.states = states], Adds(states, d.states, s),
         \A i \in DOMAIN d.states : d.states[i].name # s.name,
         NEW T, Sound(d, T) => StateSound(d, s, T)
  PROVE  Kept(d, e, T, T)
  <1>1. Sound(d, T) => \A j \in DOMAIN states : StateSound(d, states[j], T)
    BY DEF Sound, Adds
  <1>2. UniquelyNamed(d) => UniqueNames(states)
    BY DEF UniquelyNamed, Adds
  <1>3. \A i \in DOMAIN d.states : \E j \in DOMAIN states : states[j].name = d.states[i].name
    BY DEF Adds
  <1>4. QED  BY <1>1, <1>2, <1>3, StatesKept

LEMMA StateInserted ==
  ASSUME NEW d \in Document, NEW at \in 1 .. Len(d.states) + 1, NEW s \in State, NEW e,
         e = [d EXCEPT !.states = Inserted(d.states, at, s)],
         \A i \in DOMAIN d.states : d.states[i].name # s.name,
         NEW T, Sound(d, T) => StateSound(d, s, T)
  PROVE  Kept(d, e, T, T)
  <1>1. d.states \in Seq(State)
    BY DocumentIs
  <1>2. Inserted(d.states, at, s) \in Seq(State) /\ Adds(Inserted(d.states, at, s), d.states, s)
    BY <1>1, InsertedSeq
  <1>3. QED  BY <1>2, StatesMore

LEMMA StateAppended ==
  ASSUME NEW d \in Document, NEW s \in State, NEW e,
         e = [d EXCEPT !.states = Append(d.states, s)],
         \A i \in DOMAIN d.states : d.states[i].name # s.name,
         NEW T, Sound(d, T) => StateSound(d, s, T)
  PROVE  Kept(d, e, T, T)
  <1>1. d.states \in Seq(State)
    BY DocumentIs
  <1>2. Append(d.states, s) \in Seq(State) /\ Adds(Append(d.states, s), d.states, s)
    BY <1>1, AppendSeq
  <1>3. QED  BY <1>2, StatesMore

(* Losing a state that nothing the editors see names.                      *)
LEMMA StatesFewer ==
  ASSUME NEW d \in Document, NEW i \in DOMAIN d.states, NEW T,
         d.states[i].name \notin References(d), NEW states \in Seq(State), NEW e,
         e = [d EXCEPT !.states = states], Drops(states, d.states, i)
  PROVE  Kept(d, e, T, T)
  <1>3. /\ e \in Document /\ e.states = states /\ e.format = d.format
        /\ e.start = d.start /\ e.defs = d.defs
        /\ NamesOf(e) = {states[j].name : j \in DOMAIN states}
        /\ \A c : DefinedIn(e, c) = DefinedIn(d, c)
        /\ DanglingAliases(e) = DanglingAliases(d)
    BY StatesReplaced
  <1>4. NamesOf(d) \subseteq NamesOf(e) \cup {d.states[i].name}
    BY <1>3 DEF NamesOf, Drops
  <1>5. ASSUME Sound(d, T), NEW j \in DOMAIN d.states PROVE StateSound(e, d.states[j], T)
    <2>1. StateSound(d, d.states[j], T) /\ VisibleTargets(d, d.states[j]) \subseteq NamesOf(d) \cup T
      BY <1>5 DEF Sound, StateSound
    <2>2. d.states[i].name \notin VisibleTargets(d, d.states[j])
      BY DEF References, VisibleTargets
    <2>3. VisibleTargets(e, d.states[j]) = VisibleTargets(d, d.states[j])
      BY <1>3, SameSight
    <2>4. \A c : SeesUses(e, d.states[j], c) <=> SeesUses(d, d.states[j], c)
      BY <1>3, SameSight
    <2>5. QED  BY <1>3, <1>4, <2>1, <2>2, <2>3, <2>4 DEF StateSound
  <1>6. ASSUME Sound(d, T) PROVE Sound(e, T)
    <2>1. \A j \in DOMAIN e.states : StateSound(e, e.states[j], T)
      BY <1>3, <1>5, <1>6 DEF Drops
    <2>2. e.start \in NamesOf(e) \cup T \cup {None}
      <3>1. d.start # None => d.start # d.states[i].name
        BY DEF References
      <3>2. d.start \in NamesOf(d) \cup T \cup {None}
        BY <1>6 DEF Sound
      <3>3. QED  BY <1>3, <1>4, <3>1, <3>2
    <2>3. DanglingAliases(e) \subseteq T
      BY <1>3, <1>6 DEF Sound
    <2>4. QED  BY <2>1, <2>2, <2>3 DEF Sound
  <1>7. UniquelyNamed(d) => UniquelyNamed(e)
    BY <1>3 DEF UniquelyNamed, Drops
  <1>8. QED  BY <1>3, <1>6, <1>7 DEF Kept

LEMMA StateRemoved ==
  ASSUME NEW d \in Document, NEW i \in DOMAIN d.states, NEW T,
         d.states[i].name \notin References(d), NEW e,
         e = [d EXCEPT !.states = Removed(d.states, i)]
  PROVE  Kept(d, e, T, T) /\ Len(e.states) = Len(d.states) - 1
  <1>1. /\ d.states \in Seq(State) /\ DOMAIN d.states = 1 .. Len(d.states)
    BY DocumentIs
  <1>2. /\ Removed(d.states, i) \in Seq(State) /\ Len(Removed(d.states, i)) = Len(d.states) - 1
        /\ Drops(Removed(d.states, i), d.states, i)
    BY <1>1, RemovedSeq
  <1>3. e.states = Removed(d.states, i)
    BY DEF Document
  <1>4. Kept(d, e, T, T)
    BY <1>2, StatesFewer
  <1>5. QED  BY <1>2, <1>3, <1>4

LEMMA KeptTwice ==
  ASSUME NEW d, NEW e, NEW f, NEW T, NEW U, NEW V, Kept(d, e, T, U), Kept(e, f, U, V)
  PROVE  Kept(d, f, T, V)
  BY DEF Kept

-----------------------------------------------------------------------------
(* The operations on states.                                               *)
LEMMA CreateKept ==
  ASSUME NEW d \in Document, NEW n \in Names, NEW t \in Types, NEW T
  PROVE  Kept(d, CreateState(d, n, t).source, T, T)
  <1> DEFINE s == NewState(n, t)
             e == [d EXCEPT !.states = Append(d.states, s)]
  <1>1. s \in State /\ s.name = n
    BY DEF NewState, State
  <1>2. StateSound(d, s, T)
    <2>1. VisibleTargets(d, s) = {}
      <3>1. \A x : x \notin VisibleTargets(d, s)
        BY VisibleTargetIs DEF NewState
      <3>2. QED  BY <3>1
    <2>2. \A c \in Collections : Uses(s, c) = {}
      BY DEF Uses, RefNames, ErrorRefs, NewState, Collections
    <2>3. QED  BY <2>1, <2>2 DEF StateSound
  <1>3. CASE Unreadable(d) \/ NameTaken(d.states, n, 0)
    BY <1>3, KeptSame DEF CreateState, Refused
  <1>4. CASE ~ (Unreadable(d) \/ NameTaken(d.states, n, 0))
    <2>1. CreateState(d, n, t).source = e
      BY <1>4 DEF CreateState, Patched
    <2>2. \A i \in DOMAIN d.states : d.states[i].name # s.name
      <3>1. \A i \in DOMAIN d.states : i # 0
        BY DocumentIs
      <3>2. QED  BY <1>1, <1>4, <3>1 DEF NameTaken
    <2> HIDE DEF s
    <2>3. QED  BY <1>1, <1>2, <2>1, <2>2, StateAppended
  <1>5. QED  BY <1>3, <1>4

LEMMA DuplicateKept ==
  ASSUME NEW d \in Document, NEW i \in DOMAIN d.states, NEW n \in Names, n # d.states[i].name,
         NEW T
  PROVE  Kept(d, DuplicateState(d, i, n).source, T, T)
  <1> DEFINE s == [d.states[i] EXCEPT !.name = n]
             e == [d EXCEPT !.states = Inserted(d.states, i + 1, s)]
  <1>0. d.states[i] \in State /\ i + 1 \in 1 .. Len(d.states) + 1
    BY DocumentIs
  <1>1. /\ s \in State /\ s.name = n
        /\ s.transition = d.states[i].transition /\ s.default = d.states[i].default
        /\ s.conditions = d.states[i].conditions /\ s.errors = d.states[i].errors
        /\ s.actions = d.states[i].actions /\ s.event = d.states[i].event
        /\ s.inline = d.states[i].inline
    BY <1>0 DEF State
  <1>3. CASE Unreadable(d) \/ NameTaken(d.states, n, i)
    BY <1>3, KeptSame DEF DuplicateState, Refused
  <1>4. CASE ~ (Unreadable(d) \/ NameTaken(d.states, n, i))
    <2>1. DuplicateState(d, i, n).source = e
      BY <1>4 DEF DuplicateState, Patched, Document
    <2>2. \A j \in DOMAIN d.states : d.states[j].name # s.name
      BY <1>1, <1>4 DEF NameTaken
    <2> HIDE DEF s
    <2>3. Sound(d, T) => StateSound(d, s, T)
      <3>1. VisibleTargets(d, s) = VisibleTargets(d, d.states[i])
        <4>1. \A f : Visible(d, s, f) <=> Visible(d, d.states[i], f)
          BY <1>1 DEF Visible
        <4>2. \A x : x \in VisibleTargets(d, s) <=> x \in VisibleTargets(d, d.states[i])
          BY <1>1, <4>1, VisibleTargetIs
        <4>3. QED  BY <4>2
      <3>2. \A c : Uses(s, c) = Uses(d.states[i], c) /\ (SeesUses(d, s, c) <=> SeesUses(d, d.states[i], c))
        BY <1>1 DEF Uses, RefNames, ErrorRefs, SeesUses, Visible
      <3>3. Sound(d, T) => StateSound(d, d.states[i], T)
        BY DEF Sound
      <3>4. QED  BY <3>1, <3>2, <3>3 DEF StateSound
    <2>4. QED  BY <1>0, <1>1, <2>1, <2>2, <2>3, StateInserted
  <1>5. QED  BY <1>3, <1>4

LEMMA DeleteKept ==
  ASSUME NEW d \in Document, NEW i \in DOMAIN d.states, NEW T
  PROVE  /\ Kept(d, DeleteState(d, i).source, T, T)
         /\ Len(DeleteState(d, i).source.states) >= Len(d.states) - 1
  <1>1. CASE Unreadable(d) \/ d.states[i].name \in References(d)
    <2>1. DeleteState(d, i).source = d
      BY <1>1 DEF DeleteState, Refused
    <2>2. Len(d.states) \in Nat
      BY DocumentIs
    <2>3. QED  BY <2>1, <2>2, KeptSame
  <1>2. CASE ~ (Unreadable(d) \/ d.states[i].name \in References(d))
    <2>1. DeleteState(d, i).source = [d EXCEPT !.states = Removed(d.states, i)]
      BY <1>2 DEF DeleteState, Patched
    <2>2. Len(d.states) \in Nat
      BY DocumentIs
    <2>3. /\ Kept(d, DeleteState(d, i).source, T, T)
          /\ Len(DeleteState(d, i).source.states) = Len(d.states) - 1
      BY <1>2, <2>1, StateRemoved
    <2>4. QED  BY <2>2, <2>3
  <1>3. QED  BY <1>1, <1>2

LEMMA MoveKept ==
  ASSUME NEW d \in Document, NEW i \in DOMAIN d.states, NEW direction, NEW T
  PROVE  Kept(d, MoveState(d, i, direction).source, T, T)
  <1> DEFINE states == Moved(d.states, i, direction)
  <1>1. CASE Unreadable(d)
    BY <1>1, KeptSame DEF MoveState, Refused
  <1>2. CASE ~ Unreadable(d)
    <2>1. MoveState(d, i, direction).source = [d EXCEPT !.states = states]
      BY <1>2 DEF MoveState, Patched
    <2>2. d.states \in Seq(State)
      BY DocumentIs
    <2>3. states \in Seq(State) /\ DOMAIN states = DOMAIN d.states /\ Swaps(states, d.states, i)
      BY <2>2, MovedSeq
    <2>4. PICK j \in DOMAIN d.states : \A k \in DOMAIN d.states :
            states[k] = IF k = j THEN d.states[i] ELSE IF k = i THEN d.states[j] ELSE d.states[k]
      BY <2>3 DEF Swaps
    <2>5. UniquelyNamed(d) => UniqueNames(states)
      BY <2>2, MovedUnique DEF UniquelyNamed
    <2> HIDE DEF states
    <2>6. \A k \in DOMAIN d.states : \E l \in DOMAIN states : states[l].name = d.states[k].name
      BY <2>3, <2>4
    <2>7. Sound(d, T) => \A k \in DOMAIN states : StateSound(d, states[k], T)
      BY <2>3, <2>4 DEF Sound
    <2>8. QED  BY <2>1, <2>3, <2>5, <2>6, <2>7, StatesKept
  <1>3. QED  BY <1>1, <1>2

(* Deleting a selection: what the deletions so far have left.              *)
LEMMA DeleteStatesKept ==
  ASSUME NEW d \in Document, NEW names, NEW T
  PROVE  Kept(d, DeleteStates(d, names).source, T, T)
  <1> DEFINE states == StatesOf(d)
             chosen == {IndexOf(states, name) : name \in names}
             n == Len(states)
             After(r, k) == IF r.error \/ n - k + 1 \notin chosen THEN r
                            ELSE DeleteState(r.source, n - k + 1)
             Step(g, k) == IF k = 0 THEN Patched(d) ELSE After(g[k - 1], k)
             IsDown(g, m) == g = [k \in 0 .. m |-> Step(g, k)]
             Down == CHOOSE g : IsDown(g, n)
             Fine(k) == ~ Down[k].error => /\ Kept(d, Down[k].source, T, T)
                                           /\ Len(Down[k].source.states) >= n - k
  <1>1. DeleteStates(d, names).source \in {d, Down[n].source}
        /\ (DeleteStates(d, names).source # d => ~ Down[n].error)
    BY DEF DeleteStates, Refused
  <1>2. n \in Nat /\ n <= Len(d.states) /\ Len(d.states) \in Nat
    BY DocumentIs DEF StatesOf
  <1> HIDE DEF states, n, chosen, After
  <1>3. \A m \in Nat : \E g : IsDown(g, m)
    <2> DEFINE Bad == {m \in Nat : ~ \E g : IsDown(g, m)}
    <2> SUFFICES ASSUME Bad # {} PROVE FALSE
      OBVIOUS
    <2>1. PICK m \in Bad : \A k \in Bad : m <= k
      <3>1. Bad \subseteq Nat
        OBVIOUS
      <3> HIDE DEF Bad
      <3>2. QED  BY <3>1, LeastNat
    <2>2. m \in Nat /\ \A g : ~ IsDown(g, m)
      BY <2>1
    <2>3. CASE m = 0
      <3> DEFINE g == [k \in 0 .. 0 |-> Patched(d)]
      <3>1. IsDown(g, 0)
        OBVIOUS
      <3>2. QED  BY <2>2, <2>3, <3>1
    <2>4. CASE m # 0
      <3>1. m - 1 \in Nat /\ m - 1 \notin Bad
        <4> HIDE DEF Bad
        <4> QED  BY <2>1, <2>2, <2>4
      <3>2. PICK g : IsDown(g, m - 1)
        BY <3>1
      <3> DEFINE h == [k \in 0 .. m |-> IF k = m THEN After(g[m - 1], m) ELSE g[k]]
      <3>3. ASSUME NEW k \in 0 .. m PROVE h[k] = Step(h, k)
        <4>1. CASE k = m
          BY <2>2, <2>4, <4>1
        <4>2. CASE k # m
          <5>1. k \in 0 .. m - 1 /\ h[k] = g[k]
            BY <2>2, <4>2
          <5>2. g[k] = Step(g, k)
            BY <3>2, <5>1
          <5>3. k # 0 => h[k - 1] = g[k - 1]
            BY <2>2, <5>1
          <5> HIDE DEF h
          <5>4. QED  BY <5>1, <5>2, <5>3
        <4>3. QED  BY <4>1, <4>2
      <3>4. h = [k \in 0 .. m |-> h[k]]
        OBVIOUS
      <3> HIDE DEF h
      <3>5. IsDown(h, m)
        BY <3>3, <3>4
      <3>6. QED  BY <2>2, <3>5
    <2>5. QED  BY <2>3, <2>4
  <1>4. IsDown(Down, n)
    <2>1. \E g : IsDown(g, n)
      BY <1>2, <1>3
    <2> HIDE DEF IsDown
    <2>2. QED  BY <2>1
  <1> HIDE DEF Down
  <1>5. Down[0] = Patched(d) /\ \A k \in 1 .. n : Down[k] = After(Down[k - 1], k)
    BY <1>2, <1>4
  <1>6. Fine(0)
    BY <1>2, <1>5, KeptSame DEF Patched
  <1>7. ASSUME NEW k \in 1 .. n, Fine(k - 1) PROVE Fine(k)
    <2>1. Down[k] = After(Down[k - 1], k)
      BY <1>5
    <2> DEFINE r == Down[k - 1]
               i == n - k + 1
    <2>2. CASE r.error \/ i \notin chosen
      <3>1. Down[k] = r
        BY <2>1, <2>2 DEF After
      <3>2. n - (k - 1) >= n - k
        BY <1>2
      <3>3. Len(r.source.states) >= n - (k - 1) /\ Kept(d, r.source, T, T)
               => Len(r.source.states) >= n - k
        <4>1. Kept(d, r.source, T, T) => Len(r.source.states) \in Nat
          BY DocumentIs DEF Kept
        <4>2. QED  BY <1>2, <4>1
      <3>4. QED  BY <1>7, <3>1, <3>3
    <2>3. CASE ~ (r.error \/ i \notin chosen)
      <3>1. Down[k] = DeleteState(r.source, i)
        BY <2>1, <2>3 DEF After
      <3>2. Kept(d, r.source, T, T) /\ Len(r.source.states) >= n - (k - 1)
        BY <1>7, <2>3
      <3>3. r.source \in Document /\ Len(r.source.states) \in Nat
            /\ DOMAIN r.source.states = 1 .. Len(r.source.states)
        BY <3>2, DocumentIs DEF Kept
      <3>4. i \in DOMAIN r.source.states
        BY <1>2, <3>2, <3>3
      <3> HIDE DEF r, i
      <3>5. /\ Kept(r.source, DeleteState(r.source, i).source, T, T)
            /\ Len(DeleteState(r.source, i).source.states) >= Len(r.source.states) - 1
        BY <3>3, <3>4, DeleteKept
      <3>6. Kept(d, Down[k].source, T, T)
        BY <3>1, <3>2, <3>5, KeptTwice
      <3>7. Len(Down[k].source.states) >= n - k
        <4>1. Len(Down[k].source.states) \in Nat
          BY <3>6, DocumentIs DEF Kept
        <4>2. QED  BY <1>2, <3>1, <3>2, <3>3, <3>5, <4>1
      <3>8. QED  BY <3>6, <3>7
    <2>4. QED  BY <2>2, <2>3
  <1>8. Fine(n)
    <2> DEFINE Bad == {k \in 0 .. n : ~ Fine(k)}
    <2> SUFFICES ASSUME Bad # {} PROVE FALSE
      BY <1>2
    <2>1. PICK m \in Bad : \A k \in Bad : m <= k
      <3>1. Bad \subseteq Nat
        OBVIOUS
      <3> HIDE DEF Bad
      <3>2. QED  BY <3>1, LeastNat
    <2> HIDE DEF Fine
    <2>2. m # 0 /\ m \in 0 .. n /\ ~ Fine(m)
      BY <1>6, <2>1
    <2>3. m - 1 \in 0 .. n /\ m - 1 \notin Bad /\ m \in 1 .. n
      BY <1>2, <2>1, <2>2
    <2>4. QED  BY <1>7, <2>2, <2>3
  <1> HIDE DEF Kept
  <1>9. QED  BY <1>1, <1>8, KeptSame

(* A field of a state.                                                     *)
LEMMA DirectKept ==
  ASSUME NEW d \in Document, NEW i \in DOMAIN d.states, NEW s \in State, NEW e, NEW T,
         e = [d EXCEPT !.states[i] = s],
         s.transition \in {d.states[i].transition, None} \cup NamesOf(d),
         s.name = d.states[i].name, s.default = d.states[i].default,
         s.conditions = d.states[i].conditions, s.errors = d.states[i].errors,
         s.actions = d.states[i].actions, s.event = d.states[i].event,
         s.inline = d.states[i].inline
  PROVE  Kept(d, e, T, T)
  <1>1. ASSUME StateSound(d, d.states[i], T) PROVE StateSound(d, s, T)
    <2>1. \A f : Visible(d, s, f) <=> Visible(d, d.states[i], f)
      BY DEF Visible
    <2>2. /\ \A c : SeesUses(d, s, c) <=> SeesUses(d, d.states[i], c)
          /\ RefNames(s) = RefNames(d.states[i]) /\ ErrorRefs(s) = ErrorRefs(d.states[i])
      BY DEF SeesUses, Visible, RefNames, ErrorRefs
    <2>3. QED  BY <1>1, <2>1, <2>2, WrittenSound
  <1>2. QED  BY <1>1, StateReplaced

LEMMA EditKept ==
  ASSUME NEW d \in Document, NEW i \in DOMAIN d.states, NEW T,
         NEW t \in Types, NEW n \in NamesOf(d) \cup {None}, NEW b \in BOOLEAN
  PROVE  /\ Kept(d, EditState(d, i, "type", t).source, T, T)
         /\ Kept(d, EditState(d, i, "transition", n).source, T, T)
         /\ Kept(d, EditState(d, i, "end", b).source, T, T)
  <1> DEFINE s == d.states[i]
  <1>1. s \in State /\ n \in Names \cup {None}
    <2>1. \A j \in DOMAIN d.states : d.states[j].name \in Names
      BY DocumentIs DEF State
    <2>2. QED  BY <2>1, DocumentIs DEF NamesOf
  <1>2. CASE Unreadable(d)
    BY <1>2, KeptSame DEF EditState, Refused
  <1>3. CASE ~ Unreadable(d)
    <2>1. Kept(d, EditState(d, i, "type", t).source, T, T)
      <3> DEFINE new == [s EXCEPT !.type = t]
      <3>1. /\ new \in State /\ new.transition = s.transition
            /\ new.name = s.name /\ new.default = s.default
            /\ new.conditions = s.conditions /\ new.errors = s.errors
            /\ new.actions = s.actions /\ new.event = s.event /\ new.inline = s.inline
        BY <1>1 DEF State
      <3>2. EditState(d, i, "type", t).source = [d EXCEPT !.states[i] = new]
        BY <1>3 DEF EditState, Patched
      <3> HIDE DEF new
      <3>3. QED  BY <3>1, <3>2, DirectKept
    <2>2. Kept(d, EditState(d, i, "transition", n).source, T, T)
      <3> DEFINE new == [s EXCEPT !.transition = n]
      <3>1. /\ new \in State /\ new.transition = n
            /\ new.name = s.name /\ new.default = s.default
            /\ new.conditions = s.conditions /\ new.errors = s.errors
            /\ new.actions = s.actions /\ new.event = s.event /\ new.inline = s.inline
        BY <1>1 DEF State
      <3>2. EditState(d, i, "transition", n).source = [d EXCEPT !.states[i] = new]
        BY <1>3 DEF EditState, Patched
      <3> HIDE DEF new
      <3>3. QED  BY <3>1, <3>2, DirectKept
    <2>3. Kept(d, EditState(d, i, "end", b).source, T, T)
      <3> DEFINE new == [s EXCEPT !.end = b]
      <3>1. /\ new \in State /\ new.transition = s.transition
            /\ new.name = s.name /\ new.default = s.default
            /\ new.conditions = s.conditions /\ new.errors = s.errors
            /\ new.actions = s.actions /\ new.event = s.event /\ new.inline = s.inline
        BY <1>1 DEF State
      <3>2. EditState(d, i, "end", b).source = [d EXCEPT !.states[i] = new]
        BY <1>3 DEF EditState, Patched
      <3> HIDE DEF new
      <3>3. QED  BY <3>1, <3>2, DirectKept
    <2>4. QED  BY <2>1, <2>2, <2>3
  <1>4. QED  BY <1>2, <1>3

LEMMA ConnectKept ==
  ASSUME NEW d \in Document, NEW from, NEW to, NEW T
  PROVE  Kept(d, ConnectStates(d, from, to).source, T, T)
  <1> DEFINE i == IndexOf(StatesOf(d), from)
             j == IndexOf(StatesOf(d), to)
  <1>1. CASE from = to \/ i = 0 \/ j = 0
    BY <1>1, KeptSame DEF ConnectStates, Refused
  <1>2. CASE ~ (from = to \/ i = 0 \/ j = 0)
    <2>1. StatesOf(d) \in Seq(State)
      BY DocumentIs DEF StatesOf
    <2>2. i \in DOMAIN StatesOf(d) /\ j \in DOMAIN StatesOf(d) /\ StatesOf(d)[j].name = to
      BY <1>2, <2>1, IndexOfIs
    <2>3. StatesOf(d) = d.states
      <3>1. DOMAIN StatesOf(d) # {}
        BY <2>2
      <3>2. QED  BY <3>1 DEF StatesOf
    <2>4. ConnectStates(d, from, to) = EditState(d, i, "transition", to)
      BY <1>2 DEF ConnectStates
    <2> HIDE DEF i, j
    <2>5. to \in NamesOf(d)
      BY <2>2, <2>3 DEF NamesOf
    <2>6. QED  BY <2>2, <2>3, <2>4, <2>5, EditKept DEF Types
  <1>3. QED  BY <1>1, <1>2

(* The advanced fields, which the user writes.                             *)
LEMMA FieldKept ==
  ASSUME NEW d \in Document, NEW i \in DOMAIN d.states, NEW field, field # "inline",
         NEW value, NEW asJson, NEW T, NEW U, T \subseteq U,
         \A inline \in {d.states[i].inline \cup {field}, d.states[i].inline \ {field}} :
           field \in InlineFields \/ inline = d.states[i].inline \ {field} =>
             LET s == [d.states[i] EXCEPT ![field] = value, !.inline = inline]
             IN /\ s \in State /\ s.name = d.states[i].name
                /\ StateSound(d, d.states[i], T) => StateSound(d, s, U)
  PROVE  Kept(d, SetStateField(d, i, field, value, asJson).source, T, U)
  <1>1. CASE SetStateField(d, i, field, value, asJson).source = d
    BY <1>1, KeptSame
  <1>2. CASE SetStateField(d, i, field, value, asJson).source # d
    <2> DEFINE inline == IF asJson /\ value \notin {None, << >>} /\ field \in InlineFields
                         THEN d.states[i].inline \cup {field} ELSE d.states[i].inline \ {field}
               s == [d.states[i] EXCEPT ![field] = value, !.inline = inline]
    <2>1. /\ inline \in {d.states[i].inline \cup {field}, d.states[i].inline \ {field}}
          /\ field \in InlineFields \/ inline = d.states[i].inline \ {field}
      OBVIOUS
    <2>2. SetStateField(d, i, field, value, asJson).source = [d EXCEPT !.states[i] = s]
      <3>1. [d EXCEPT !.states[i][field] = value, !.states[i].inline = inline] =
              [d EXCEPT !.states[i] = s]
        OBVIOUS
      <3>2. QED  BY <1>2, <3>1 DEF SetStateField, Refused, Patched
    <2> HIDE DEF inline
    <2>4. /\ s \in State /\ s.name = d.states[i].name
          /\ StateSound(d, d.states[i], T) => StateSound(d, s, U)
      BY <2>1
    <2> HIDE DEF s
    <2>3. QED  BY <2>2, <2>4, StateReplaced
  <1>3. QED  BY <1>1, <1>2

LEMMA ConditionsKept ==
  ASSUME NEW d \in Document, NEW i \in DOMAIN d.states, NEW b \in Seq(Branch), NEW asJson,
         NEW T, NEW U, T \subseteq U, \A k \in DOMAIN b : b[k].to \in U
  PROVE  Kept(d, SetStateField(d, i, "conditions", b, asJson).source, T, U)
  <1>1. ASSUME NEW inline \in {d.states[i].inline \cup {"conditions"},
                               d.states[i].inline \ {"conditions"}},
               NEW s, s = [d.states[i] EXCEPT !.conditions = b, !.inline = inline]
        PROVE  /\ s \in State /\ s.name = d.states[i].name
               /\ StateSound(d, d.states[i], T) => StateSound(d, s, U)
    <2>0. d.states[i] \in State
      BY DocumentIs
    <2>9. inline \in SUBSET InlineFields
      BY <1>1, <2>0 DEF State, InlineFields, BranchFields
    <2>1. /\ s.name = d.states[i].name /\ s.transition = d.states[i].transition
          /\ s.default = d.states[i].default /\ s.conditions = b
          /\ s.errors = d.states[i].errors /\ s.actions = d.states[i].actions
          /\ s.event = d.states[i].event /\ s.inline = inline
      BY <1>1, <2>0 DEF State
    <2>10. s \in State
      BY <1>1, <2>0, <2>9 DEF State
    <2>2. \A f : f # "conditions" => (Visible(d, s, f) <=> Visible(d, d.states[i], f))
      BY <2>1 DEF Visible
    <2>3. /\ \A c : SeesUses(d, s, c) <=> SeesUses(d, d.states[i], c)
          /\ RefNames(s) = RefNames(d.states[i]) /\ ErrorRefs(s) = ErrorRefs(d.states[i])
      BY <2>1, <2>2 DEF SeesUses, RefNames, ErrorRefs
    <2>4. StateSound(d, d.states[i], T) => StateSound(d, s, U)
      BY <2>1, <2>2, <2>3, WrittenSound
    <2>5. QED  BY <2>1, <2>4, <2>10
  <1>2. QED  BY <1>1, FieldKept

LEMMA ErrorsKept ==
  ASSUME NEW d \in Document, NEW i \in DOMAIN d.states, NEW b \in Seq(Branch), NEW asJson,
         NEW T, NEW U, T \subseteq U, \A k \in DOMAIN b : b[k].to \in U /\ b[k].label \in U
  PROVE  Kept(d, SetStateField(d, i, "errors", b, asJson).source, T, U)
  <1>1. ASSUME NEW inline \in {d.states[i].inline \cup {"errors"}, d.states[i].inline \ {"errors"}},
               NEW s, s = [d.states[i] EXCEPT !.errors = b, !.inline = inline]
        PROVE  /\ s \in State /\ s.name = d.states[i].name
               /\ StateSound(d, d.states[i], T) => StateSound(d, s, U)
    <2>0. d.states[i] \in State
      BY DocumentIs
    <2>9. inline \in SUBSET InlineFields
      BY <1>1, <2>0 DEF State, InlineFields, BranchFields
    <2>1. /\ s.name = d.states[i].name /\ s.transition = d.states[i].transition
          /\ s.default = d.states[i].default /\ s.conditions = d.states[i].conditions
          /\ s.errors = b /\ s.actions = d.states[i].actions
          /\ s.event = d.states[i].event /\ s.inline = inline
      BY <1>1, <2>0 DEF State
    <2>10. s \in State
      BY <1>1, <2>0, <2>9 DEF State
    <2>2. \A f : f # "errors" => (Visible(d, s, f) <=> Visible(d, d.states[i], f))
      BY <2>1 DEF Visible
    <2>3. /\ \A c : SeesUses(d, s, c) <=> SeesUses(d, d.states[i], c)
          /\ RefNames(s) = RefNames(d.states[i]) /\ ErrorRefs(s) \subseteq U
      BY <2>1, <2>2 DEF SeesUses, RefNames, ErrorRefs
    <2>4. StateSound(d, d.states[i], T) => StateSound(d, s, U)
      BY <2>1, <2>2, <2>3, WrittenSound
    <2>5. QED  BY <2>1, <2>4, <2>10
  <1>2. QED  BY <1>1, FieldKept

LEMMA DefaultKept ==
  ASSUME NEW d \in Document, NEW i \in DOMAIN d.states, NEW n \in Names \cup {None}, NEW asJson,
         NEW T, NEW U, T \subseteq U, n \in NamesOf(d) \cup U \cup {None}
  PROVE  Kept(d, SetStateField(d, i, "default", n, asJson).source, T, U)
  <1>1. ASSUME NEW inline \in {d.states[i].inline \cup {"default"},
                               d.states[i].inline \ {"default"}},
               NEW s, s = [d.states[i] EXCEPT !.default = n, !.inline = inline]
        PROVE  /\ s \in State /\ s.name = d.states[i].name
               /\ StateSound(d, d.states[i], T) => StateSound(d, s, U)
    <2>0. d.states[i] \in State
      BY DocumentIs
    <2>9. inline \in SUBSET InlineFields
      BY <1>1, <2>0 DEF State, InlineFields, BranchFields
    <2>1. /\ s.name = d.states[i].name /\ s.transition = d.states[i].transition
          /\ s.default = n /\ s.conditions = d.states[i].conditions
          /\ s.errors = d.states[i].errors /\ s.actions = d.states[i].actions
          /\ s.event = d.states[i].event /\ s.inline = inline
      BY <1>1, <2>0 DEF State
    <2>10. s \in State
      BY <1>1, <2>0, <2>9 DEF State
    <2>2. \A f : f # "default" => (Visible(d, s, f) <=> Visible(d, d.states[i], f))
      BY <2>1 DEF Visible
    <2>3. /\ \A c : SeesUses(d, s, c) <=> SeesUses(d, d.states[i], c)
          /\ RefNames(s) = RefNames(d.states[i]) /\ ErrorRefs(s) = ErrorRefs(d.states[i])
      BY <2>1, <2>2 DEF SeesUses, RefNames, ErrorRefs
    <2>4. StateSound(d, d.states[i], T) => StateSound(d, s, U)
      BY <2>1, <2>2, <2>3, WrittenSound
    <2>5. QED  BY <2>1, <2>4, <2>10
  <1>2. QED  BY <1>1, FieldKept

LEMMA ActionsKept ==
  ASSUME NEW d \in Document, NEW i \in DOMAIN d.states, NEW a \in Seq(Call), NEW asJson,
         NEW T, NEW U, T \subseteq U, \A k \in DOMAIN a : a[k].ref \in U
  PROVE  Kept(d, SetStateField(d, i, "actions", a, asJson).source, T, U)
  <1>1. ASSUME NEW inline \in {d.states[i].inline \cup {"actions"},
                               d.states[i].inline \ {"actions"}},
               NEW s, s = [d.states[i] EXCEPT !.actions = a, !.inline = inline]
        PROVE  /\ s \in State /\ s.name = d.states[i].name
               /\ StateSound(d, d.states[i], T) => StateSound(d, s, U)
    <2>0. d.states[i] \in State
      BY DocumentIs
    <2>9. inline \in SUBSET InlineFields
      BY <1>1, <2>0 DEF State, InlineFields, BranchFields
    <2>1. /\ s.name = d.states[i].name /\ s.transition = d.states[i].transition
          /\ s.default = d.states[i].default /\ s.conditions = d.states[i].conditions
          /\ s.errors = d.states[i].errors /\ s.actions = a
          /\ s.event = d.states[i].event /\ s.inline = inline
      BY <1>1, <2>0 DEF State
    <2>10. s \in State
      BY <1>1, <2>0, <2>9 DEF State
    <2>2. \A f : f # "actions" => (Visible(d, s, f) <=> Visible(d, d.states[i], f))
      BY <2>1 DEF Visible
    <2>3. RefNames(s) \subseteq U /\ ErrorRefs(s) = ErrorRefs(d.states[i])
      BY <2>1 DEF RefNames, ErrorRefs
    <2>4. StateSound(d, d.states[i], T) => StateSound(d, s, U)
      BY <2>1, <2>2, <2>3, WrittenSound
    <2>5. QED  BY <2>1, <2>4, <2>10
  <1>2. QED  BY <1>1, FieldKept

LEMMA EventKept ==
  ASSUME NEW d \in Document, NEW i \in DOMAIN d.states, NEW e \in DefNames \cup {None},
         NEW asJson, NEW T, NEW U, T \subseteq U, e \in U \cup {None}
  PROVE  Kept(d, SetStateField(d, i, "event", e, asJson).source, T, U)
  <1>1. ASSUME NEW inline, inline = d.states[i].inline \ {"event"},
               NEW s, s = [d.states[i] EXCEPT !.event = e, !.inline = inline]
        PROVE  /\ s \in State /\ s.name = d.states[i].name
               /\ StateSound(d, d.states[i], T) => StateSound(d, s, U)
    <2>0. d.states[i] \in State
      BY DocumentIs
    <2>9. inline \in SUBSET InlineFields
      BY <1>1, <2>0 DEF State, InlineFields, BranchFields
    <2>1. /\ s.name = d.states[i].name /\ s.transition = d.states[i].transition
          /\ s.default = d.states[i].default /\ s.conditions = d.states[i].conditions
          /\ s.errors = d.states[i].errors /\ s.actions = d.states[i].actions
          /\ s.event = e /\ s.inline = inline
      BY <1>1, <2>0 DEF State
    <2>10. s \in State
      BY <1>1, <2>0, <2>9 DEF State
    <2>2. \A f : f # "event" => (Visible(d, s, f) <=> Visible(d, d.states[i], f))
      BY <1>1, <2>1 DEF Visible
    <2>3. /\ \A c : SeesUses(d, s, c) <=> SeesUses(d, d.states[i], c)
          /\ RefNames(s) = RefNames(d.states[i]) /\ ErrorRefs(s) = ErrorRefs(d.states[i])
      BY <2>1, <2>2 DEF SeesUses, RefNames, ErrorRefs
    <2>4. StateSound(d, d.states[i], T) => StateSound(d, s, U)
      BY <2>1, <2>2, <2>3, WrittenSound
    <2>5. QED  BY <2>1, <2>4, <2>10
  <1>2. "event" \notin InlineFields
    BY DEF InlineFields, BranchFields
  <1>3. QED  BY <1>1, <1>2, FieldKept

(* The text breaks or is mended.                                           *)
LEMMA ParsesKept ==
  ASSUME NEW d \in Document, NEW b \in BOOLEAN, NEW T, NEW U, T \subseteq U,
         NEW e, e = [d EXCEPT !.parses = b]
  PROVE  Kept(d, e, T, U)
  <1>1. /\ e \in Document /\ e.states = d.states /\ e.format = d.format
        /\ e.start = d.start /\ e.defs = d.defs /\ e.flow = d.flow /\ e.aliases = d.aliases
    BY DEF Document
  <1>2. /\ NamesOf(e) = NamesOf(d) /\ \A c : DefinedIn(e, c) = DefinedIn(d, c)
        /\ DanglingAliases(e) = DanglingAliases(d)
    BY <1>1, SameAliases DEF NamesOf, DefinedIn
  <1>3. \A s : VisibleTargets(e, s) = VisibleTargets(d, s)
               /\ \A c : SeesUses(e, s, c) <=> SeesUses(d, s, c)
    BY <1>1, SameSight
  <1>4. Sound(d, T) => Sound(e, U)
    <2>1. \A s : StateSound(d, s, T) => StateSound(e, s, U)
      BY <1>2, <1>3 DEF StateSound
    <2>2. QED  BY <1>1, <1>2, <2>1 DEF Sound
  <1>5. QED  BY <1>1, <1>4 DEF Kept, UniquelyNamed

LEMMA CallsKept ==
  ASSUME NEW d \in Document, NEW i \in DOMAIN d.states, NEW a \in Seq(Call), NEW e,
         e = [d EXCEPT !.states[i].actions = a], NEW T, NEW U, T \subseteq U,
         {a[k].ref : k \in {l \in DOMAIN a : a[l].key = "refName"}} \subseteq RefNames(d.states[i])
  PROVE  Kept(d, e, T, U)
  <1> DEFINE s == [d.states[i] EXCEPT !.actions = a]
  <1>1. d.states[i] \in State
    BY DocumentIs
  <1>2. /\ s.name = d.states[i].name /\ s.transition = d.states[i].transition
        /\ s.default = d.states[i].default /\ s.conditions = d.states[i].conditions
        /\ s.errors = d.states[i].errors /\ s.actions = a /\ s.event = d.states[i].event
        /\ s.inline = d.states[i].inline /\ s \in State
    BY <1>1 DEF State
  <1>3. e = [d EXCEPT !.states[i] = s]
    OBVIOUS
  <1> HIDE DEF s
  <1>4. \A f : Visible(d, s, f) <=> Visible(d, d.states[i], f)
    BY <1>2 DEF Visible
  <1>5. /\ \A c : SeesUses(d, s, c) <=> SeesUses(d, d.states[i], c)
        /\ RefNames(s) \subseteq RefNames(d.states[i]) /\ ErrorRefs(s) = ErrorRefs(d.states[i])
    BY <1>2, <1>4 DEF SeesUses, RefNames, ErrorRefs
  <1>6. StateSound(d, d.states[i], T) => StateSound(d, s, U)
    BY <1>2, <1>4, <1>5, WrittenSound
  <1>7. QED  BY <1>2, <1>3, <1>6, StateReplaced

LEMMA SubflowKept ==
  ASSUME NEW d \in Document, NEW i \in DOMAIN d.states, NEW nth, NEW target \in DefNames,
         NEW T, NEW U, T \subseteq U
  PROVE  Kept(d, PatchSubflow(d, i, nth, target).source, T, U)
  <1> DEFINE s == d.states[i]
             calls == SubflowCalls(d, s)
             chosen == {k \in calls : Cardinality({l \in calls : l < k}) = nth}
             changed == [k \in DOMAIN s.actions |->
                           IF k \in chosen THEN [s.actions[k] EXCEPT !.ref = target] ELSE s.actions[k]]
             added == Append(s.actions, [key |-> "subFlowRef", ref |-> target])
  <1>1. s \in State /\ s.actions \in Seq(Call)
    BY DocumentIs DEF State
  <1>2. /\ Len(s.actions) \in Nat /\ DOMAIN s.actions = 1 .. Len(s.actions)
        /\ \A k \in DOMAIN s.actions : s.actions[k] \in Call
    BY <1>1, LenProperties, ElementOfSeq
  <1>3. \A k \in chosen : k \in DOMAIN s.actions /\ s.actions[k].key = "subFlowRef"
    BY DEF SubflowCalls
  <1>4. \/ PatchSubflow(d, i, nth, target).source = d
        \/ PatchSubflow(d, i, nth, target).source = [d EXCEPT !.states[i].actions = changed]
        \/ PatchSubflow(d, i, nth, target).source = [d EXCEPT !.states[i].actions = added]
        \/ PatchSubflow(d, i, nth, target).source = [d EXCEPT !.parses = FALSE]
    BY DEF PatchSubflow, Refused, Patched
  <1> HIDE DEF chosen
  <1>5. Kept(d, [d EXCEPT !.states[i].actions = changed], T, U)
    <2>1. /\ \A k \in DOMAIN s.actions : changed[k] \in Call
          /\ \A k \in DOMAIN s.actions :
               changed[k].key = s.actions[k].key
               /\ (changed[k].key = "refName" => changed[k].ref = s.actions[k].ref)
      BY <1>2, <1>3 DEF Call
    <2>2. changed \in [1 .. Len(s.actions) -> Call]
      BY <1>2, <2>1
    <2>3. DOMAIN changed = DOMAIN s.actions
      OBVIOUS
    <2> HIDE DEF changed
    <2>4. changed \in Seq(Call)
      BY <1>2, <2>2, MakeSeq
    <2>5. {changed[k].ref : k \in {l \in DOMAIN changed : changed[l].key = "refName"}}
            \subseteq RefNames(s)
      BY <2>1, <2>3 DEF RefNames
    <2>6. QED  BY <2>4, <2>5, CallsKept
  <1>6. Kept(d, [d EXCEPT !.states[i].actions = added], T, U)
    <2>1. added \in Seq(Call) /\ Adds(added, s.actions, [key |-> "subFlowRef", ref |-> target])
      <3>1. [key |-> "subFlowRef", ref |-> target] \in Call
        BY DEF Call
      <3>2. QED  BY <1>1, <3>1, AppendSeq
    <2> HIDE DEF added
    <2>2. {added[k].ref : k \in {l \in DOMAIN added : added[l].key = "refName"}} \subseteq RefNames(s)
      BY <2>1 DEF RefNames, Adds
    <2>3. QED  BY <2>1, <2>2, CallsKept
  <1>7. Kept(d, [d EXCEPT !.parses = FALSE], T, U)
    BY ParsesKept
  <1>8. QED  BY <1>4, <1>5, <1>6, <1>7, KeptSame

-----------------------------------------------------------------------------
(* Redirecting what names one state to another.                            *)
Redirect(x, old, new) == IF x = old THEN new ELSE x

BranchesTo(b, old, new) == [k \in DOMAIN b |-> [b[k] EXCEPT !.to = Redirect(@, old, new)]]

LEMMA BranchesToIs ==
  ASSUME NEW b \in Seq(Branch), NEW old, NEW new \in Names, NEW c, c = BranchesTo(b, old, new)
  PROVE  /\ c \in Seq(Branch) /\ DOMAIN c = DOMAIN b
         /\ \A k \in DOMAIN b : c[k].to = Redirect(b[k].to, old, new) /\ c[k].label = b[k].label
  <1>1. /\ Len(b) \in Nat /\ DOMAIN b = 1 .. Len(b)
        /\ \A k \in DOMAIN b : b[k] \in Branch
    BY LenProperties, ElementOfSeq
  <1>2. \A k \in DOMAIN b : /\ c[k] \in Branch /\ c[k].to = Redirect(b[k].to, old, new)
                            /\ c[k].label = b[k].label
    BY <1>1 DEF Branch, Redirect, BranchesTo
  <1>3. c \in [1 .. Len(b) -> Branch]
    BY <1>1, <1>2 DEF BranchesTo
  <1>4. QED  BY <1>1, <1>2, <1>3, MakeSeq DEF BranchesTo

(* A state after its visible targets were redirected.                      *)
StateTo(d, s, old, new) ==
  LET Branches(f) == IF Visible(d, s, f) THEN BranchesTo(s[f], old, new) ELSE s[f]
  IN [s EXCEPT !.transition = Redirect(@, old, new),
               !.default = IF Visible(d, s, "default") THEN Redirect(@, old, new) ELSE @,
               !.conditions = Branches("conditions"),
               !.errors = Branches("errors")]

(* It shows what it showed, and leads where the redirection says.          *)
Alike(d, s, t, old, new) ==
  /\ t.name = s.name
  /\ \A x \in VisibleTargets(d, t) : \E y \in VisibleTargets(d, s) : x = Redirect(y, old, new)
  /\ \A c : Uses(t, c) = Uses(s, c) /\ (SeesUses(d, t, c) <=> SeesUses(d, s, c))

LEMMA StateToIs ==
  ASSUME NEW d, NEW s \in State, NEW old, old # None, NEW new \in Names, NEW t, t = StateTo(d, s, old, new)
  PROVE  t \in State /\ Alike(d, s, t, old, new)
  <1> DEFINE Written(f) == IF Visible(d, s, f) THEN BranchesTo(s[f], old, new) ELSE s[f]
  <1>1. /\ s.conditions \in Seq(Branch) /\ s.errors \in Seq(Branch)
        /\ s.transition \in Names \cup {None} /\ s.default \in Names \cup {None}
    BY DEF State
  <1>2. /\ t.name = s.name /\ t.type = s.type /\ t.end = s.end /\ t.actions = s.actions
        /\ t.event = s.event /\ t.inline = s.inline
        /\ t.transition = Redirect(s.transition, old, new)
        /\ t.default = IF Visible(d, s, "default") THEN Redirect(s.default, old, new) ELSE s.default
        /\ t.conditions = Written("conditions") /\ t.errors = Written("errors")
    BY DEF StateTo, State
  <1>3. \A f : Visible(d, t, f) <=> Visible(d, s, f)
    BY <1>2 DEF Visible
  <1>4. /\ t.conditions \in Seq(Branch) /\ DOMAIN t.conditions = DOMAIN s.conditions
        /\ Visible(d, s, "conditions") =>
             \A k \in DOMAIN s.conditions : t.conditions[k].to = Redirect(s.conditions[k].to, old, new)
    <2>1. CASE Visible(d, s, "conditions")
      <3>1. t.conditions = BranchesTo(s.conditions, old, new)
        BY <1>2, <2>1
      <3>2. QED  BY <1>1, <2>1, <3>1, BranchesToIs
    <2>2. CASE ~ Visible(d, s, "conditions")
      BY <1>1, <1>2, <2>2
    <2>3. QED  BY <2>1, <2>2
  <1>5. /\ t.errors \in Seq(Branch) /\ DOMAIN t.errors = DOMAIN s.errors
        /\ Visible(d, s, "errors") =>
             \A k \in DOMAIN s.errors : t.errors[k].to = Redirect(s.errors[k].to, old, new)
        /\ \A k \in DOMAIN s.errors : t.errors[k].label = s.errors[k].label
    <2>1. CASE Visible(d, s, "errors")
      <3>1. t.errors = BranchesTo(s.errors, old, new)
        BY <1>2, <2>1
      <3>2. QED  BY <1>1, <2>1, <3>1, BranchesToIs
    <2>2. CASE ~ Visible(d, s, "errors")
      BY <1>1, <1>2, <2>2
    <2>3. QED  BY <2>1, <2>2
  <1> HIDE DEF Written
  <1>6. t \in State
    <2>1. t = [name |-> t.name, type |-> t.type, transition |-> t.transition, end |-> t.end,
               conditions |-> t.conditions, default |-> t.default, errors |-> t.errors,
               actions |-> t.actions, event |-> t.event, inline |-> t.inline]
      BY DEF StateTo, State
    <2>2. t.transition \in Names \cup {None} /\ t.default \in Names \cup {None}
      BY <1>1, <1>2 DEF Redirect
    <2>3. QED  BY <1>2, <1>4, <1>5, <2>1, <2>2 DEF State
  <1>7. ASSUME NEW x \in VisibleTargets(d, t)
        PROVE  \E y \in VisibleTargets(d, s) : x = Redirect(y, old, new)
    <2>1. x # None
      BY VisibleTargetIs
    <2>2. \A y : x = Redirect(y, old, new) => y # None
      BY <2>1 DEF Redirect
    <2>3. CASE x = t.transition
      BY <1>2, <2>2, <2>3, VisibleTargetIs
    <2>4. CASE Visible(d, t, "default") /\ x = t.default
      BY <1>2, <1>3, <2>2, <2>4, VisibleTargetIs
    <2>5. ASSUME Visible(d, t, "conditions"), NEW k \in DOMAIN t.conditions, x = t.conditions[k].to
          PROVE  \E y \in VisibleTargets(d, s) : x = Redirect(y, old, new)
      <3>1. Visible(d, s, "conditions") /\ k \in DOMAIN s.conditions
            /\ x = Redirect(s.conditions[k].to, old, new)
        BY <1>3, <1>4, <2>5
      <3>2. s.conditions[k].to \in VisibleTargets(d, s)
        BY <2>2, <3>1, VisibleTargetIs
      <3>3. QED  BY <3>1, <3>2
    <2>6. ASSUME Visible(d, t, "errors"), NEW k \in DOMAIN t.errors, x = t.errors[k].to
          PROVE  \E y \in VisibleTargets(d, s) : x = Redirect(y, old, new)
      <3>1. Visible(d, s, "errors") /\ k \in DOMAIN s.errors /\ x = Redirect(s.errors[k].to, old, new)
        BY <1>3, <1>5, <2>6
      <3>2. s.errors[k].to \in VisibleTargets(d, s)
        BY <2>2, <3>1, VisibleTargetIs
      <3>3. QED  BY <3>1, <3>2
    <2>7. QED  BY <2>3, <2>4, <2>5, <2>6, VisibleTargetIs
  <1>8. \A c : Uses(t, c) = Uses(s, c) /\ (SeesUses(d, t, c) <=> SeesUses(d, s, c))
    <2>1. RefNames(t) = RefNames(s) /\ ErrorRefs(t) = ErrorRefs(s)
      BY <1>2, <1>5 DEF RefNames, ErrorRefs
    <2>2. QED  BY <1>2, <1>3, <2>1 DEF Uses, SeesUses
  <1>9. QED  BY <1>2, <1>6, <1>7, <1>8 DEF Alike

LEMMA RedirectedIs ==
  ASSUME NEW d \in Document, NEW old \in Names, NEW new \in Names, NEW I, NEW e,
         e = Redirected(d, old, new, I)
  PROVE  /\ e \in Document /\ e.format = d.format /\ e.parses = d.parses
         /\ e.defs = d.defs /\ e.flow = d.flow /\ e.aliases = d.aliases
         /\ e.start = Redirect(d.start, old, new)
         /\ DOMAIN e.states = DOMAIN d.states /\ Len(e.states) = Len(d.states)
         /\ \A i \in DOMAIN d.states :
              e.states[i] = IF i \in I THEN StateTo(d, d.states[i], old, new) ELSE d.states[i]
  <1> DEFINE states == [i \in DOMAIN d.states |->
                          IF i \in I THEN StateTo(d, d.states[i], old, new) ELSE d.states[i]]
             start == Redirect(d.start, old, new)
  <1>1. e = [d EXCEPT !.start = start, !.states = states]
    BY DEF Redirected, StateTo, BranchesTo, Redirect
  <1>2. /\ Len(d.states) \in Nat /\ DOMAIN d.states = 1 .. Len(d.states)
        /\ \A i \in DOMAIN d.states : d.states[i] \in State
    BY DocumentIs
  <1>3. start \in Names \cup {None}
    BY DEF Redirect, Document
  <1>4. ASSUME NEW i \in DOMAIN d.states PROVE states[i] \in State
    <2>1. StateTo(d, d.states[i], old, new) \in State
      BY <1>2, StateToIs, NoneAssumption
    <2>2. QED  BY <1>2, <2>1
  <1>5. states \in [1 .. Len(d.states) -> State]
    BY <1>2, <1>4
  <1>6. DOMAIN states = DOMAIN d.states /\ \A i \in DOMAIN d.states :
              states[i] = IF i \in I THEN StateTo(d, d.states[i], old, new) ELSE d.states[i]
    OBVIOUS
  <1> HIDE DEF states, start
  <1>7. states \in Seq(State) /\ Len(states) = Len(d.states)
    BY <1>2, <1>5, MakeSeq
  <1>8. /\ e.format = d.format /\ e.parses = d.parses /\ e.defs = d.defs /\ e.flow = d.flow
        /\ e.aliases = d.aliases /\ e.start = start /\ e.states = states
        /\ e \in Document
    BY <1>1, <1>3, <1>7 DEF Document
  <1>9. QED  BY <1>6, <1>7, <1>8 DEF start

(* What is sound but for the states that lead to old.                      *)
SoundBut(d, T, old) ==
  /\ d.start \in NamesOf(d) \cup T \cup {None, old}
  /\ \A i \in DOMAIN d.states :
       /\ VisibleTargets(d, d.states[i]) \subseteq NamesOf(d) \cup T \cup {old}
       /\ \A c \in Collections :
            SeesUses(d, d.states[i], c) => Uses(d.states[i], c) \subseteq DefinedIn(d, c) \cup T
  /\ DanglingAliases(d) \subseteq T

LEMMA RedirectedSound ==
  ASSUME NEW d \in Document, NEW old \in Names, NEW new \in Names, NEW e,
         e = Redirected(d, old, new, DOMAIN d.states), new \in NamesOf(d), NEW T
  PROVE  /\ e \in Document
         /\ SoundBut(d, T, old) => Sound(e, T)
         /\ UniquelyNamed(d) => UniquelyNamed(e)
  <1> DEFINE Moves(s) == StateTo(d, s, old, new)
  <1>1. /\ e \in Document /\ e.format = d.format
        /\ e.defs = d.defs /\ e.flow = d.flow /\ e.aliases = d.aliases
        /\ e.start = Redirect(d.start, old, new) /\ DOMAIN e.states = DOMAIN d.states
        /\ \A i \in DOMAIN d.states : e.states[i] = Moves(d.states[i])
    BY RedirectedIs
  <1>2. /\ \A i \in DOMAIN d.states : d.states[i] \in State
        /\ old # None
    BY DocumentIs, NoneAssumption
  <1> HIDE DEF Moves
  <1>3. \A i \in DOMAIN d.states :
          /\ e.states[i].name = d.states[i].name
          /\ \A x \in VisibleTargets(d, e.states[i]) :
               \E y \in VisibleTargets(d, d.states[i]) : x = Redirect(y, old, new)
          /\ \A c : /\ Uses(e.states[i], c) = Uses(d.states[i], c)
                    /\ SeesUses(d, e.states[i], c) <=> SeesUses(d, d.states[i], c)
    <2>1. \A i \in DOMAIN d.states : Alike(d, d.states[i], e.states[i], old, new)
      BY <1>1, <1>2, StateToIs DEF Moves
    <2>2. QED  BY <2>1 DEF Alike
  <1>4. /\ NamesOf(e) = NamesOf(d) /\ \A c : DefinedIn(e, c) = DefinedIn(d, c)
        /\ DanglingAliases(e) = DanglingAliases(d)
    BY <1>1, <1>3, SameAliases DEF NamesOf, DefinedIn
  <1>5. ASSUME SoundBut(d, T, old), NEW i \in DOMAIN d.states PROVE StateSound(e, e.states[i], T)
    <2>1. VisibleTargets(e, e.states[i]) = VisibleTargets(d, e.states[i])
          /\ \A c : SeesUses(e, e.states[i], c) <=> SeesUses(d, e.states[i], c)
      BY <1>1, SameSight
    <2>2. VisibleTargets(d, d.states[i]) \subseteq NamesOf(d) \cup T \cup {old}
      BY <1>5 DEF SoundBut
    <2>3. VisibleTargets(d, e.states[i]) \subseteq NamesOf(d) \cup T
      BY <1>3, <2>2 DEF Redirect
    <2>4. \A c \in Collections :
            SeesUses(d, d.states[i], c) => Uses(d.states[i], c) \subseteq DefinedIn(d, c) \cup T
      BY <1>5 DEF SoundBut
    <2>5. QED  BY <1>3, <1>4, <2>1, <2>3, <2>4 DEF StateSound
  <1>6. ASSUME SoundBut(d, T, old) PROVE Sound(e, T)
    <2>1. e.start \in NamesOf(e) \cup T \cup {None}
      BY <1>1, <1>4, <1>6 DEF SoundBut, Redirect
    <2>2. DanglingAliases(e) \subseteq T
      BY <1>4, <1>6 DEF SoundBut
    <2>3. QED  BY <1>1, <1>5, <1>6, <2>1, <2>2 DEF Sound
  <1>7. UniquelyNamed(d) => UniquelyNamed(e)
    BY <1>1, <1>3, SameUnique DEF UniquelyNamed
  <1>8. QED  BY <1>1, <1>6, <1>7

LEMMA RenameKept ==
  ASSUME NEW d \in Document, NEW i \in DOMAIN d.states, NEW n \in Names, NEW T
  PROVE  Kept(d, RenameState(d, i, n).source, T, T)
  <1> DEFINE old == d.states[i].name
             s == [d.states[i] EXCEPT !.name = n]
             d1 == [d EXCEPT !.states[i] = s]
             e == Redirected(d1, old, n, DOMAIN d.states)
  <1>1. CASE Unreadable(d) \/ NameTaken(d.states, n, i)
    BY <1>1, KeptSame DEF RenameState, Refused
  <1>2. CASE ~ (Unreadable(d) \/ NameTaken(d.states, n, i))
    <2>1. RenameState(d, i, n).source = e
      BY <1>2 DEF RenameState, Patched
    <2>2. /\ d.states \in Seq(State) /\ DOMAIN d.states = 1 .. Len(d.states)
          /\ d.states[i] \in State /\ old \in Names
      BY DocumentIs DEF State
    <2>3. /\ s \in State /\ s.name = n /\ s.transition = d.states[i].transition
          /\ s.default = d.states[i].default /\ s.conditions = d.states[i].conditions
          /\ s.errors = d.states[i].errors /\ s.actions = d.states[i].actions
          /\ s.event = d.states[i].event /\ s.inline = d.states[i].inline
      BY <2>2 DEF State
    <2> HIDE DEF s
    <2>4. [d.states EXCEPT ![i] = s] \in Seq(State)
      BY <2>2, <2>3, ExceptSeq
    <2>5. /\ d1 \in Document /\ d1.format = d.format /\ d1.start = d.start
          /\ d1.defs = d.defs /\ d1.flow = d.flow /\ d1.aliases = d.aliases
          /\ DOMAIN d1.states = DOMAIN d.states /\ d1.states[i] = s
          /\ \A j \in DOMAIN d.states : j # i => d1.states[j] = d.states[j]
      BY <2>2, <2>4 DEF Document
    <2> HIDE DEF d1
    <2>6. n \in NamesOf(d1) /\ NamesOf(d) \subseteq NamesOf(d1) \cup {old}
      BY <2>3, <2>5 DEF NamesOf
    <2>7. \A c : DefinedIn(d1, c) = DefinedIn(d, c)
      BY <2>5 DEF DefinedIn
    <2>8. DanglingAliases(d1) = DanglingAliases(d)
      BY <2>5, SameAliases
    <2>9. ASSUME NEW j \in DOMAIN d.states
          PROVE  /\ VisibleTargets(d1, d1.states[j]) = VisibleTargets(d, d.states[j])
                 /\ \A c : /\ Uses(d1.states[j], c) = Uses(d.states[j], c)
                           /\ SeesUses(d1, d1.states[j], c) <=> SeesUses(d, d.states[j], c)
      <3>1. \A f : Visible(d1, s, f) <=> Visible(d, d.states[i], f)
        BY <2>3, <2>5 DEF Visible
      <3>2. \A x : x \in VisibleTargets(d1, s) <=> x \in VisibleTargets(d, d.states[i])
        BY <2>3, <3>1, VisibleTargetIs
      <3>3. \A c : /\ Uses(s, c) = Uses(d.states[i], c)
                   /\ SeesUses(d1, s, c) <=> SeesUses(d, d.states[i], c)
        BY <2>3, <2>5, <3>1 DEF Uses, RefNames, ErrorRefs, SeesUses
      <3>4. VisibleTargets(d1, s) = VisibleTargets(d, d.states[i])
        BY <3>2
      <3>5. VisibleTargets(d1, d.states[j]) = VisibleTargets(d, d.states[j])
            /\ \A c : SeesUses(d1, d.states[j], c) <=> SeesUses(d, d.states[j], c)
        BY <2>5, SameSight
      <3>6. CASE j = i
        BY <2>5, <3>3, <3>4, <3>6
      <3>7. CASE j # i
        BY <2>5, <3>5, <3>7
      <3>8. QED  BY <3>6, <3>7
    <2>10. Sound(d, T) => SoundBut(d1, T, old)
      BY <2>5, <2>6, <2>7, <2>8, <2>9 DEF Sound, StateSound, SoundBut
    <2>11. UniquelyNamed(d) => UniquelyNamed(d1)
      <3>1. ~ NameTaken(d.states, d1.states[i].name, i)
        BY <1>2, <2>3, <2>5
      <3>2. UniqueNames(d.states) => UniqueNames(d1.states)
        BY <2>5, <3>1, RenamedUnique
      <3>3. QED  BY <2>5, <3>2 DEF UniquelyNamed
    <2>12. e = Redirected(d1, old, n, DOMAIN d1.states)
      BY <2>5
    <2> HIDE DEF e, old
    <2>13. /\ e \in Document /\ (SoundBut(d1, T, old) => Sound(e, T))
           /\ UniquelyNamed(d1) => UniquelyNamed(e)
      BY <2>2, <2>5, <2>6, <2>12, RedirectedSound
    <2>14. QED  BY <2>1, <2>10, <2>11, <2>13 DEF Kept
  <1>3. QED  BY <1>1, <1>2

-----------------------------------------------------------------------------
(* The repairs.                                                            *)
LEMMA FoundIs ==
  ASSUME NEW d \in Document, NEW name, NEW i, i = IndexOf(StatesOf(d), name), i # 0
  PROVE  i \in DOMAIN d.states /\ d.states[i].name = name /\ StatesOf(d) = d.states
  <1>1. StatesOf(d) \in Seq(State)
    BY DocumentIs DEF StatesOf
  <1>2. i \in DOMAIN StatesOf(d) /\ StatesOf(d)[i].name = name
    BY <1>1, IndexOfIs
  <1>3. StatesOf(d) = d.states
    <2>1. DOMAIN StatesOf(d) # {}
      BY <1>2
    <2>2. QED  BY <2>1 DEF StatesOf
  <1>4. QED  BY <1>2, <1>3

LEMMA NumberedIs ==
  ASSUME NEW d \in Document, Len(d.states) <= MaxStates
  PROVE  Numbered(NamesOf(d)) \in Names /\ Numbered(NamesOf(d)) \notin NamesOf(d)
  <1> DEFINE f == [i \in DOMAIN d.states |-> d.states[i].name]
             n == Len(d.states)
  <1>1. n \in Nat /\ DOMAIN d.states = 1 .. n
    BY DocumentIs
  <1> HIDE DEF n
  <1>2. IsFiniteSet(1 .. n) /\ Cardinality(1 .. n) = n
    BY <1>1, FS_Interval
  <1>3. f \in Surjection(1 .. n, NamesOf(d))
    BY <1>1 DEF NamesOf, Surjection
  <1> HIDE DEF f
  <1>4. IsFiniteSet(NamesOf(d)) /\ Cardinality(NamesOf(d)) <= n
    BY <1>2, <1>3, FS_Surjection
  <1>5. \E x \in NumberedNames : x \notin NamesOf(d)
    <2> SUFFICES ASSUME NumberedNames \subseteq NamesOf(d) PROVE FALSE
      OBVIOUS
    <2>1. /\ IsFiniteSet(NumberedNames) /\ Cardinality(NumberedNames) \in Nat
          /\ Cardinality(NamesOf(d)) \in Nat
          /\ Cardinality(NumberedNames) <= Cardinality(NamesOf(d))
      BY <1>4, FS_Subset, FS_CardinalityType
    <2>2. Cardinality(NumberedNames) > MaxStates
      BY <2>1, NumbersAssumption
    <2>3. n <= MaxStates /\ MaxStates \in Nat
      BY SeedsAssumption DEF n
    <2>4. QED  BY <1>1, <1>4, <2>1, <2>2, <2>3
  <1>6. Numbered(NamesOf(d)) \in NumberedNames /\ Numbered(NamesOf(d)) \notin NamesOf(d)
    BY <1>5 DEF Numbered
  <1>7. QED  BY <1>6, InvocationAssumption

LEMMA DefaultFixKept ==
  ASSUME NEW d \in Document, NEW name, NEW T
  PROVE  Kept(d, MissingDefaultFix(d, name).source, T, T)
  <1> DEFINE i == IndexOf(StatesOf(d), name)
             target == d.states[CHOOSE t \in TerminalStates(d) : TRUE].name
  <1>1. CASE i = 0 \/ Cardinality(TerminalStates(d)) # 1 \/ target = name
    <2>1. MissingDefaultFix(d, name).source = d
      BY <1>1 DEF MissingDefaultFix, Refused
    <2>2. QED  BY <2>1, KeptSame
  <1>2. CASE ~ (i = 0 \/ Cardinality(TerminalStates(d)) # 1 \/ target = name)
    <2>1. MissingDefaultFix(d, name) = SetStateField(d, i, "default", target, TRUE)
      BY <1>2 DEF MissingDefaultFix
    <2>2. i \in DOMAIN d.states /\ StatesOf(d) = d.states
      BY <1>2, FoundIs
    <2>3. TerminalStates(d) # {}
      <3>1. Cardinality({}) = 0
        BY FS_EmptySet
      <3>2. QED  BY <1>2, <3>1
    <2>4. (CHOOSE t \in TerminalStates(d) : TRUE) \in DOMAIN d.states
      BY <2>2, <2>3 DEF TerminalStates
    <2>5. target \in NamesOf(d) /\ target \in Names
      <3>1. \A j \in DOMAIN d.states : d.states[j].name \in Names
        BY DocumentIs DEF State
      <3>2. QED  BY <2>4, <3>1 DEF NamesOf
    <2> HIDE DEF target, i
    <2>6. QED  BY <2>1, <2>2, <2>5, DefaultKept
  <1>3. QED  BY <1>1, <1>2

LEMMA DuplicateFixKept ==
  ASSUME NEW d \in Document, NEW name, NEW T, Len(d.states) <= MaxStates
  PROVE  Kept(d, DuplicateStateFix(d, name).source, T, T)
  <1> DEFINE states == StatesOf(d)
             first == IndexOf(states, name)
             later == {i \in DOMAIN states : i > first /\ states[i].name = name}
             second == CHOOSE i \in later : \A j \in later : i <= j
             n == Numbered(NamesOf(d))
             s == [d.states[second] EXCEPT !.name = n]
             e == [d EXCEPT !.states[second] = s]
  <1>1. CASE DuplicateStateFix(d, name).source = d
    BY <1>1, KeptSame
  <1>2. CASE DuplicateStateFix(d, name).source # d
    <2>1. later # {} /\ DuplicateStateFix(d, name).source = e
      BY <1>2 DEF DuplicateStateFix, RenamedOnly, Patched, Refused
    <2>2. states \in Seq(State) /\ Len(states) \in Nat /\ DOMAIN states = 1 .. Len(states)
      BY DocumentIs DEF StatesOf
    <2>3. states = d.states
      <3>1. states # << >>
        BY <2>1
      <3>2. QED  BY <3>1 DEF StatesOf
    <2>4. second \in later
      <3>1. later \subseteq Nat
        BY <2>2
      <3>2. \E i \in later : \A j \in later : i <= j
        <4> HIDE DEF later
        <4>1. QED  BY <2>1, <3>1, LeastNat
      <3> HIDE DEF later
      <3>3. QED  BY <3>2
    <2>5. second \in DOMAIN d.states /\ d.states[second].name = name /\ second > first
      BY <2>3, <2>4
    <2> HIDE DEF second, later
    <2>6. first \in DOMAIN d.states /\ d.states[first].name = name /\ first # second
      <3>1. first \in 0 .. Len(states)
        BY <2>2, IndexOfIs
      <3>2. first # 0
        BY <2>2, <2>3, <2>5, IndexOfIs
      <3>3. first \in DOMAIN states /\ states[first].name = name
        BY <2>2, <3>2, IndexOfIs
      <3>4. QED  BY <2>2, <2>3, <2>5, <3>1, <3>3
    <2> HIDE DEF first, states
    <2>7. n \in Names /\ n \notin NamesOf(d)
      BY NumberedIs
    <2>8. d.states[second] \in State
      BY <2>5, DocumentIs
    <2>9. /\ s \in State /\ s.name = n /\ s.transition = d.states[second].transition
          /\ s.default = d.states[second].default /\ s.conditions = d.states[second].conditions
          /\ s.errors = d.states[second].errors /\ s.actions = d.states[second].actions
          /\ s.event = d.states[second].event /\ s.inline = d.states[second].inline
      BY <2>7, <2>8 DEF State
    <2> HIDE DEF s, n
    <2>10. StateSound(d, d.states[second], T) => StateSound(d, s, T)
      <3>1. \A f : Visible(d, s, f) <=> Visible(d, d.states[second], f)
        BY <2>9 DEF Visible
      <3>2. /\ \A c : SeesUses(d, s, c) <=> SeesUses(d, d.states[second], c)
            /\ RefNames(s) = RefNames(d.states[second]) /\ ErrorRefs(s) = ErrorRefs(d.states[second])
        BY <2>9, <3>1 DEF SeesUses, RefNames, ErrorRefs
      <3>3. QED  BY <2>9, <3>1, <3>2, WrittenSound
    <2> DEFINE new == [d.states EXCEPT ![second] = s]
    <2>11. /\ new \in Seq(State) /\ DOMAIN new = DOMAIN d.states
           /\ \A j \in DOMAIN new : new[j] = IF j = second THEN s ELSE d.states[j]
      <3>1. /\ d.states \in Seq(State) /\ second \in 1 .. Len(d.states)
            /\ DOMAIN d.states = 1 .. Len(d.states)
        BY <2>5, DocumentIs
      <3>2. new \in Seq(State)
        BY <2>9, <3>1, ExceptSeq
      <3>3. QED  BY <3>1, <3>2
    <2>12. e = [d EXCEPT !.states = new]
      BY DEF Document
    <2> HIDE DEF new, e
    <2>13. \A j \in DOMAIN d.states : \E k \in DOMAIN new : new[k].name = d.states[j].name
      BY <2>5, <2>6, <2>11
    <2>14. Sound(d, T) => \A k \in DOMAIN new : StateSound(d, new[k], T)
      BY <2>5, <2>10, <2>11 DEF Sound
    <2>15. ~ UniquelyNamed(d)
      BY <2>5, <2>6 DEF UniquelyNamed, UniqueNames
    <2>16. QED  BY <2>1, <2>11, <2>12, <2>13, <2>14, <2>15, StatesKept
  <1>3. QED  BY <1>1, <1>2

LEMMA UnreachableFixKept ==
  ASSUME NEW d \in Document, NEW name, NEW T
  PROVE  Kept(d, UnreachableStateFix(d, name).source, T, T)
  <1> DEFINE i == IndexOf(StatesOf(d), name)
  <1>1. CASE UnreachableStateFix(d, name).source = d
    BY <1>1, KeptSame
  <1>2. CASE UnreachableStateFix(d, name).source # d
    <2>1. i # 0 /\ UnreachableStateFix(d, name) = DeleteState(d, i)
      BY <1>2 DEF UnreachableStateFix, Refused
    <2>2. i \in DOMAIN d.states
      BY <2>1, FoundIs
    <2>3. QED  BY <2>1, <2>2, DeleteKept
  <1>3. QED  BY <1>1, <1>2

LEMMA IntervalIs ==
  ASSUME NEW n \in Nat PROVE IsFiniteSet(1 .. n) /\ Cardinality(1 .. n) = n
  BY FS_Interval

LEMMA FirstIs ==
  ASSUME NEW S \in SUBSET Nat, S # {}
  PROVE  First(S) \in S /\ \A l \in S : First(S) <= l
  <1>1. \E k \in S : \A l \in S : k <= l
    BY LeastNat
  <1>2. QED  BY <1>1 DEF First

(* A repair cuts branches of the switch.                                   *)
LEMMA CutWithin ==
  ASSUME NEW d, NEW b \in Seq(Branch)
  PROVE  Repeated(d, b) \subseteq DOMAIN b /\ Shadowed(d, b) \subseteq DOMAIN b
  <1> DEFINE always == {k \in Seen(d, b) : OnItsLine(d, b[k]) = "true"}
             after == {k \in Seen(d, b) : First(always) < k}
  <1>1. DOMAIN b \subseteq Nat /\ Seen(d, b) \subseteq DOMAIN b
    BY LenProperties DEF Seen
  <1>2. Repeated(d, b) \subseteq DOMAIN b
    BY DEF Repeated, Below
  <1>3. Shadowed(d, b) = IF always = {} \/ after = {} THEN {}
                         ELSE IF d.format = "yaml" THEN {k \in DOMAIN b : First(after) <= k}
                         ELSE {First(after)}
    BY DEF Shadowed
  <1>4. after \subseteq DOMAIN b
    BY <1>1
  <1> HIDE DEF always, after
  <1>5. after # {} => First(after) \in DOMAIN b
    BY <1>1, <1>4, FirstIs
  <1>6. QED  BY <1>2, <1>3, <1>5

LEMMA WithoutSpanIs ==
  ASSUME NEW b \in Seq(Branch), NEW cut \in SUBSET (DOMAIN b)
  PROVE  /\ WithoutSpan(b, cut) \in Seq(Branch)
         /\ \A k \in DOMAIN WithoutSpan(b, cut) : \E l \in DOMAIN b : WithoutSpan(b, cut)[k] = b[l]
  <1> DEFINE n == Cardinality(cut)
             at == CHOOSE k \in cut : \A l \in cut : k <= l
             new == [k \in 1 .. Len(b) - n |-> IF k < at THEN b[k] ELSE b[k + n]]
  <1>1. /\ Len(b) \in Nat /\ DOMAIN b = 1 .. Len(b)
        /\ \A k \in DOMAIN b : b[k] \in Branch
    BY LenProperties, ElementOfSeq
  <1>2. n \in Nat /\ n <= Len(b)
    <2>1. IsFiniteSet(DOMAIN b) /\ Cardinality(DOMAIN b) = Len(b)
      BY <1>1, IntervalIs
    <2>2. QED  BY <2>1, FS_Subset, FS_CardinalityType
  <1>3. WithoutSpan(b, cut) = new
    BY DEF WithoutSpan
  <1> HIDE DEF n, at
  <1>4. \A k \in 1 .. Len(b) - n : /\ k \in DOMAIN b /\ k + n \in DOMAIN b
                                   /\ new[k] = b[k] \/ new[k] = b[k + n]
    BY <1>1, <1>2
  <1>5. new \in [1 .. Len(b) - n -> Branch] /\ DOMAIN new = 1 .. Len(b) - n
    BY <1>1, <1>4
  <1>6. Len(b) - n \in Nat
    BY <1>1, <1>2
  <1> HIDE DEF new
  <1>7. new \in Seq(Branch)
    BY <1>5, <1>6, MakeSeq
  <1>8. \A k \in DOMAIN new : \E l \in DOMAIN b : new[k] = b[l]
    BY <1>4, <1>5
  <1>9. QED  BY <1>3, <1>7, <1>8

LEMMA BranchFixKept ==
  ASSUME NEW d \in Document, NEW name, NEW duplicate, NEW T
  PROVE  Kept(d, BranchFix(d, name, duplicate).source, T, T)
  <1> DEFINE i == IndexOf(StatesOf(d), name)
             old == d.states[i].conditions
             cut == IF duplicate THEN Repeated(d, old) ELSE Shadowed(d, old)
             s == [d.states[i] EXCEPT !.conditions = WithoutSpan(old, cut)]
  <1>1. CASE BranchFix(d, name, duplicate).source = d
    BY <1>1, KeptSame
  <1>2. CASE BranchFix(d, name, duplicate).source # d
    <2>1. /\ i # 0 /\ Visible(d, d.states[i], "conditions")
          /\ BranchFix(d, name, duplicate).source = [d EXCEPT !.states[i] = s]
      BY <1>2 DEF BranchFix, Refused, Patched
    <2>2. i \in DOMAIN d.states
      BY <2>1, FoundIs
    <2> HIDE DEF i
    <2>3. d.states[i] \in State /\ old \in Seq(Branch)
      BY <2>2, DocumentIs DEF State
    <2>4. cut \in SUBSET (DOMAIN old)
      BY <2>3, CutWithin
    <2> DEFINE new == WithoutSpan(old, cut)
    <2>5. new \in Seq(Branch) /\ \A k \in DOMAIN new : \E l \in DOMAIN old : new[k] = old[l]
      BY <2>3, <2>4, WithoutSpanIs
    <2> HIDE DEF new, cut
    <2>6. /\ s.name = d.states[i].name /\ s.transition = d.states[i].transition
          /\ s.default = d.states[i].default /\ s.conditions = new
          /\ s.errors = d.states[i].errors /\ s.actions = d.states[i].actions
          /\ s.event = d.states[i].event /\ s.inline = d.states[i].inline /\ s \in State
      BY <2>3, <2>5 DEF State, new
    <2> HIDE DEF s
    <2>7. \A f : Visible(d, s, f) <=> Visible(d, d.states[i], f)
      BY <2>6 DEF Visible
    <2>8. /\ \A c : SeesUses(d, s, c) <=> SeesUses(d, d.states[i], c)
          /\ RefNames(s) = RefNames(d.states[i]) /\ ErrorRefs(s) = ErrorRefs(d.states[i])
      BY <2>6, <2>7 DEF SeesUses, RefNames, ErrorRefs
    <2>9. \A k \in DOMAIN s.conditions : \E l \in DOMAIN d.states[i].conditions :
            s.conditions[k].to = d.states[i].conditions[l].to
      BY <2>5, <2>6
    <2>10. StateSound(d, d.states[i], T) => StateSound(d, s, T)
      BY <2>1, <2>6, <2>7, <2>8, <2>9, WrittenSound
    <2>11. QED  BY <2>1, <2>2, <2>6, <2>10, StateReplaced
  <1>3. QED  BY <1>1, <1>2

LEMMA ReferenceFixKept ==
  ASSUME NEW d \in Document, NEW missing \in Names, NEW T
  PROVE  Kept(d, BrokenReferenceFix(d, missing).source, T, T)
  <1> DEFINE states == StatesOf(d)
             candidates == {i \in DOMAIN states : NormalName[states[i].name] = NormalName[missing]}
             k == CHOOSE i \in candidates : TRUE
             replacement == states[k].name
  <1>1. CASE BrokenReferenceFix(d, missing).source = d
    BY <1>1, KeptSame
  <1>2. CASE BrokenReferenceFix(d, missing).source # d
    <2>1. /\ Cardinality(candidates) = 1
          /\ BrokenReferenceFix(d, missing).source =
               Redirected(d, missing, replacement, DOMAIN d.states)
      BY <1>2 DEF BrokenReferenceFix, Retargeted, Refused, Patched
    <2>2. k \in candidates
      <3>1. Cardinality({}) = 0
        BY FS_EmptySet
      <3> HIDE DEF candidates
      <3>2. candidates # {}
        BY <2>1, <3>1
      <3>3. QED  BY <3>2
    <2>3. states = d.states
      <3>1. states # << >>
        BY <2>2
      <3>2. QED  BY <3>1 DEF StatesOf
    <2>4. k \in DOMAIN d.states /\ replacement = d.states[k].name
      BY <2>2, <2>3
    <2> HIDE DEF k, replacement
    <2>5. replacement \in NamesOf(d) /\ replacement \in Names
      <3>1. d.states[k] \in State
        BY <2>4, DocumentIs
      <3>2. QED  BY <2>4, <3>1 DEF State, NamesOf
    <2>6. Sound(d, T) => SoundBut(d, T, missing)
      BY DEF Sound, StateSound, SoundBut
    <2> DEFINE e == BrokenReferenceFix(d, missing).source
    <2> HIDE DEF e
    <2>7. /\ e \in Document /\ (SoundBut(d, T, missing) => Sound(e, T))
          /\ UniquelyNamed(d) => UniquelyNamed(e)
      BY <2>1, <2>5, RedirectedSound DEF e
    <2>8. QED  BY <2>6, <2>7 DEF Kept, e
  <1>3. QED  BY <1>1, <1>2

-----------------------------------------------------------------------------
(* The definitions of a collection change: what the states use stays.      *)
DefsChange(d, e, c, defs) ==
  /\ e \in Document /\ e.format = d.format /\ e.flow = d.flow
  /\ e.start = d.start /\ e.states = d.states /\ e.aliases = d.aliases
  /\ e.defs[c] = defs /\ \A b \in Collections : b # c => e.defs[b] = d.defs[b]
  /\ NamesOf(e) = NamesOf(d)
  /\ DefinedIn(e, c) = {defs[i].name : i \in DOMAIN defs}
  /\ \A b \in Collections : b # c => DefinedIn(e, b) = DefinedIn(d, b)

LEMMA DefsReplaced ==
  ASSUME NEW d \in Document, NEW c \in Collections, NEW defs \in Seq(Definition), NEW e,
         e = [d EXCEPT !.defs[c] = defs]
  PROVE  DefsChange(d, e, c, defs)
  <1>1. /\ e \in Document /\ e.format = d.format /\ e.flow = d.flow
        /\ e.start = d.start /\ e.states = d.states /\ e.aliases = d.aliases
        /\ e.defs[c] = defs /\ \A b \in Collections : b # c => e.defs[b] = d.defs[b]
    BY DEF Document
  <1>2. QED  BY <1>1 DEF NamesOf, DefinedIn, DefsChange

AliasesOf(defs) == {defs[i].alias : i \in DOMAIN defs} \ {None}

LEMMA AliasUsesIs ==
  ASSUME NEW d
  PROVE  AliasUses(d) = IF d.format = "yaml" /\ "functions" \in d.flow THEN {}
                        ELSE AliasesOf(d.defs["functions"])
  BY DEF AliasUses, AliasesOf, SeenDefs

LEMMA DefsKept ==
  ASSUME NEW d \in Document, NEW c \in Collections, NEW defs \in Seq(Definition), NEW e,
         DefsChange(d, e, c, defs), NEW T,
         DefinitionReferences(d, c) \cap DefinedIn(d, c) \subseteq {defs[i].name : i \in DOMAIN defs},
         c = "functions" =>
           \A a \in AliasesOf(defs) : a \in AliasesOf(d.defs[c]) \/ d.aliases[a] # None,
         UniquelyNamed(d) => UniqueNames(defs)
  PROVE  Kept(d, e, T, T)
  <1>1. /\ e \in Document /\ e.format = d.format /\ e.flow = d.flow
        /\ e.start = d.start /\ e.states = d.states /\ e.aliases = d.aliases
        /\ e.defs[c] = defs /\ \A b \in Collections : b # c => e.defs[b] = d.defs[b]
        /\ NamesOf(e) = NamesOf(d)
        /\ DefinedIn(e, c) = {defs[i].name : i \in DOMAIN defs}
        /\ \A b \in Collections : b # c => DefinedIn(e, b) = DefinedIn(d, b)
    BY DEF DefsChange
  <1>2. ASSUME Sound(d, T), NEW i \in DOMAIN d.states PROVE StateSound(e, d.states[i], T)
    <2>1. StateSound(d, d.states[i], T)
      BY <1>2 DEF Sound
    <2>2. VisibleTargets(e, d.states[i]) = VisibleTargets(d, d.states[i])
          /\ \A b : SeesUses(e, d.states[i], b) <=> SeesUses(d, d.states[i], b)
      BY <1>1, SameSight
    <2>3. SeesUses(d, d.states[i], c) => Uses(d.states[i], c) \subseteq DefinitionReferences(d, c)
      BY DEF DefinitionReferences
    <2>4. ASSUME NEW b \in Collections, SeesUses(d, d.states[i], b)
          PROVE  Uses(d.states[i], b) \subseteq DefinedIn(e, b) \cup T
      <3>1. Uses(d.states[i], b) \subseteq DefinedIn(d, b) \cup T
        BY <2>1, <2>4 DEF StateSound
      <3>2. CASE b = c
        BY <1>1, <2>3, <2>4, <3>1, <3>2
      <3>3. CASE b # c
        BY <1>1, <3>1, <3>3
      <3>4. QED  BY <3>2, <3>3
    <2>5. QED  BY <1>1, <2>1, <2>2, <2>4 DEF StateSound
  <1>3. DanglingAliases(e) \subseteq DanglingAliases(d)
    <2>1. CASE c = "functions"
      <3>1. AliasUses(e) \subseteq AliasUses(d) \cup {a \in AliasesOf(defs) : d.aliases[a] # None}
        BY <1>1, <2>1, AliasUsesIs
      <3>2. QED  BY <1>1, <3>1 DEF DanglingAliases
    <2>2. CASE c # "functions"
      BY <1>1, <2>2, AliasUsesIs DEF DanglingAliases, Collections
    <2>3. QED  BY <2>1, <2>2
  <1>4. Sound(d, T) => Sound(e, T)
    BY <1>1, <1>2, <1>3 DEF Sound
  <1>5. UniquelyNamed(d) => UniquelyNamed(e)
    BY <1>1 DEF UniquelyNamed
  <1>6. QED  BY <1>1, <1>4, <1>5 DEF Kept

(* One definition more, with no alias or one that was there.               *)
LEMMA DefsMore ==
  ASSUME NEW d \in Document, NEW c \in Collections, NEW defs \in Seq(Definition), NEW e,
         e = [d EXCEPT !.defs[c] = defs], NEW x \in Definition, NEW T,
         Adds(defs, d.defs[c], x), \A i \in DOMAIN d.defs[c] : d.defs[c][i].name # x.name,
         x.alias = None \/ \E i \in DOMAIN d.defs[c] : d.defs[c][i].alias = x.alias
  PROVE  Kept(d, e, T, T)
  <1>1. DefinedIn(d, c) \subseteq {defs[i].name : i \in DOMAIN defs}
    BY DEF Adds, DefinedIn
  <1>2. \A i \in DOMAIN defs : \/ defs[i].alias = None
                               \/ \E j \in DOMAIN d.defs[c] : defs[i].alias = d.defs[c][j].alias
    BY DEF Adds
  <1>3. AliasesOf(defs) \subseteq AliasesOf(d.defs[c])
    BY <1>2 DEF AliasesOf
  <1>4. UniquelyNamed(d) => UniqueNames(defs)
    BY DEF Adds, UniquelyNamed
  <1>5. DefsChange(d, e, c, defs)
    BY DefsReplaced
  <1>6. QED  BY <1>1, <1>3, <1>4, <1>5, DefsKept

LEMMA CreateDefinitionKept ==
  ASSUME NEW d \in Document, NEW c \in Collections, NEW n \in DefNames, NEW T
  PROVE  Kept(d, CreateDefinition(d, c, n).source, T, T)
  <1> DEFINE x == [name |-> n, alias |-> None]
             flow == d.format = "yaml" /\ c \in d.flow
  <1>1. CASE Unreadable(d) \/ NameTaken(SeenDefs(d, c), n, 0)
    BY <1>1, KeptSame DEF CreateDefinition, Refused
  <1>2. CASE ~ (Unreadable(d) \/ NameTaken(SeenDefs(d, c), n, 0)) /\ flow
    <2>1. CreateDefinition(d, c, n).source = [d EXCEPT !.parses = FALSE]
      BY <1>2 DEF CreateDefinition, Patched
    <2>2. QED  BY <2>1, ParsesKept
  <1>3. CASE ~ (Unreadable(d) \/ NameTaken(SeenDefs(d, c), n, 0)) /\ ~ flow
    <2>1. /\ CreateDefinition(d, c, n).source = [d EXCEPT !.defs[c] = Append(d.defs[c], x)]
          /\ ~ NameTaken(d.defs[c], n, 0)
      BY <1>3 DEF CreateDefinition, Patched, SeenDefs
    <2>2. d.defs[c] \in Seq(Definition) /\ \A i \in DOMAIN d.defs[c] : i # 0
      BY DocumentIs
    <2>3. x \in Definition /\ x.name = n /\ x.alias = None
      BY DEF Definition
    <2> HIDE DEF x
    <2>4. Append(d.defs[c], x) \in Seq(Definition) /\ Adds(Append(d.defs[c], x), d.defs[c], x)
      BY <2>2, <2>3, AppendSeq
    <2>5. \A i \in DOMAIN d.defs[c] : d.defs[c][i].name # x.name
      BY <2>1, <2>2, <2>3 DEF NameTaken
    <2>6. QED  BY <2>1, <2>3, <2>4, <2>5, DefsMore
  <1>4. QED  BY <1>1, <1>2, <1>3

LEMMA DuplicateDefinitionKept ==
  ASSUME NEW d \in Document, NEW c \in Collections, NEW i \in DOMAIN d.defs[c],
         NEW n \in DefNames, n # d.defs[c][i].name, NEW T
  PROVE  Kept(d, DuplicateDefinition(d, c, i, n).source, T, T)
  <1> DEFINE x == [d.defs[c][i] EXCEPT !.name = n]
  <1>1. CASE DuplicateDefinition(d, c, i, n).source = d
    BY <1>1, KeptSame
  <1>2. CASE DuplicateDefinition(d, c, i, n).source # d
    <2>1. /\ ~ NameTaken(d.defs[c], n, i)
          /\ DuplicateDefinition(d, c, i, n).source =
               [d EXCEPT !.defs[c] = Inserted(d.defs[c], i + 1, x)]
      BY <1>2 DEF DuplicateDefinition, Refused, Patched, Document
    <2>2. /\ d.defs[c] \in Seq(Definition) /\ i + 1 \in 1 .. Len(d.defs[c]) + 1
          /\ d.defs[c][i] \in Definition
      BY DocumentIs
    <2>3. x \in Definition /\ x.name = n /\ x.alias = d.defs[c][i].alias
      BY <2>2 DEF Definition
    <2> HIDE DEF x
    <2> DEFINE defs == Inserted(d.defs[c], i + 1, x)
    <2>4. defs \in Seq(Definition) /\ Adds(defs, d.defs[c], x)
      BY <2>2, <2>3, InsertedSeq
    <2>5. \A j \in DOMAIN d.defs[c] : d.defs[c][j].name # x.name
      BY <2>1, <2>3 DEF NameTaken
    <2> HIDE DEF defs
    <2>6. DuplicateDefinition(d, c, i, n).source = [d EXCEPT !.defs[c] = defs]
      BY <2>1 DEF defs
    <2>7. QED  BY <2>3, <2>4, <2>5, <2>6, DefsMore
  <1>3. QED  BY <1>1, <1>2

LEMMA DeleteDefinitionKept ==
  ASSUME NEW d \in Document, NEW c \in Collections, NEW i \in DOMAIN d.defs[c], NEW T
  PROVE  Kept(d, DeleteDefinition(d, c, i).source, T, T)
  <1> DEFINE defs == Removed(d.defs[c], i)
  <1>1. CASE DeleteDefinition(d, c, i).source = d
    BY <1>1, KeptSame
  <1>2. CASE DeleteDefinition(d, c, i).source # d
    <2>1. /\ \A x \in DefinitionReferences(d, c) : d.defs[c][i].name \notin Words[x]
          /\ DeleteDefinition(d, c, i).source = [d EXCEPT !.defs[c] = defs]
      BY <1>2 DEF DeleteDefinition, Refused, Patched
    <2>2. d.defs[c] \in Seq(Definition) /\ i \in 1 .. Len(d.defs[c])
      BY DocumentIs
    <2>3. defs \in Seq(Definition) /\ Drops(defs, d.defs[c], i)
      BY <2>2, RemovedSeq
    <2> HIDE DEF defs
    <2>4. ASSUME NEW x \in DefinitionReferences(d, c) \cap DefinedIn(d, c)
          PROVE  x \in {defs[j].name : j \in DOMAIN defs}
      <3>1. PICK k \in DOMAIN d.defs[c] : x = d.defs[c][k].name
        BY DEF DefinedIn
      <3>2. k # i
        <4>1. x \in Labels
          BY <3>1, DocumentIs DEF Definition, Labels
        <4>2. x \in Words[x]
          BY <4>1, WordsAssumption
        <4>3. QED  BY <2>1, <3>1, <4>2
      <3>3. \E j \in DOMAIN defs : defs[j] = d.defs[c][k]
        BY <2>3, <3>2 DEF Drops
      <3>4. QED  BY <3>1, <3>3
    <2>5. AliasesOf(defs) \subseteq AliasesOf(d.defs[c])
      BY <2>3 DEF Drops, AliasesOf
    <2>6. UniquelyNamed(d) => UniqueNames(defs)
      BY <2>3 DEF Drops, UniquelyNamed
    <2>7. DefsChange(d, DeleteDefinition(d, c, i).source, c, defs)
      BY <2>1, <2>3, DefsReplaced
    <2>8. QED  BY <2>3, <2>4, <2>5, <2>6, <2>7, DefsKept
  <1>3. QED  BY <1>1, <1>2

LEMMA MoveDefinitionKept ==
  ASSUME NEW d \in Document, NEW c \in Collections, NEW i \in DOMAIN d.defs[c], NEW direction, NEW T
  PROVE  Kept(d, MoveDefinition(d, c, i, direction).source, T, T)
  <1> DEFINE defs == Moved(d.defs[c], i, direction)
  <1>1. CASE MoveDefinition(d, c, i, direction).source = d
    BY <1>1, KeptSame
  <1>2. CASE MoveDefinition(d, c, i, direction).source # d
    <2>1. MoveDefinition(d, c, i, direction).source = [d EXCEPT !.defs[c] = defs]
      BY <1>2 DEF MoveDefinition, Refused, Patched
    <2>2. d.defs[c] \in Seq(Definition)
      BY DocumentIs
    <2>3. /\ defs \in Seq(Definition) /\ DOMAIN defs = DOMAIN d.defs[c]
          /\ Swaps(defs, d.defs[c], i)
      BY <2>2, MovedSeq
    <2>4. UniquelyNamed(d) => UniqueNames(defs)
      BY <2>2, MovedUnique DEF UniquelyNamed
    <2> HIDE DEF defs
    <2>5. PICK j \in DOMAIN d.defs[c] : \A k \in DOMAIN d.defs[c] :
            defs[k] = IF k = j THEN d.defs[c][i] ELSE IF k = i THEN d.defs[c][j] ELSE d.defs[c][k]
      BY <2>3 DEF Swaps
    <2>6. /\ \A k \in DOMAIN d.defs[c] : \E l \in DOMAIN defs : defs[l] = d.defs[c][k]
          /\ \A k \in DOMAIN defs : \E l \in DOMAIN d.defs[c] : defs[k] = d.defs[c][l]
      BY <2>3, <2>5
    <2>7. DefinedIn(d, c) \subseteq {defs[k].name : k \in DOMAIN defs}
      BY <2>6 DEF DefinedIn
    <2>8. AliasesOf(defs) \subseteq AliasesOf(d.defs[c])
      BY <2>6 DEF AliasesOf
    <2>9. DefsChange(d, MoveDefinition(d, c, i, direction).source, c, defs)
      BY <2>1, <2>3, DefsReplaced
    <2>10. QED  BY <2>3, <2>4, <2>7, <2>8, <2>9, DefsKept
  <1>3. QED  BY <1>1, <1>2

LEMMA FunctionAliasKept ==
  ASSUME NEW d \in Document, NEW i, NEW a \in Aliases, d.aliases[a] # None, NEW T
  PROVE  Kept(d, SetFunctionAlias(d, i, a).source, T, T)
  <1> DEFINE c == "functions"
             x == [d.defs[c][i] EXCEPT !.alias = a]
             defs == [d.defs[c] EXCEPT ![i] = x]
  <1>1. CASE SetFunctionAlias(d, i, a).source = d
    BY <1>1, KeptSame
  <1>2. CASE SetFunctionAlias(d, i, a).source # d
    <2>1. /\ i \in DOMAIN d.defs[c]
          /\ SetFunctionAlias(d, i, a).source = [d EXCEPT !.defs[c] = defs]
      BY <1>2 DEF SetFunctionAlias, SeenDefs, Refused, Patched, Document
    <2>2. /\ d.defs[c] \in Seq(Definition) /\ DOMAIN d.defs[c] = 1 .. Len(d.defs[c])
          /\ d.defs[c][i] \in Definition
      BY <2>1, DocumentIs DEF Collections
    <2>3. x \in Definition /\ x.name = d.defs[c][i].name /\ x.alias = a
      BY <2>2 DEF Definition
    <2> HIDE DEF x
    <2>4. /\ defs \in Seq(Definition) /\ DOMAIN defs = DOMAIN d.defs[c]
          /\ \A k \in DOMAIN defs : defs[k] = IF k = i THEN x ELSE d.defs[c][k]
      <3>1. i \in 1 .. Len(d.defs[c])
        BY <2>1, <2>2
      <3>2. defs \in Seq(Definition)
        BY <2>2, <2>3, <3>1, ExceptSeq
      <3>3. QED  BY <2>1, <2>2, <3>2
    <2> HIDE DEF defs
    <2>5. \A k \in DOMAIN d.defs[c] : defs[k].name = d.defs[c][k].name
      BY <2>3, <2>4
    <2>6. DefinedIn(d, c) \subseteq {defs[k].name : k \in DOMAIN defs}
      BY <2>4, <2>5 DEF DefinedIn
    <2>7. \A b \in AliasesOf(defs) : b \in AliasesOf(d.defs[c]) \/ d.aliases[b] # None
      BY <2>3, <2>4 DEF AliasesOf
    <2>8. UniquelyNamed(d) => UniqueNames(defs)
      BY <2>4, <2>5, SameUnique DEF UniquelyNamed, Collections
    <2>9. c \in Collections
      BY DEF Collections
    <2>10. DefsChange(d, SetFunctionAlias(d, i, a).source, c, defs)
      BY <2>1, <2>4, <2>9, DefsReplaced
    <2>11. QED  BY <2>4, <2>6, <2>7, <2>8, <2>9, <2>10, DefsKept
  <1>3. QED  BY <1>1, <1>2

(* What a visible use becomes when the definition of a name is renamed.    *)
Renewed(d, old, new, x) ==
  IF x = None \/ UseAfter(d, old, new, x) = None THEN x ELSE UseAfter(d, old, new, x)

LEMMA RenewedIs ==
  ASSUME NEW d, NEW old \in DefNames, NEW new \in DefNames
  PROVE  /\ \A x \in Labels : Renewed(d, old, new, x) \in Labels
         /\ \A x \in DefNames : Renewed(d, old, new, x) \in DefNames
         /\ Renewed(d, old, new, None) = None
         /\ Renewed(d, old, new, old) = new
  <1>1. /\ new # None /\ old # None /\ \A x \in DefNames : x \in Labels
    BY NoneAssumption DEF Labels
  <1>2. /\ \A x \in Labels : WordSplice[<<old, new>>][x] \in Labels \cup {None}
        /\ \A x \in DefNames : WordSplice[<<old, new>>][x] \in DefNames \cup {None}
        /\ WordSplice[<<old, new>>][old] = new
    BY WordsAssumption
  <1>3. QED  BY <1>1, <1>2 DEF Renewed, UseAfter

(* A state after its visible uses of a definition were renamed.            *)
LabelsTo(d, b, old, new) ==
  [k \in DOMAIN b |-> [b[k] EXCEPT !.label = Renewed(d, old, new, @)]]

CallsTo(d, a, old, new) ==
  [k \in DOMAIN a |->
     IF a[k].key = "refName" THEN [a[k] EXCEPT !.ref = Renewed(d, old, new, @)] ELSE a[k]]

UsesTo(d, s, c, old, new) ==
  IF ~ SeesUses(d, s, c) THEN s
  ELSE IF c = "functions" THEN [s EXCEPT !.actions = CallsTo(d, s.actions, old, new)]
  ELSE IF c = "events" THEN [s EXCEPT !.event = Renewed(d, old, new, s.event)]
  ELSE [s EXCEPT !.errors = LabelsTo(d, s.errors, old, new)]

LEMMA LabelsToIs ==
  ASSUME NEW d, NEW b \in Seq(Branch), NEW old \in DefNames, NEW new \in DefNames, NEW c, c = LabelsTo(d, b, old, new)
  PROVE  /\ c \in Seq(Branch) /\ DOMAIN c = DOMAIN b
         /\ \A k \in DOMAIN b : c[k].label = Renewed(d, old, new, b[k].label) /\ c[k].to = b[k].to
  <1>1. /\ Len(b) \in Nat /\ DOMAIN b = 1 .. Len(b)
        /\ \A k \in DOMAIN b : b[k] \in Branch
    BY LenProperties, ElementOfSeq
  <1>2. \A k \in DOMAIN b : /\ c[k] \in Branch /\ c[k].label = Renewed(d, old, new, b[k].label)
                            /\ c[k].to = b[k].to
    BY <1>1, RenewedIs DEF Branch, LabelsTo
  <1>3. c \in [1 .. Len(b) -> Branch]
    BY <1>1, <1>2 DEF LabelsTo
  <1>4. QED  BY <1>1, <1>2, <1>3, MakeSeq DEF LabelsTo

LEMMA CallsToIs ==
  ASSUME NEW d, NEW a \in Seq(Call), NEW old \in DefNames, NEW new \in DefNames, NEW c, c = CallsTo(d, a, old, new)
  PROVE  /\ c \in Seq(Call) /\ DOMAIN c = DOMAIN a
         /\ \A k \in DOMAIN a : /\ c[k].key = a[k].key
                                /\ c[k].key = "refName" => c[k].ref = Renewed(d, old, new, a[k].ref)
  <1>1. /\ Len(a) \in Nat /\ DOMAIN a = 1 .. Len(a)
        /\ \A k \in DOMAIN a : a[k] \in Call
    BY LenProperties, ElementOfSeq
  <1>2. \A k \in DOMAIN a : /\ c[k] \in Call /\ c[k].key = a[k].key
                            /\ c[k].key = "refName" => c[k].ref = Renewed(d, old, new, a[k].ref)
    BY <1>1, RenewedIs DEF Call, CallsTo
  <1>3. c \in [1 .. Len(a) -> Call]
    BY <1>1, <1>2 DEF CallsTo
  <1>4. QED  BY <1>1, <1>2, <1>3, MakeSeq DEF CallsTo

UsesChange(d, s, t, c, old, new) ==
  /\ t \in State /\ t.name = s.name
  /\ VisibleTargets(d, t) = VisibleTargets(d, s)
  /\ \A b : SeesUses(d, t, b) <=> SeesUses(d, s, b)
  /\ \A b \in Collections : b # c => Uses(t, b) = Uses(s, b)
  /\ SeesUses(d, s, c) => \A x \in Uses(t, c) : \E y \in Uses(s, c) : x = Renewed(d, old, new, y)

LEMMA UsesToIs ==
  ASSUME NEW d, NEW s \in State, NEW c \in Collections, NEW old \in DefNames, NEW new \in DefNames,
         NEW t, t = UsesTo(d, s, c, old, new)
  PROVE  UsesChange(d, s, t, c, old, new)
  <1>0. /\ s.conditions \in Seq(Branch) /\ s.errors \in Seq(Branch) /\ s.actions \in Seq(Call)
        /\ old # None
    BY NoneAssumption DEF State, Labels
  <1>1. CASE ~ SeesUses(d, s, c)
    BY <1>1 DEF UsesTo, UsesChange
  <1>2. CASE SeesUses(d, s, c) /\ c = "functions"
    <2>1. t = [s EXCEPT !.actions = CallsTo(d, s.actions, old, new)]
      BY <1>2 DEF UsesTo
    <2> DEFINE a == CallsTo(d, s.actions, old, new)
    <2>2. /\ a \in Seq(Call) /\ DOMAIN a = DOMAIN s.actions
          /\ \A k \in DOMAIN a : /\ a[k].key = s.actions[k].key
                                 /\ a[k].key = "refName" => a[k].ref = Renewed(d, old, new, s.actions[k].ref)
      BY <1>0, CallsToIs
    <2> HIDE DEF a
    <2>3. /\ t \in State /\ t.name = s.name /\ t.transition = s.transition
          /\ t.default = s.default /\ t.conditions = s.conditions /\ t.errors = s.errors
          /\ t.actions = a /\ t.event = s.event /\ t.inline = s.inline
      BY <2>1, <2>2 DEF State, a
    <2>4. \A f : Visible(d, t, f) <=> Visible(d, s, f)
      BY <2>3 DEF Visible
    <2>5. \A x : x \in VisibleTargets(d, t) <=> x \in VisibleTargets(d, s)
      BY <2>3, <2>4, VisibleTargetIs
    <2>6. \A b : SeesUses(d, t, b) <=> SeesUses(d, s, b)
      BY <2>4 DEF SeesUses
    <2>7. \A b \in Collections : b # c => Uses(t, b) = Uses(s, b)
      BY <1>2, <2>3 DEF Uses, ErrorRefs
    <2>8. \A x \in RefNames(t) : \E y \in RefNames(s) : x = Renewed(d, old, new, y)
      BY <2>2, <2>3 DEF RefNames
    <2>9. QED  BY <1>2, <2>3, <2>5, <2>6, <2>7, <2>8 DEF Uses, UsesChange
  <1>3. CASE SeesUses(d, s, c) /\ c = "events"
    <2>1. t = [s EXCEPT !.event = Renewed(d, old, new, s.event)]
      BY <1>3 DEF UsesTo
    <2>2. Renewed(d, old, new, s.event) \in DefNames \cup {None}
      BY RenewedIs DEF State
    <2>3. /\ t \in State /\ t.name = s.name /\ t.transition = s.transition
          /\ t.default = s.default /\ t.conditions = s.conditions /\ t.errors = s.errors
          /\ t.actions = s.actions /\ t.event = Renewed(d, old, new, s.event) /\ t.inline = s.inline
      BY <2>1, <2>2 DEF State
    <2>4. \A f : Visible(d, t, f) <=> Visible(d, s, f)
      BY <2>3 DEF Visible
    <2>5. \A x : x \in VisibleTargets(d, t) <=> x \in VisibleTargets(d, s)
      BY <2>3, <2>4, VisibleTargetIs
    <2>6. \A b : SeesUses(d, t, b) <=> SeesUses(d, s, b)
      BY <2>4 DEF SeesUses
    <2>7. \A b \in Collections : b # c => Uses(t, b) = Uses(s, b)
      <3>1. RefNames(t) = RefNames(s) /\ ErrorRefs(t) = ErrorRefs(s)
        BY <2>3 DEF RefNames, ErrorRefs
      <3>2. QED  BY <1>3, <3>1 DEF Uses
    <2>8. \A x \in {t.event} \ {None} : \E y \in {s.event} \ {None} : x = Renewed(d, old, new, y)
      BY <1>0, <2>3, RenewedIs
    <2>9. QED  BY <1>3, <2>3, <2>5, <2>6, <2>7, <2>8 DEF Uses, UsesChange
  <1>4. CASE SeesUses(d, s, c) /\ c = "errors"
    <2>1. t = [s EXCEPT !.errors = LabelsTo(d, s.errors, old, new)]
      BY <1>4 DEF UsesTo
    <2> DEFINE b == LabelsTo(d, s.errors, old, new)
    <2>2. /\ b \in Seq(Branch) /\ DOMAIN b = DOMAIN s.errors
          /\ \A k \in DOMAIN b : /\ b[k].label = Renewed(d, old, new, s.errors[k].label)
                                 /\ b[k].to = s.errors[k].to
      BY <1>0, LabelsToIs
    <2> HIDE DEF b
    <2>3. /\ t \in State /\ t.name = s.name /\ t.transition = s.transition
          /\ t.default = s.default /\ t.conditions = s.conditions /\ t.errors = b
          /\ t.actions = s.actions /\ t.event = s.event /\ t.inline = s.inline
      BY <2>1, <2>2 DEF State, b
    <2>4. \A f : Visible(d, t, f) <=> Visible(d, s, f)
      BY <2>3 DEF Visible
    <2>5. \A x : x \in VisibleTargets(d, t) <=> x \in VisibleTargets(d, s)
      BY <2>2, <2>3, <2>4, VisibleTargetIs
    <2>6. \A e : SeesUses(d, t, e) <=> SeesUses(d, s, e)
      BY <2>4 DEF SeesUses
    <2>7. \A e \in Collections : e # c => Uses(t, e) = Uses(s, e)
      <3>1. RefNames(t) = RefNames(s) /\ t.event = s.event
        BY <2>3 DEF RefNames
      <3>2. QED  BY <1>4, <3>1 DEF Uses, Collections
    <2>8. \A x \in ErrorRefs(t) : \E y \in ErrorRefs(s) : x = Renewed(d, old, new, y)
      BY <2>2, <2>3 DEF ErrorRefs
    <2>9. QED  BY <1>4, <2>3, <2>5, <2>6, <2>7, <2>8 DEF Uses, UsesChange
  <1>5. QED  BY <1>1, <1>2, <1>3, <1>4 DEF Collections

LEMMA RedirectedUsesIs ==
  ASSUME NEW d \in Document, NEW c \in Collections, NEW old \in DefNames, NEW new \in DefNames,
         NEW e, e = RedirectedUses(d, c, old, new)
  PROVE  /\ e \in Document /\ e.format = d.format /\ e.start = d.start
         /\ e.defs = d.defs /\ e.flow = d.flow /\ e.aliases = d.aliases /\ DOMAIN e.states = DOMAIN d.states
         /\ \A i \in DOMAIN d.states : e.states[i] = UsesTo(d, d.states[i], c, old, new)
  <1> DEFINE states == [i \in DOMAIN d.states |-> UsesTo(d, d.states[i], c, old, new)]
             broken == \E x \in DefinitionReferences(d, c) : UseAfter(d, old, new, x) = None
  <1>1. e = [d EXCEPT !.states = states, !.parses = d.parses /\ ~ broken]
    BY DEF RedirectedUses, UsesTo, CallsTo, LabelsTo, Renewed
  <1>2. /\ Len(d.states) \in Nat /\ DOMAIN d.states = 1 .. Len(d.states)
        /\ \A i \in DOMAIN d.states : d.states[i] \in State
    BY DocumentIs
  <1>3. \A i \in DOMAIN d.states : states[i] \in State
    BY <1>2, UsesToIs DEF UsesChange
  <1>4. states \in [1 .. Len(d.states) -> State]
    BY <1>2, <1>3
  <1>5. DOMAIN states = DOMAIN d.states
        /\ \A i \in DOMAIN d.states : states[i] = UsesTo(d, d.states[i], c, old, new)
    OBVIOUS
  <1> HIDE DEF states
  <1>6. states \in Seq(State)
    BY <1>2, <1>4, MakeSeq
  <1>7. /\ e \in Document /\ e.format = d.format /\ e.start = d.start
        /\ e.defs = d.defs /\ e.flow = d.flow /\ e.aliases = d.aliases /\ e.states = states
    <2>1. (d.parses /\ ~ broken) \in BOOLEAN
      BY DEF Document
    <2> HIDE DEF broken
    <2>2. QED  BY <1>1, <1>6, <2>1 DEF Document
  <1>8. QED  BY <1>5, <1>7

LEMMA RenameDefinitionKept ==
  ASSUME NEW d \in Document, NEW c \in Collections, NEW i \in DOMAIN d.defs[c],
         NEW n \in DefNames, NEW T, NEW U, T \subseteq U,
         Respelt(d, c, d.defs[c][i].name, n) \subseteq U
  PROVE  Kept(d, RenameDefinition(d, c, i, n).source, T, U)
  <1> DEFINE old == d.defs[c][i].name
             x == [d.defs[c][i] EXCEPT !.name = n]
             defs == [d.defs[c] EXCEPT ![i] = x]
             d1 == [d EXCEPT !.defs[c] = defs]
             e == RedirectedUses(d1, c, old, n)
  <1>1. CASE Unreadable(d) \/ NameTaken(d.defs[c], n, i)
    BY <1>1, KeptSame DEF RenameDefinition, Refused
  <1>2. CASE ~ (Unreadable(d) \/ NameTaken(d.defs[c], n, i))
    <2>1. RenameDefinition(d, c, i, n).source = e
      BY <1>2 DEF RenameDefinition, Patched, Document
    <2>2. /\ d.defs[c] \in Seq(Definition) /\ DOMAIN d.defs[c] = 1 .. Len(d.defs[c])
          /\ d.defs[c][i] \in Definition /\ old \in DefNames
      BY DocumentIs DEF Definition
    <2>3. x \in Definition /\ x.name = n /\ x.alias = d.defs[c][i].alias
      BY <2>2 DEF Definition
    <2> HIDE DEF x
    <2>4. /\ defs \in Seq(Definition) /\ DOMAIN defs = DOMAIN d.defs[c] /\ defs[i] = x
          /\ \A k \in DOMAIN defs : k # i => defs[k] = d.defs[c][k]
      BY <2>2, <2>3, ExceptSeq
    <2> HIDE DEF defs, old
    <2>5. DefsChange(d, d1, c, defs)
      BY <2>4, DefsReplaced
    <2> HIDE DEF d1
    <2>6. /\ d1 \in Document /\ d1.format = d.format /\ d1.start = d.start
          /\ d1.states = d.states /\ d1.aliases = d.aliases /\ d1.flow = d.flow
          /\ d1.defs[c] = defs /\ \A b \in Collections : b # c => d1.defs[b] = d.defs[b]
          /\ NamesOf(d1) = NamesOf(d)
          /\ DefinedIn(d1, c) = {defs[k].name : k \in DOMAIN defs}
          /\ \A b \in Collections : b # c => DefinedIn(d1, b) = DefinedIn(d, b)
      BY <2>5 DEF DefsChange
    <2>7. /\ e \in Document /\ e.format = d1.format /\ e.start = d1.start
          /\ e.defs = d1.defs /\ e.flow = d1.flow /\ e.aliases = d1.aliases /\ DOMAIN e.states = DOMAIN d1.states
          /\ \A k \in DOMAIN d1.states : e.states[k] = UsesTo(d1, d1.states[k], c, old, n)
      BY <2>2, <2>6, RedirectedUsesIs
    <2> HIDE DEF e
    <2>8. ASSUME NEW k \in DOMAIN d.states
          PROVE  /\ e.states[k].name = d.states[k].name
                 /\ VisibleTargets(d, e.states[k]) = VisibleTargets(d, d.states[k])
                 /\ \A b : SeesUses(d, e.states[k], b) <=> SeesUses(d, d.states[k], b)
                 /\ \A b \in Collections : b # c => Uses(e.states[k], b) = Uses(d.states[k], b)
                 /\ SeesUses(d, d.states[k], c) =>
                      \A y \in Uses(e.states[k], c) :
                        \E z \in Uses(d.states[k], c) : y = Renewed(d, old, n, z)
      <3>1. d.states[k] \in State /\ e.states[k] = UsesTo(d1, d.states[k], c, old, n)
        BY <2>6, <2>7, DocumentIs
      <3>2. /\ e.states[k].name = d.states[k].name
            /\ VisibleTargets(d1, e.states[k]) = VisibleTargets(d1, d.states[k])
            /\ \A b : SeesUses(d1, e.states[k], b) <=> SeesUses(d1, d.states[k], b)
            /\ \A b \in Collections : b # c => Uses(e.states[k], b) = Uses(d.states[k], b)
            /\ SeesUses(d1, d.states[k], c) =>
                 \A y \in Uses(e.states[k], c) :
                   \E z \in Uses(d.states[k], c) : y = Renewed(d1, old, n, z)
        <4>1. UsesChange(d1, d.states[k], e.states[k], c, old, n)
          BY <2>2, <3>1, UsesToIs
        <4>2. QED  BY <4>1 DEF UsesChange
      <3>3. \A s : VisibleTargets(d1, s) = VisibleTargets(d, s)
                   /\ \A b : SeesUses(d1, s, b) <=> SeesUses(d, s, b)
        BY <2>6, SameSight
      <3>4. \A z : Renewed(d1, old, n, z) = Renewed(d, old, n, z)
        BY <2>6 DEF Renewed, UseAfter
      <3>5. QED  BY <3>2, <3>3, <3>4
    <2>9. NamesOf(e) = NamesOf(d)
      BY <2>6, <2>7, <2>8 DEF NamesOf
    <2>10. \A b : DefinedIn(e, b) = DefinedIn(d1, b)
      BY <2>7 DEF DefinedIn
    <2>11. n \in DefinedIn(d1, c) /\ DefinedIn(d, c) \subseteq DefinedIn(d1, c) \cup {old}
      BY <2>3, <2>4, <2>6 DEF DefinedIn, old
    <2>12. ASSUME Sound(d, T), NEW k \in DOMAIN d.states PROVE StateSound(e, e.states[k], U)
      <3>1. StateSound(d, d.states[k], T)
        BY <2>12 DEF Sound
      <3>2. VisibleTargets(e, e.states[k]) = VisibleTargets(d, e.states[k])
            /\ \A b : SeesUses(e, e.states[k], b) <=> SeesUses(d, e.states[k], b)
        BY <2>6, <2>7, SameSight
      <3>3. ASSUME NEW b \in Collections, SeesUses(d, d.states[k], b)
            PROVE  Uses(e.states[k], b) \subseteq DefinedIn(e, b) \cup U
        <4>1. Uses(d.states[k], b) \subseteq DefinedIn(d, b) \cup T
          BY <3>1, <3>3 DEF StateSound
        <4>2. CASE b # c
          BY <2>6, <2>8, <2>10, <4>1, <4>2
        <4>3. CASE b = c
          <5>1. SUFFICES ASSUME NEW y \in Uses(e.states[k], c) PROVE y \in DefinedIn(d1, c) \cup U
            BY <2>10, <4>3
          <5>2. PICK z \in Uses(d.states[k], c) : y = Renewed(d, old, n, z)
            BY <2>8, <3>3, <4>3
          <5>3. /\ z \in DefinitionReferences(d, c)
                /\ DefinitionReferences(d, c) \subseteq DefinedIn(d, c) \cup T
            BY <2>12, <3>3, <4>3, <5>2, SoundIs DEF DefinitionReferences
          <5>4. CASE z = old
            BY <2>2, <2>11, <5>2, <5>4, RenewedIs
          <5>5. CASE z # old /\ y = z
            BY <2>11, <5>3, <5>5
          <5>6. CASE z # old /\ y # z
            <6>1. y = UseAfter(d, old, n, z) /\ y # None
              BY <5>2, <5>6 DEF Renewed
            <6>2. y \in DefinitionReferences(d, c) \ {old} \/ y \in Respelt(d, c, old, n)
              BY <5>3, <5>6, <6>1 DEF Respelt
            <6>3. QED  BY <2>11, <5>3, <6>2 DEF old
          <5>7. QED  BY <5>4, <5>5, <5>6
        <4>4. QED  BY <4>2, <4>3
      <3>4. QED  BY <2>8, <2>9, <3>1, <3>2, <3>3 DEF StateSound
    <2>13. DanglingAliases(e) = DanglingAliases(d)
      <3>1. AliasUses(e) = AliasUses(d)
        <4>1. CASE c = "functions"
          <5>1. /\ DOMAIN e.defs[c] = DOMAIN d.defs[c]
                /\ \A k \in DOMAIN d.defs[c] : e.defs[c][k].alias = d.defs[c][k].alias
            BY <2>3, <2>4, <2>6, <2>7
          <5>2. AliasesOf(e.defs[c]) = AliasesOf(d.defs[c])
            BY <5>1 DEF AliasesOf
          <5>3. QED  BY <2>6, <2>7, <4>1, <5>2, AliasUsesIs
        <4>2. CASE c # "functions"
          BY <2>6, <2>7, <4>2, AliasUsesIs DEF Collections
        <4>3. QED  BY <4>1, <4>2
      <3>2. QED  BY <2>6, <2>7, <3>1 DEF DanglingAliases
    <2>14. Sound(d, T) => Sound(e, U)
      BY <2>6, <2>7, <2>9, <2>12, <2>13 DEF Sound
    <2>15. UniquelyNamed(d) => UniquelyNamed(e)
      <3>1. UniqueNames(d.states) => UniqueNames(e.states)
        BY <2>6, <2>7, <2>8, SameUnique
      <3>2. UniqueNames(d.defs[c]) => UniqueNames(defs)
        BY <1>2, <2>3, <2>4, RenamedUnique
      <3>3. QED  BY <2>6, <2>7, <3>1, <3>2 DEF UniquelyNamed
    <2>16. QED  BY <2>1, <2>7, <2>14, <2>15 DEF Kept
  <1>3. QED  BY <1>1, <1>2

(* What the states see does not depend on the aliases.                     *)
LEMMA AliasesReplaced ==
  ASSUME NEW d \in Document, NEW a \in Aliases, NEW f \in DefNames \cup {None}, NEW e,
         e = [d EXCEPT !.aliases[a] = f], NEW T, NEW U, T \subseteq U,
         f = None => a \in U \/ a \notin AliasUses(d)
  PROVE  Kept(d, e, T, U)
  <1>1. /\ e \in Document /\ e.format = d.format /\ e.start = d.start
        /\ e.states = d.states /\ e.defs = d.defs /\ e.flow = d.flow
        /\ e.aliases[a] = f /\ \A b \in Aliases : b # a => e.aliases[b] = d.aliases[b]
    BY DEF Document
  <1>2. /\ NamesOf(e) = NamesOf(d) /\ AliasUses(e) = AliasUses(d)
        /\ \A c : DefinedIn(e, c) = DefinedIn(d, c)
    <2>1. e.format = d.format /\ e.defs = d.defs /\ e.flow = d.flow
      BY <1>1
    <2>2. AliasUses(e) = AliasUses(d)
      BY <2>1, SameAliases
    <2>3. QED  BY <1>1, <2>2 DEF NamesOf, DefinedIn
  <1>3. ASSUME Sound(d, T), NEW i \in DOMAIN d.states PROVE StateSound(e, d.states[i], U)
    <2>1. StateSound(d, d.states[i], T)
      BY <1>3 DEF Sound
    <2>2. e.format = d.format
      BY <1>1
    <2>3. VisibleTargets(e, d.states[i]) = VisibleTargets(d, d.states[i])
      BY <2>2, SameSight
    <2>4. \A c : SeesUses(e, d.states[i], c) <=> SeesUses(d, d.states[i], c)
      BY <2>2, SameSight
    <2>5. QED  BY <1>2, <2>1, <2>3, <2>4 DEF StateSound
  <1>4. ASSUME Sound(d, T), NEW b \in DanglingAliases(e) PROVE b \in U
    <2>1. b \in AliasUses(d) /\ e.aliases[b] = None
      BY <1>2, <1>4 DEF DanglingAliases
    <2>2. CASE b = a
      BY <1>1, <2>1, <2>2
    <2>3. CASE b # a
      <3>1. b \in Aliases
        <4>1. PICK k \in DOMAIN d.defs["functions"] :
                b = d.defs["functions"][k].alias /\ b # None
          BY <2>1, AliasUsesIs DEF AliasesOf
        <4>2. d.defs["functions"][k] \in Definition
          BY DocumentIs, ElementOfSeq, LenProperties DEF Collections
        <4>3. QED  BY <4>1, <4>2 DEF Definition
      <3>2. b \in DanglingAliases(d)
        BY <1>1, <2>1, <2>3, <3>1 DEF DanglingAliases
      <3>3. QED  BY <1>4, <3>2 DEF Sound
    <2>4. QED  BY <2>2, <2>3
  <1>5. Sound(d, T) => Sound(e, U)
    BY <1>1, <1>2, <1>3, <1>4 DEF Sound
  <1>6. QED  BY <1>1, <1>5 DEF Kept, UniquelyNamed

LEMMA AddAliasKept ==
  ASSUME NEW d \in Document, NEW a \in Aliases, NEW f \in DefNames, NEW T
  PROVE  /\ Kept(d, AddAlias(d, a, f).source, T, T)
         /\ Kept(d, PatchAlias(d, a, f).source, T, T)
  <1> DEFINE e == [d EXCEPT !.aliases[a] = f]
  <1>1. AddAlias(d, a, f).source \in {d, e} /\ PatchAlias(d, a, f).source \in {d, e}
    BY DEF AddAlias, PatchAlias, Refused, Patched
  <1>2. f # None
    BY NoneAssumption DEF Labels
  <1>3. Kept(d, e, T, T)
    BY <1>2, AliasesReplaced
  <1>4. QED  BY <1>1, <1>3, KeptSame

LEMMA DeleteAliasKept ==
  ASSUME NEW d \in Document, NEW a \in Aliases, NEW accept \in BOOLEAN, NEW T, NEW U,
         T \subseteq U, accept => a \in U
  PROVE  Kept(d, DeleteAlias(d, a, accept).source, T, U)
  <1>1. CASE DeleteAlias(d, a, accept).source = d
    BY <1>1, KeptSame
  <1>2. CASE DeleteAlias(d, a, accept).source # d
    <2>1. /\ a \notin AliasUses(d) \/ accept
          /\ DeleteAlias(d, a, accept).source = [d EXCEPT !.aliases[a] = None]
      BY <1>2 DEF DeleteAlias, Refused, Patched
    <2>2. QED  BY <2>1, AliasesReplaced
  <1>3. QED  BY <1>1, <1>2

LEMMA SetStartKept ==
  ASSUME NEW d \in Document, NEW n \in NamesOf(d) \cup {None}, NEW T
  PROVE  Kept(d, SetStart(d, n).source, T, T)
  <1> DEFINE e == [d EXCEPT !.start = n]
  <1>1. SetStart(d, n).source \in {d, e}
    BY DEF SetStart, Patched
  <1>2. n \in Names \cup {None}
    BY DocumentIs DEF NamesOf, State
  <1>3. /\ e \in Document /\ e.format = d.format /\ e.start = n
        /\ e.states = d.states /\ e.defs = d.defs /\ e.flow = d.flow /\ e.aliases = d.aliases
    BY <1>2 DEF Document
  <1> HIDE DEF e
  <1>4. /\ NamesOf(e) = NamesOf(d) /\ DanglingAliases(e) = DanglingAliases(d)
        /\ \A c : DefinedIn(e, c) = DefinedIn(d, c)
    BY <1>3, SameAliases DEF NamesOf, DefinedIn
  <1>5. ASSUME Sound(d, T), NEW i \in DOMAIN d.states PROVE StateSound(e, d.states[i], T)
    <2>1. StateSound(d, d.states[i], T)
      BY <1>5 DEF Sound
    <2>2. VisibleTargets(e, d.states[i]) = VisibleTargets(d, d.states[i])
          /\ \A c : SeesUses(e, d.states[i], c) <=> SeesUses(d, d.states[i], c)
      BY <1>3, SameSight
    <2>3. QED  BY <1>4, <2>1, <2>2 DEF StateSound
  <1>6. Kept(d, e, T, T)
    BY <1>3, <1>4, <1>5 DEF Sound, Kept, UniquelyNamed
  <1>7. QED  BY <1>1, <1>6, KeptSame


-----------------------------------------------------------------------------
(* An extraction.                                                          *)
Cut(seq, from, x, rest) == SubSeq(seq, 1, from - 1) \o << x >> \o SubSeq(seq, rest, Len(seq))

CutHas(new, seq, from, x, rest) ==
  LET kept == DOMAIN seq \ (from .. rest - 1)
  IN /\ \E j \in DOMAIN new : new[j] = x
     /\ \A i \in kept : \E j \in DOMAIN new : new[j] = seq[i]
     /\ \A j \in DOMAIN new : new[j] = x \/ \E i \in kept : new[j] = seq[i]

LEMMA CutSeq ==
  ASSUME NEW S, NEW seq \in Seq(S), NEW x \in S,
         NEW from \in 1 .. Len(seq), NEW rest \in from .. Len(seq) + 1
  PROVE  /\ Cut(seq, from, x, rest) \in Seq(S)
         /\ UniqueNames(seq) /\ (\A i \in DOMAIN seq : seq[i].name # x.name)
              => UniqueNames(Cut(seq, from, x, rest))
         /\ CutHas(Cut(seq, from, x, rest), seq, from, x, rest)
  <1> DEFINE before == SubSeq(seq, 1, from - 1)
             after == SubSeq(seq, rest, Len(seq))
             mid == before \o << x >>
             new == mid \o after
             Old(j) == IF j < from THEN j ELSE j - from + rest - 1
  <1>1. Len(seq) \in Nat /\ DOMAIN seq = 1 .. Len(seq) /\ \A j \in DOMAIN seq : seq[j] \in S
    BY LenProperties, ElementOfSeq
  <1>2. /\ before \in Seq(S) /\ Len(before) = from - 1
        /\ \A j \in 1 .. from - 1 : before[j] = seq[j]
    <2>1. \A j \in 1 .. from - 1 : seq[j] \in S
      BY <1>1
    <2>2. /\ before \in Seq(S) /\ Len(before) = IF 1 <= from - 1 THEN from - 1 - 1 + 1 ELSE 0
          /\ \A j \in 1 .. from - 1 - 1 + 1 : before[j] = seq[1 + j - 1]
      BY <1>1, <2>1, SubSeqProperties
    <2> HIDE DEF before
    <2>3. QED  BY <1>1, <2>2
  <1>3. /\ after \in Seq(S) /\ Len(after) = Len(seq) - rest + 1
        /\ \A j \in 1 .. Len(seq) - rest + 1 : after[j] = seq[rest + j - 1]
    <2>1. \A j \in rest .. Len(seq) : seq[j] \in S
      BY <1>1
    <2>2. /\ after \in Seq(S)
          /\ Len(after) = IF rest <= Len(seq) THEN Len(seq) - rest + 1 ELSE 0
          /\ \A j \in 1 .. Len(seq) - rest + 1 : after[j] = seq[rest + j - 1]
      BY <1>1, <2>1, SubSeqProperties
    <2> HIDE DEF after
    <2>3. QED  BY <1>1, <2>2
  <1>4. << x >> \in Seq(S) /\ Len(<< x >>) = 1 /\ << x >>[1] = x
    OBVIOUS
  <1> HIDE DEF before, after
  <1>5. /\ mid \in Seq(S) /\ Len(mid) = from
        /\ \A j \in 1 .. from - 1 : mid[j] = before[j]
        /\ mid[from] = x
    <2>1. /\ mid \in Seq(S) /\ Len(mid) = from - 1 + 1
          /\ \A j \in 1 .. from - 1 + 1 : mid[j] = IF j <= from - 1 THEN before[j]
                                                  ELSE << x >>[j - (from - 1)]
      BY <1>2, <1>4, ConcatProperties
    <2> HIDE DEF mid
    <2>2. QED  BY <1>1, <1>4, <2>1
  <1> HIDE DEF mid
  <1>6. /\ new \in Seq(S) /\ Len(new) = from + (Len(seq) - rest + 1)
        /\ \A j \in 1 .. from + (Len(seq) - rest + 1) :
             new[j] = IF j <= from THEN mid[j] ELSE after[j - from]
    <2> DEFINE m == Len(mid)
               n == Len(after)
    <2>1. m = from /\ n = Len(seq) - rest + 1
      BY <1>3, <1>5
    <2>2. /\ new \in Seq(S) /\ Len(new) = m + n
          /\ \A j \in 1 .. m + n : new[j] = IF j <= m THEN mid[j] ELSE after[j - m]
      BY <1>3, <1>5, ConcatProperties
    <2> HIDE DEF m, n, new
    <2>3. QED  BY <2>1, <2>2
  <1> HIDE DEF new
  <1>7. DOMAIN new = 1 .. from + (Len(seq) - rest + 1)
    BY <1>6, LenProperties
  <1>8. ASSUME NEW j \in DOMAIN new, j # from
        PROVE  Old(j) \in DOMAIN seq /\ new[j] = seq[Old(j)]
    <2>1. j \in Int /\ from \in Int /\ rest \in Int /\ 1 <= j
          /\ j <= from + (Len(seq) - rest + 1)
      BY <1>1, <1>7
    <2>2. CASE j < from
      BY <1>1, <1>2, <1>5, <1>6, <1>7, <2>1, <2>2
    <2>3. CASE j > from
      <3>1. j - from \in 1 .. Len(seq) - rest + 1
        BY <1>1, <2>1, <2>3
      <3>2. new[j] = after[j - from]
        BY <1>6, <1>7, <2>1, <2>3
      <3>3. after[j - from] = seq[rest + (j - from) - 1]
        BY <1>3, <3>1
      <3>4. Old(j) = rest + (j - from) - 1 /\ Old(j) \in 1 .. Len(seq)
        BY <1>1, <2>1, <2>3
      <3> HIDE DEF Old
      <3>5. QED  BY <1>1, <3>2, <3>3, <3>4
    <2>4. QED  BY <1>8, <2>1, <2>2, <2>3
  <1>9. /\ new[from] = x
        /\ \A i, j \in DOMAIN new : i # from /\ j # from /\ Old(i) = Old(j) => i = j
    <2>1. new[from] = x
      BY <1>1, <1>5, <1>6
    <2>2. \A i, j \in 1 .. from + (Len(seq) - rest + 1) :
             i # from /\ j # from /\ Old(i) = Old(j) => i = j
      BY <1>1
    <2>3. QED  BY <1>7, <2>1, <2>2
  <1>10. \A j \in DOMAIN new : j # from => Old(j) \notin from .. rest - 1
    BY <1>1, <1>7
  <1>11. ASSUME NEW i \in DOMAIN seq, i \notin from .. rest - 1
        PROVE  \E j \in DOMAIN new : j # from /\ Old(j) = i
    <2> DEFINE j == IF i < from THEN i ELSE i - rest + from + 1
    <2>1. j \in 1 .. from + (Len(seq) - rest + 1) /\ j # from /\ Old(j) = i
      BY <1>1, <1>11
    <2>2. QED  BY <1>7, <2>1
  <1> HIDE DEF Old
  <1>12. CutHas(new, seq, from, x, rest)
    <2> DEFINE kept == DOMAIN seq \ (from .. rest - 1)
    <2>1. from \in DOMAIN new
      BY <1>1, <1>7
    <2>2. \A i \in kept : \E j \in DOMAIN new : new[j] = seq[i]
      BY <1>8, <1>11
    <2>3. \A j \in DOMAIN new : new[j] = x \/ \E i \in kept : new[j] = seq[i]
      BY <1>8, <1>9, <1>10
    <2>4. QED  BY <1>9, <2>1, <2>2, <2>3 DEF CutHas
  <1>13. UniqueNames(seq) /\ (\A i \in DOMAIN seq : seq[i].name # x.name) => UniqueNames(new)
    <2> SUFFICES ASSUME UniqueNames(seq), \A i \in DOMAIN seq : seq[i].name # x.name,
                        NEW i \in DOMAIN new, NEW j \in DOMAIN new, new[i].name = new[j].name
                 PROVE  i = j
      BY DEF UniqueNames
    <2>1. CASE i # from /\ j # from
      <3>1. Old(i) \in DOMAIN seq /\ Old(j) \in DOMAIN seq /\ seq[Old(i)].name = seq[Old(j)].name
        BY <1>8, <2>1
      <3>2. Old(i) = Old(j)
        BY <3>1 DEF UniqueNames
      <3>3. QED  BY <1>9, <2>1, <3>2
    <2>2. CASE i = from /\ j # from
      BY <1>8, <1>9, <2>2
    <2>3. CASE i # from /\ j = from
      BY <1>8, <1>9, <2>3
    <2>4. QED  BY <2>1, <2>2, <2>3
  <1>14. Cut(seq, from, x, rest) = new
    BY DEF Cut, new, mid, before, after
  <1>15. QED  BY <1>6, <1>13, <1>14, <1>12

LEMMA SelectionIs ==
  ASSUME NEW d \in Document, NEW A, NEW names \in Selections(A), ~ Refusal(d, names)
  PROVE  /\ ~ Unreadable(d)
         /\ names[1] \in Names
         /\ IndexOf(d.states, names[1]) \in DOMAIN d.states
         /\ IndexOf(d.states, names[Len(names)]) \in DOMAIN d.states
  <1>1. PICK k \in 1 .. MaxSelected : names \in [1 .. k -> A]
    BY DEF Selections
  <1>2. k \in Nat /\ k >= 1
    BY <1>1, SeedsAssumption
  <1>3. Len(names) = k /\ DOMAIN names = 1 .. k
    BY <1>1, <1>2, MakeSeq
  <1>4. \A m \in DOMAIN names : IndexOf(d.states, names[m]) # 0
    BY DEF Refusal
  <1>5. \A m \in DOMAIN names : /\ IndexOf(d.states, names[m]) \in DOMAIN d.states
                                /\ d.states[IndexOf(d.states, names[m])].name = names[m]
    BY <1>4, DocumentIs, IndexOfIs
  <1>6. 1 \in DOMAIN names /\ Len(names) \in DOMAIN names
    BY <1>2, <1>3
  <1>7. names[1] \in Names
    <2>1. d.states[IndexOf(d.states, names[1])] \in State
      BY <1>5, <1>6, DocumentIs
    <2>2. QED  BY <1>5, <1>6, <2>1 DEF State
  <1>8. ~ Unreadable(d)
    BY DEF Refusal
  <1>9. QED  BY <1>5, <1>6, <1>7, <1>8

(* What is extracted has no branches.                                      *)
LEMMA RangeIsPlain ==
  ASSUME NEW d \in Document, NEW A, NEW names \in Selections(A), ~ Refusal(d, names), NEW raw,
         raw = Span(d, IndexOf(d.states, names[1]), IndexOf(d.states, names[Len(names)]))
  PROVE  \A k \in DOMAIN raw : ~ Uncertain(raw[k])
  <1> DEFINE at == [k \in DOMAIN names |-> IndexOf(d.states, names[k])]
             range == Span(d, at[1], at[Len(names)])
  <1>1. PICK k \in 1 .. MaxSelected : names \in [1 .. k -> A]
    BY DEF Selections
  <1>2. k \in Nat /\ k >= 1
    BY <1>1, SeedsAssumption
  <1>3. Len(names) = k /\ DOMAIN names = 1 .. k
    BY <1>1, <1>2, MakeSeq
  <1>4. 1 \in DOMAIN names /\ Len(names) \in DOMAIN names
    BY <1>2, <1>3
  <1>5. \A l \in DOMAIN range : ~ Uncertain(range[l])
    BY DEF Refusal
  <1>6. at[1] = IndexOf(d.states, names[1]) /\ at[Len(names)] = IndexOf(d.states, names[Len(names)])
    BY <1>4
  <1> HIDE DEF at
  <1>7. QED  BY <1>5, <1>6

LEMMA InvocationIs ==
  ASSUME NEW d \in Document, NEW names, Len(d.states) <= MaxStates,
         IndexOf(d.states, names[Len(names)]) \in DOMAIN d.states
  PROVE  Invocation(d, names) \in State /\ Invocation(d, names).name \in Names \ NamesOf(d)
  <1> DEFINE n == FreeName(NamesOf(d), InvocationName)
             last == d.states[IndexOf(d.states, names[Len(names)])]
             blank == NewState(n, "operation")
             calls == << [key |-> "subFlowRef", ref |-> SubflowId] >>
             target == IF last.end THEN None ELSE last.transition
  <1>1. n \in Names /\ n \notin NamesOf(d)
    BY NumberedIs, InvocationAssumption DEF FreeName
  <1>2. last \in State
    BY DocumentIs
  <1>3. last.end \in BOOLEAN /\ target \in Names \cup {None}
    BY <1>2 DEF State
  <1>4. calls \in Seq(Call)
    <2>1. [key |-> "subFlowRef", ref |-> SubflowId] \in Call
      BY InvocationAssumption DEF Call
    <2>2. QED  BY <2>1
  <1>5. Invocation(d, names) = [blank EXCEPT !.actions = calls, !.transition = target, !.end = last.end]
    BY DEF Invocation
  <1> HIDE DEF n, calls, target, last
  <1>6. Invocation(d, names) =
          [name |-> n, type |-> "operation", transition |-> target, end |-> last.end,
           conditions |-> << >>, default |-> None, errors |-> << >>,
           actions |-> calls, event |-> None, inline |-> {}]
    BY <1>5 DEF NewState
  <1>7. << >> \in Seq(Branch)
    OBVIOUS
  <1>8. Invocation(d, names) \in State /\ Invocation(d, names).name = n
    BY <1>1, <1>3, <1>4, <1>6, <1>7 DEF State, Types
  <1>9. QED  BY <1>1, <1>8

LEMMA ExtractedIs ==
  ASSUME NEW d \in Document, NEW A, NEW names \in Selections(A), ~ Refusal(d, names)
  PROVE  Extracted(d, names) \in Document
  <1> DEFINE from == IndexOf(d.states, names[1])
             to == IndexOf(d.states, names[Len(names)])
             states == Span(d, from, to)
             defs == [c \in Collections |-> << >>]
             aliases == [a \in Aliases |-> None]
  <1>1. names[1] \in Names /\ from \in DOMAIN d.states /\ to \in DOMAIN d.states
    BY SelectionIs
  <1>2. d.states \in Seq(State) /\ Len(d.states) \in Nat /\ DOMAIN d.states = 1 .. Len(d.states)
    BY DocumentIs
  <1>3. states \in Seq(State)
    <2> HIDE DEF from, to
    <2>1. CASE from <= to
      <3>1. SubSeq(d.states, from, to) \in Seq(State)
        BY <1>1, <1>2, <2>1, SubSeqProperties
      <3>2. QED  BY <2>1, <3>1 DEF Span
    <2>2. CASE ~ (from <= to)
      BY <2>2 DEF Span
    <2>3. QED  BY <2>1, <2>2
  <1>4. defs \in [Collections -> Seq(Definition)] /\ aliases \in [Aliases -> DefNames \cup {None}]
    OBVIOUS
  <1>5. Extracted(d, names) = [d EXCEPT !.start = names[1], !.states = states,
                                        !.defs = defs, !.flow = {}, !.aliases = aliases]
    BY DEF Extracted
  <1> HIDE DEF states, defs, aliases
  <1>6. QED  BY <1>1, <1>3, <1>4, <1>5 DEF Document

(* The invocation has the place of the range, and the rest leads to it.    *)
Replaces(d, e, from, to, entry, call) ==
  LET outside == DOMAIN d.states \ (from .. to)
      Kin(i) == StateTo(d, d.states[i], entry, call.name)
  IN /\ e.start = Redirect(d.start, entry, call.name)
     /\ \E j \in DOMAIN e.states : e.states[j] = call
     /\ \A i \in outside : \E j \in DOMAIN e.states : e.states[j] = Kin(i)
     /\ \A j \in DOMAIN e.states : e.states[j] = call \/ \E i \in outside : e.states[j] = Kin(i)

LEMMA CallerIs ==
  ASSUME NEW d \in Document, NEW A, NEW names \in Selections(A), ~ Refusal(d, names),
         Len(d.states) <= MaxStates
  PROVE  /\ Caller(d, names) \in Document
         /\ UniquelyNamed(d) => UniquelyNamed(Caller(d, names))
         /\ Replaces(d, Caller(d, names), IndexOf(d.states, names[1]),
                     IndexOf(d.states, names[Len(names)]), names[1], Invocation(d, names))
  <1> DEFINE from == IndexOf(d.states, names[1])
             to == IndexOf(d.states, names[Len(names)])
             outside == DOMAIN d.states \ (from .. to)
             call == Invocation(d, names)
             r == Redirected(d, names[1], call.name, outside)
             rest == IF from <= to THEN to + 1 ELSE from
             states == Cut(r.states, from, call, rest)
  <1>1. names[1] \in Names /\ from \in DOMAIN d.states /\ to \in DOMAIN d.states
    BY SelectionIs
  <1>2. call \in State /\ call.name \in Names /\ call.name \notin NamesOf(d)
    BY <1>1, InvocationIs
  <1>3. Len(d.states) \in Nat /\ DOMAIN d.states = 1 .. Len(d.states)
        /\ \A i \in DOMAIN d.states : d.states[i] \in State
    BY DocumentIs
  <1>4. Caller(d, names) = [r EXCEPT !.states = states]
    BY DEF Caller, Cut
  <1> HIDE DEF call, from, to, outside
  <1>5. /\ r \in Document /\ r.defs = d.defs /\ r.start = Redirect(d.start, names[1], call.name)
        /\ DOMAIN r.states = DOMAIN d.states /\ Len(r.states) = Len(d.states)
        /\ \A i \in DOMAIN d.states :
             r.states[i] = IF i \in outside THEN StateTo(d, d.states[i], names[1], call.name)
                           ELSE d.states[i]
    BY <1>1, <1>2, RedirectedIs
  <1>6. \A i \in DOMAIN d.states : r.states[i].name = d.states[i].name
    <2> SUFFICES ASSUME NEW i \in DOMAIN d.states PROVE r.states[i].name = d.states[i].name
      OBVIOUS
    <2> DEFINE t == StateTo(d, d.states[i], names[1], call.name)
    <2>1. t = StateTo(d, d.states[i], names[1], call.name)
      OBVIOUS
    <2> HIDE DEF t
    <2>2. names[1] # None /\ d.states[i] \in State
      BY <1>1, <1>3, NoneAssumption
    <2>3. t.name = d.states[i].name
      BY <2>1, <2>2 DEF StateTo, State
    <2>4. QED  BY <1>5, <2>1, <2>3
  <1> HIDE DEF r
  <1>7. r.states \in Seq(State)
    BY <1>5, DocumentIs
  <1>8. rest \in from .. Len(r.states) + 1 /\ from \in 1 .. Len(r.states)
    BY <1>1, <1>3, <1>5
  <1>9. from .. rest - 1 = from .. to
    BY <1>1, <1>3
  <1> HIDE DEF rest
  <1>10. /\ states \in Seq(State)
         /\ UniqueNames(r.states) /\ (\A i \in DOMAIN r.states : r.states[i].name # call.name)
              => UniqueNames(states)
    BY <1>2, <1>7, <1>8, CutSeq
  <1>11. CutHas(states, r.states, from, call, rest)
    BY <1>2, <1>7, <1>8, CutSeq
  <1>12. \A i \in DOMAIN r.states : r.states[i].name # call.name
    BY <1>2, <1>5, <1>6 DEF NamesOf
  <1>13. UniqueNames(d.states) => UniqueNames(r.states)
    BY <1>5, <1>6, SameUnique
  <1> HIDE DEF states
  <1>14. /\ Caller(d, names) \in Document /\ Caller(d, names).states = states
         /\ Caller(d, names).defs = d.defs /\ Caller(d, names).start = r.start
    <2>1. states \in Seq(State)
      BY <1>10
    <2>2. Caller(d, names) = [r EXCEPT !.states = states]
      BY <1>4
    <2>3. /\ Caller(d, names) \in Document /\ Caller(d, names).states = states
          /\ Caller(d, names).defs = r.defs /\ Caller(d, names).start = r.start
      BY <1>5, <2>1, <2>2, StatesReplaced
    <2>4. QED  BY <1>5, <2>3
  <1>15. Replaces(d, Caller(d, names), from, to, names[1], call)
    <2> DEFINE s == r.states
               kept == DOMAIN s \ (from .. rest - 1)
    <2>1. kept = outside
      BY <1>5, <1>9 DEF outside
    <2>2. /\ \E j \in DOMAIN states : states[j] = call
          /\ \A i \in outside : \E j \in DOMAIN states : states[j] = r.states[i]
          /\ \A j \in DOMAIN states : states[j] = call \/ \E i \in outside : states[j] = r.states[i]
      <3>1. CutHas(states, s, from, call, rest)
        BY <1>11
      <3> HIDE DEF s
      <3>2. /\ \E j \in DOMAIN states : states[j] = call
            /\ \A i \in kept : \E j \in DOMAIN states : states[j] = s[i]
            /\ \A j \in DOMAIN states : states[j] = call \/ \E i \in kept : states[j] = s[i]
        BY <3>1 DEF CutHas
      <3>3. QED  BY <2>1, <3>2 DEF s
    <2>3. \A i \in outside : r.states[i] = StateTo(d, d.states[i], names[1], call.name)
      BY <1>5 DEF outside
    <2>4. outside = DOMAIN d.states \ (from .. to)
      BY DEF outside
    <2>5. QED  BY <1>5, <1>14, <2>2, <2>3, <2>4 DEF Replaces
  <1>16. UniquelyNamed(d) => UniquelyNamed(Caller(d, names))
    BY <1>10, <1>12, <1>13, <1>14 DEF UniquelyNamed
  <1>17. Replaces(d, Caller(d, names), IndexOf(d.states, names[1]),
                  IndexOf(d.states, names[Len(names)]), names[1], Invocation(d, names))
    BY <1>15 DEF from, to, call
  <1>18. QED  BY <1>14, <1>16, <1>17

-----------------------------------------------------------------------------
(* The invariant: while the session edits, what the draft shows is sound   *)
(* and its states are within the bound, so that there is a number for      *)
(* every name a repair or an extraction has to make up.                    *)
Written == Names \cup DefNames \cup Aliases \cup {None, "true"}

EditsInv ==
  /\ TypeOK
  /\ subflow = None => Len(draft.states) <= MaxStates /\ Sound(draft, typed)

(* What every edit of the draft does.                                      *)
Edited ==
  /\ subflow = None
  /\ Kept(draft, draft', typed, typed')
  /\ typed' \subseteq typed \cup Written
  /\ Len(draft'.states) <= MaxStates
  /\ edits' = edits + 1
  /\ UNCHANGED << saved, subflow >>

LEMMA UsesAre ==
  ASSUME NEW s \in State, NEW c \in Collections
  PROVE  Uses(s, c) \subseteq DefNames \cup {"true"}
  <1>1. /\ s.errors \in Seq(Branch) /\ s.actions \in Seq(Call) /\ s.event \in DefNames \cup {None}
    BY DEF State
  <1>2. /\ \A k \in DOMAIN s.errors : s.errors[k] \in Branch
        /\ \A k \in DOMAIN s.actions : s.actions[k] \in Call
    BY <1>1, LenProperties, ElementOfSeq
  <1>3. ErrorRefs(s) \subseteq DefNames \cup {"true"}
    BY <1>2 DEF ErrorRefs, Branch, Labels
  <1>4. RefNames(s) \subseteq DefNames
    BY <1>2 DEF RefNames, Call
  <1>5. QED  BY <1>1, <1>3, <1>4 DEF Uses

LEMMA TargetsAre ==
  ASSUME NEW s \in State
  PROVE  /\ Targets(s) \subseteq Names
         /\ \A d : VisibleTargets(d, s) \subseteq Targets(s)
  <1>1. /\ s.conditions \in Seq(Branch) /\ s.errors \in Seq(Branch)
        /\ s.transition \in Names \cup {None} /\ s.default \in Names \cup {None}
    BY DEF State
  <1>2. /\ \A k \in DOMAIN s.errors : s.errors[k] \in Branch
        /\ \A k \in DOMAIN s.conditions : s.conditions[k] \in Branch
    BY <1>1, LenProperties, ElementOfSeq
  <1>3. BranchTargets(s, "conditions") \subseteq Names /\ BranchTargets(s, "errors") \subseteq Names
    BY <1>2 DEF BranchTargets, Branch
  <1>4. Targets(s) \subseteq Names
    BY <1>1, <1>3 DEF Targets
  <1>5. ASSUME NEW d, NEW x \in VisibleTargets(d, s) PROVE x \in Targets(s)
    BY <1>5, VisibleTargetIs DEF Targets, BranchTargets
  <1>6. QED  BY <1>4, <1>5

LEMMA ReferencesAre ==
  ASSUME NEW d \in Document
  PROVE  AllReferences(d) \subseteq Names /\ References(d) \subseteq AllReferences(d)
  <1>1. d.start \in Names \cup {None}
    BY DEF Document
  <1>2. \A i \in DOMAIN d.states : /\ Targets(d.states[i]) \subseteq Names
                                   /\ VisibleTargets(d, d.states[i]) \subseteq Targets(d.states[i])
    BY DocumentIs, TargetsAre
  <1>3. QED  BY <1>1, <1>2 DEF AllReferences, References

LEMMA AliasUsesAre ==
  ASSUME NEW d \in Document PROVE DanglingAliases(d) \subseteq Aliases
  <1>1. \A k \in DOMAIN d.defs["functions"] : d.defs["functions"][k].alias \in Aliases \cup {None}
    BY DocumentIs DEF Collections, Definition
  <1>2. QED  BY <1>1, AliasUsesIs DEF DanglingAliases, AliasesOf

LEMMA InitEdits == Init => EditsInv
  <1> SUFFICES ASSUME Init PROVE EditsInv
    OBVIOUS
  <1>1. /\ draft \in Document /\ saved \in Document /\ Len(draft.states) <= MaxStates
    BY SeedsAssumption DEF Init
  <1>2. typed = Unresolved(draft) /\ subflow = None /\ edits = 0
    BY DEF Init
  <1>3. /\ Dangling(draft) \subseteq Names /\ VisiblyDangling(draft) \subseteq Dangling(draft)
        /\ DanglingAliases(draft) \subseteq Aliases
    BY <1>1, ReferencesAre, AliasUsesAre DEF Dangling, VisiblyDangling
  <1>4. \A c \in Collections : /\ DefinitionUses(draft, c) \subseteq DefNames \cup {"true"}
                               /\ DefinitionReferences(draft, c) \subseteq DefinitionUses(draft, c)
    BY <1>1, DocumentIs, UsesAre DEF DefinitionUses, DefinitionReferences
  <1>5. typed \subseteq Written
    BY <1>2, <1>3, <1>4 DEF Unresolved, Written
  <1>6. /\ VisiblyDangling(draft) \subseteq typed /\ DanglingAliases(draft) \subseteq typed
        /\ \A c \in Collections : DefinitionReferences(draft, c) \subseteq DefinedIn(draft, c) \cup typed
    <2>1. VisiblyDangling(draft) \subseteq typed /\ DanglingAliases(draft) \subseteq typed
      BY <1>2, <1>3 DEF Unresolved
    <2>2. \A c \in Collections : DefinitionUses(draft, c) \ DefinedIn(draft, c) \subseteq typed
      BY <1>2 DEF Unresolved, DefinedIn
    <2>3. QED  BY <1>4, <2>1, <2>2
  <1>7. Sound(draft, typed)
    BY <1>6, SoundIs
  <1>8. QED  BY <1>1, <1>2, <1>5, <1>7 DEF EditsInv, TypeOK, Written

LEMMA EditedKeeps ==
  ASSUME EditsInv, Edited PROVE EditsInv'
  <1>1. /\ draft' \in Document /\ Sound(draft', typed')
    BY DEF EditsInv, Edited, Kept
  <1>2. typed' \subseteq Written /\ edits' \in Nat
    BY DEF EditsInv, Edited, TypeOK, Written
  <1>3. /\ saved' = saved /\ subflow' = subflow /\ Len(draft'.states) <= MaxStates
    BY DEF Edited
  <1>4. TypeOK'
    BY <1>1, <1>2, <1>3 DEF EditsInv, TypeOK, Written
  <1>5. QED  BY <1>1, <1>3, <1>4 DEF EditsInv

-----------------------------------------------------------------------------
(* A form acts on a state of the draft.                                    *)
LEMMA StatesAre ==
  ASSUME TypeOK
  PROVE  /\ States \subseteq DOMAIN draft.states
         /\ \A i \in DOMAIN draft.states : draft.states[i].name \in Names
  <1>1. DOMAIN StatesOf(draft) \subseteq DOMAIN draft.states
    BY DEF StatesOf
  <1>2. draft \in Document
    BY DEF TypeOK
  <1>3. QED  BY <1>1, <1>2, DocumentIs DEF States, Firsts, State

LEMMA CreateEdits == ASSUME EditsInv, Create PROVE Edited
  <1>1. PICK n \in Writable, t \in Types : Pick(CreateState(draft, n, t))
    BY DEF Create
  <1>2. Kept(draft, CreateState(draft, n, t).source, typed, typed)
    BY CreateKept, WrittenAssumption DEF EditsInv, TypeOK
  <1>3. QED  BY <1>1, <1>2 DEF Pick, Apply, MayEdit, Edited

LEMMA DuplicateEdits == ASSUME EditsInv, Duplicate PROVE Edited
  <1> DEFINE Copy(i) == CopyName[draft.states[i].name]
  <1>1. PICK i \in States : /\ draft.states[i].name \in DOMAIN CopyName /\ Copy(i) \in Names
                            /\ Pick(DuplicateState(draft, i, Copy(i)))
    BY DEF Duplicate
  <1>2. i \in DOMAIN draft.states /\ Copy(i) # draft.states[i].name
    BY <1>1, StatesAre, CopyAssumption DEF EditsInv
  <1> HIDE DEF Copy
  <1>3. Kept(draft, DuplicateState(draft, i, Copy(i)).source, typed, typed)
    BY <1>1, <1>2, DuplicateKept DEF EditsInv, TypeOK
  <1>4. QED  BY <1>1, <1>3 DEF Pick, Apply, MayEdit, Edited

LEMMA RenameEdits == ASSUME EditsInv, Rename PROVE Edited
  <1>1. PICK i \in States, n \in Writable : Pick(RenameState(draft, i, n))
    BY DEF Rename, RenameTo
  <1>2. i \in DOMAIN draft.states /\ n \in Names
    BY StatesAre, WrittenAssumption DEF EditsInv
  <1>3. Kept(draft, RenameState(draft, i, n).source, typed, typed)
    BY <1>2, RenameKept DEF EditsInv, TypeOK
  <1>4. QED  BY <1>1, <1>3 DEF Pick, Apply, MayEdit, Edited

LEMMA DeleteEdits == ASSUME EditsInv, Delete PROVE Edited
  <1>1. PICK i \in States : Pick(DeleteState(draft, i))
    BY DEF Delete
  <1>2. Kept(draft, DeleteState(draft, i).source, typed, typed)
    BY DeleteKept, StatesAre DEF EditsInv, TypeOK
  <1>3. QED  BY <1>1, <1>2 DEF Pick, Apply, MayEdit, Edited

LEMMA MoveEdits == ASSUME EditsInv, Move PROVE Edited
  <1>1. PICK i \in States, direction \in {"up", "down"} : Pick(MoveState(draft, i, direction))
    BY DEF Move
  <1>2. Kept(draft, MoveState(draft, i, direction).source, typed, typed)
    BY MoveKept, StatesAre DEF EditsInv, TypeOK
  <1>3. QED  BY <1>1, <1>2 DEF Pick, Apply, MayEdit, Edited

LEMMA EditEdits == ASSUME EditsInv, Edit PROVE Edited
  <1>1. PICK i \in States :
          \/ \E t \in Types : Pick(EditState(draft, i, "type", t))
          \/ \E n \in StateOptions : Pick(EditState(draft, i, "transition", n))
          \/ \E b \in BOOLEAN : Pick(EditState(draft, i, "end", b))
    BY DEF Edit
  <1>2. i \in DOMAIN draft.states /\ draft \in Document
    BY StatesAre DEF EditsInv, TypeOK
  <1>3. /\ \A t \in Types : Kept(draft, EditState(draft, i, "type", t).source, typed, typed)
        /\ \A n \in StateOptions :
             Kept(draft, EditState(draft, i, "transition", n).source, typed, typed)
        /\ \A b \in BOOLEAN : Kept(draft, EditState(draft, i, "end", b).source, typed, typed)
    <2>1. "operation" \in Types /\ None \in StateOptions /\ TRUE \in BOOLEAN
      BY DEF Types, StateOptions
    <2>2. QED  BY <1>2, <2>1, EditKept DEF StateOptions
  <1>4. QED  BY <1>1, <1>3 DEF Pick, Apply, MayEdit, Edited

LEMMA WriteFieldEdits == ASSUME EditsInv, WriteField PROVE Edited
  <1>1. PICK i \in States, asJson \in BOOLEAN :
          \/ \E f \in BranchFields, b \in BranchLists :
               Write(SetStateField(draft, i, f, b, asJson),
                     {b[k].to : k \in DOMAIN b} \cup {b[k].label : k \in DOMAIN b})
          \/ \E n \in Writable \cup {None} :
               Write(SetStateField(draft, i, "default", n, asJson), {n})
          \/ \E a \in ActionLists :
               Write(SetStateField(draft, i, "actions", a, asJson), {a[k].ref : k \in DOMAIN a})
          \/ \E e \in Definable \cup {None} :
               Write(SetStateField(draft, i, "event", e, asJson), {e})
    BY DEF WriteField
  <1>2. i \in DOMAIN draft.states /\ draft \in Document
    BY StatesAre DEF EditsInv, TypeOK
  <1>3. ASSUME NEW f \in BranchFields, NEW b \in BranchLists,
               Write(SetStateField(draft, i, f, b, asJson),
                     {b[k].to : k \in DOMAIN b} \cup {b[k].label : k \in DOMAIN b})
        PROVE  Edited
    <2> DEFINE names == {b[k].to : k \in DOMAIN b} \cup {b[k].label : k \in DOMAIN b}
    <2>1. b \in Seq(Branch) /\ \A k \in DOMAIN b : b[k] \in Branch
      BY WrittenAssumption, LenProperties, ElementOfSeq
    <2>2. names \subseteq Written
      BY <2>1 DEF Branch, Labels, Written
    <2>3. \A k \in DOMAIN b : b[k].to \in typed \cup names /\ b[k].label \in typed \cup names
      OBVIOUS
    <2>4. Write(SetStateField(draft, i, f, b, asJson), names)
      BY <1>3
    <2> HIDE DEF names
    <2>5. Kept(draft, SetStateField(draft, i, f, b, asJson).source, typed, typed \cup names)
      <3>1. CASE f = "conditions"
        BY <1>2, <2>1, <2>3, <3>1, ConditionsKept
      <3>2. CASE f = "errors"
        BY <1>2, <2>1, <2>3, <3>2, ErrorsKept
      <3>3. QED  BY <3>1, <3>2 DEF BranchFields
    <2>6. QED  BY <2>2, <2>4, <2>5 DEF Write, Apply, MayEdit, Edited
  <1>4. ASSUME NEW n \in Writable \cup {None},
               Write(SetStateField(draft, i, "default", n, asJson), {n})
        PROVE  Edited
    <2>1. n \in Names \cup {None}
      BY WrittenAssumption
    <2>2. Kept(draft, SetStateField(draft, i, "default", n, asJson).source, typed, typed \cup {n})
      BY <1>2, <2>1, DefaultKept
    <2>3. QED  BY <1>4, <2>1, <2>2 DEF Write, Apply, MayEdit, Edited, Written
  <1>5. ASSUME NEW a \in ActionLists,
               Write(SetStateField(draft, i, "actions", a, asJson), {a[k].ref : k \in DOMAIN a})
        PROVE  Edited
    <2> DEFINE names == {a[k].ref : k \in DOMAIN a}
    <2>1. a \in Seq(Call) /\ \A k \in DOMAIN a : a[k] \in Call
      BY WrittenAssumption, LenProperties, ElementOfSeq
    <2>2. names \subseteq Written
      BY <2>1 DEF Call, Written
    <2>3. \A k \in DOMAIN a : a[k].ref \in typed \cup names
      OBVIOUS
    <2>4. Write(SetStateField(draft, i, "actions", a, asJson), names)
      BY <1>5
    <2> HIDE DEF names
    <2>5. Kept(draft, SetStateField(draft, i, "actions", a, asJson).source, typed, typed \cup names)
      BY <1>2, <2>1, <2>3, ActionsKept
    <2>6. QED  BY <2>2, <2>4, <2>5 DEF Write, Apply, MayEdit, Edited
  <1>6. ASSUME NEW e \in Definable \cup {None},
               Write(SetStateField(draft, i, "event", e, asJson), {e})
        PROVE  Edited
    <2>1. e \in DefNames \cup {None}
      BY WrittenAssumption
    <2>2. Kept(draft, SetStateField(draft, i, "event", e, asJson).source, typed, typed \cup {e})
      BY <1>2, <2>1, EventKept
    <2>3. QED  BY <1>6, <2>1, <2>2 DEF Write, Apply, MayEdit, Edited, Written
  <1>7. QED  BY <1>1, <1>3, <1>4, <1>5, <1>6

LEMMA CallSubflowEdits == ASSUME EditsInv, CallSubflow PROVE Edited
  <1>1. PICK i \in States, nth \in 0 .. 1 :
          Write(PatchSubflow(draft, i, nth, SubflowId), {SubflowId})
    BY DEF CallSubflow
  <1>2. i \in DOMAIN draft.states /\ draft \in Document
    BY StatesAre DEF EditsInv, TypeOK
  <1>3. Kept(draft, PatchSubflow(draft, i, nth, SubflowId).source, typed, typed \cup {SubflowId})
    BY <1>2, SubflowKept, InvocationAssumption
  <1>4. QED  BY <1>1, <1>3, InvocationAssumption DEF Write, Apply, MayEdit, Edited, Written

LEMMA ConnectEdits == ASSUME EditsInv, Connect PROVE Edited
  <1>1. PICK from \in Shown, to \in Shown : Pick(ConnectStates(draft, from, to))
    BY DEF Connect
  <1>2. Kept(draft, ConnectStates(draft, from, to).source, typed, typed)
    BY ConnectKept DEF EditsInv, TypeOK
  <1>3. QED  BY <1>1, <1>2 DEF Pick, Apply, MayEdit, Edited

LEMMA DeleteSelectionEdits == ASSUME EditsInv, DeleteSelection PROVE Edited
  <1>1. PICK names \in SUBSET Shown : Pick(DeleteStates(draft, names))
    BY DEF DeleteSelection
  <1>2. Kept(draft, DeleteStates(draft, names).source, typed, typed)
    BY DeleteStatesKept DEF EditsInv, TypeOK
  <1>3. QED  BY <1>1, <1>2 DEF Pick, Apply, MayEdit, Edited

LEMMA RespeltIs ==
  ASSUME NEW d \in Document, NEW c \in Collections, NEW old \in DefNames, NEW new \in DefNames
  PROVE  Respelt(d, c, old, new) \subseteq Written
  <1>1. DefinitionReferences(d, c) \subseteq Labels
    BY DocumentIs, UsesAre DEF DefinitionReferences, Labels
  <1>2. \A x \in Labels : UseAfter(d, old, new, x) \in Labels \cup {None}
    BY WordsAssumption DEF UseAfter, Labels
  <1>3. QED  BY <1>1, <1>2 DEF Respelt, Labels, Written

LEMMA EditDefinitionsEdits == ASSUME EditsInv, EditDefinitions PROVE Edited
  <1> DEFINE Copy(c, i) == CopyName[draft.defs[c][i].name]
  <1>0. draft \in Document
    BY DEF EditsInv, TypeOK
  <1>1. PICK c \in Collections :
          \/ \E n \in DefNames : Pick(CreateDefinition(draft, c, n))
          \/ \E i \in Firsts(SeenDefs(draft, c)) :
               \/ /\ draft.defs[c][i].name \in DOMAIN CopyName /\ Copy(c, i) \in DefNames
                  /\ Pick(DuplicateDefinition(draft, c, i, Copy(c, i)))
               \/ \E n \in DefNames : Write(RenameDefinition(draft, c, i, n),
                                           Respelt(draft, c, draft.defs[c][i].name, n))
               \/ Pick(DeleteDefinition(draft, c, i))
               \/ Pick(MoveDefinition(draft, c, i, "up"))
    BY WrittenAssumption DEF EditDefinitions
  <1>2. ASSUME NEW n \in DefNames, Pick(CreateDefinition(draft, c, n)) PROVE Edited
    <2>1. Kept(draft, CreateDefinition(draft, c, n).source, typed, typed)
      BY <1>0, CreateDefinitionKept
    <2>2. QED  BY <1>2, <2>1 DEF Pick, Apply, MayEdit, Edited
  <1>3. ASSUME NEW i \in Firsts(SeenDefs(draft, c)),
               \/ /\ draft.defs[c][i].name \in DOMAIN CopyName /\ Copy(c, i) \in DefNames
                  /\ Pick(DuplicateDefinition(draft, c, i, Copy(c, i)))
               \/ \E n \in DefNames : Write(RenameDefinition(draft, c, i, n),
                                           Respelt(draft, c, draft.defs[c][i].name, n))
               \/ Pick(DeleteDefinition(draft, c, i))
               \/ Pick(MoveDefinition(draft, c, i, "up"))
        PROVE  Edited
    <2>1. i \in DOMAIN draft.defs[c]
      BY DEF Firsts, SeenDefs
    <2>2. CASE /\ draft.defs[c][i].name \in DOMAIN CopyName /\ Copy(c, i) \in DefNames
               /\ Pick(DuplicateDefinition(draft, c, i, Copy(c, i)))
      <3>1. Copy(c, i) # draft.defs[c][i].name
        BY <2>2, CopyAssumption
      <3> HIDE DEF Copy
      <3>2. Kept(draft, DuplicateDefinition(draft, c, i, Copy(c, i)).source, typed, typed)
        BY <1>0, <2>1, <2>2, <3>1, DuplicateDefinitionKept
      <3>3. QED  BY <2>2, <3>2 DEF Pick, Apply, MayEdit, Edited
    <2>3. ASSUME NEW n \in DefNames, Write(RenameDefinition(draft, c, i, n),
                                           Respelt(draft, c, draft.defs[c][i].name, n))
          PROVE  Edited
      <3> DEFINE old == draft.defs[c][i].name
                 names == Respelt(draft, c, old, n)
      <3>1. Kept(draft, RenameDefinition(draft, c, i, n).source, typed, typed \cup names)
        BY <1>0, <2>1, RenameDefinitionKept
      <3>2. old \in DefNames
        BY <1>0, <2>1, DocumentIs DEF Definition
      <3>3. names \subseteq Written
        BY <1>0, <3>2, RespeltIs
      <3>4. Write(RenameDefinition(draft, c, i, n), names)
        BY <2>3
      <3> HIDE DEF names
      <3>5. QED  BY <3>1, <3>3, <3>4 DEF Write, Apply, MayEdit, Edited
    <2>4. CASE Pick(DeleteDefinition(draft, c, i))
      <3>1. Kept(draft, DeleteDefinition(draft, c, i).source, typed, typed)
        BY <1>0, <2>1, DeleteDefinitionKept
      <3>2. QED  BY <2>4, <3>1 DEF Pick, Apply, MayEdit, Edited
    <2>5. CASE Pick(MoveDefinition(draft, c, i, "up"))
      <3>1. Kept(draft, MoveDefinition(draft, c, i, "up").source, typed, typed)
        BY <1>0, <2>1, MoveDefinitionKept
      <3>2. QED  BY <2>5, <3>1 DEF Pick, Apply, MayEdit, Edited
    <2>6. QED  BY <1>3, <2>2, <2>3, <2>4, <2>5
  <1>4. QED  BY <1>1, <1>2, <1>3

LEMMA EditAliasesEdits == ASSUME EditsInv, EditAliases PROVE Edited
  <1>0. draft \in Document
    BY DEF EditsInv, TypeOK
  <1>1. PICK a \in Aliases, f \in Definable :
          \/ Pick(AddAlias(draft, a, f))
          \/ Pick(PatchAlias(draft, a, f))
          \/ Pick(DeleteAlias(draft, a, FALSE))
          \/ Write(DeleteAlias(draft, a, TRUE), {a})
          \/ /\ draft.aliases[a] # None
             /\ \E i \in Firsts(SeenDefs(draft, "functions")) : Pick(SetFunctionAlias(draft, i, a))
    BY DEF EditAliases
  <1>2. /\ Kept(draft, AddAlias(draft, a, f).source, typed, typed)
        /\ Kept(draft, PatchAlias(draft, a, f).source, typed, typed)
    BY <1>0, WrittenAssumption, AddAliasKept
  <1>3. Kept(draft, DeleteAlias(draft, a, FALSE).source, typed, typed)
    BY <1>0, DeleteAliasKept
  <1>4. Kept(draft, DeleteAlias(draft, a, TRUE).source, typed, typed \cup {a})
    BY <1>0, DeleteAliasKept
  <1>5. draft.aliases[a] # None =>
          \A i : Kept(draft, SetFunctionAlias(draft, i, a).source, typed, typed)
    BY <1>0, FunctionAliasKept
  <1>6. CASE Write(DeleteAlias(draft, a, TRUE), {a})
    BY <1>4, <1>6 DEF Write, Apply, MayEdit, Edited, Written
  <1>7. CASE \/ Pick(AddAlias(draft, a, f))
             \/ Pick(PatchAlias(draft, a, f))
             \/ Pick(DeleteAlias(draft, a, FALSE))
             \/ /\ draft.aliases[a] # None
                /\ \E i \in Firsts(SeenDefs(draft, "functions")) : Pick(SetFunctionAlias(draft, i, a))
    BY <1>2, <1>3, <1>5, <1>7 DEF Pick, Apply, MayEdit, Edited
  <1>8. QED  BY <1>1, <1>6, <1>7

LEMMA EditStartEdits == ASSUME EditsInv, EditStart PROVE Edited
  <1>1. PICK n \in StateOptions : Pick(SetStart(draft, n))
    BY DEF EditStart
  <1>2. Kept(draft, SetStart(draft, n).source, typed, typed)
    BY SetStartKept DEF EditsInv, TypeOK, StateOptions
  <1>3. QED  BY <1>1, <1>2 DEF Pick, Apply, MayEdit, Edited

LEMMA TypeSourceEdits == ASSUME EditsInv, TypeSource PROVE Edited
  <1> DEFINE e == [draft EXCEPT !.parses = ~ draft.parses]
  <1>1. Pick(Patched(e))
    BY DEF TypeSource
  <1>2. Kept(draft, e, typed, typed)
    <2>1. draft \in Document /\ (~ draft.parses) \in BOOLEAN
      BY DEF EditsInv, TypeOK
    <2>2. QED  BY <2>1, ParsesKept
  <1> HIDE DEF e
  <1>3. Patched(e).source = e
    BY DEF Patched
  <1>4. QED  BY <1>1, <1>2, <1>3 DEF Pick, Apply, MayEdit, Edited

-----------------------------------------------------------------------------
(* The repairs: the diagnostic is of the saved document.                   *)
LEMMA FixDefaultEdits == ASSUME EditsInv, FixDefault PROVE Edited
  <1>1. PICK s \in Switches(saved) : Pick(MissingDefaultFix(draft, s.name))
    BY DEF FixDefault
  <1>2. Kept(draft, MissingDefaultFix(draft, s.name).source, typed, typed)
    BY DefaultFixKept DEF EditsInv, TypeOK
  <1>3. QED  BY <1>1, <1>2 DEF Pick, Apply, MayEdit, Edited

LEMMA FixDuplicateEdits == ASSUME EditsInv, FixDuplicate PROVE Edited
  <1>1. PICK n \in DuplicateNames(saved) : Pick(DuplicateStateFix(draft, n))
    BY DEF FixDuplicate
  <1>2. draft \in Document /\ Len(draft.states) <= MaxStates
    BY <1>1 DEF EditsInv, TypeOK, Pick, MayEdit
  <1>3. Kept(draft, DuplicateStateFix(draft, n).source, typed, typed)
    BY <1>2, DuplicateFixKept
  <1>4. QED  BY <1>1, <1>3 DEF Pick, Apply, MayEdit, Edited

LEMMA FixUnreachableEdits == ASSUME EditsInv, FixUnreachable PROVE Edited
  <1>1. PICK n \in NeverReached(saved) : Pick(UnreachableStateFix(draft, n))
    BY DEF FixUnreachable
  <1>2. Kept(draft, UnreachableStateFix(draft, n).source, typed, typed)
    BY UnreachableFixKept DEF EditsInv, TypeOK
  <1>3. QED  BY <1>1, <1>2 DEF Pick, Apply, MayEdit, Edited

LEMMA FixBranchEdits == ASSUME EditsInv, FixBranch PROVE Edited
  <1>1. PICK s \in Switches(saved), duplicate \in BOOLEAN :
          Pick(BranchFix(draft, s.name, duplicate))
    BY DEF FixBranch
  <1>2. Kept(draft, BranchFix(draft, s.name, duplicate).source, typed, typed)
    BY BranchFixKept DEF EditsInv, TypeOK
  <1>3. QED  BY <1>1, <1>2 DEF Pick, Apply, MayEdit, Edited

LEMMA FixReferenceEdits == ASSUME EditsInv, FixReference PROVE Edited
  <1>1. PICK n \in Dangling(saved) : Pick(BrokenReferenceFix(draft, n))
    BY DEF FixReference
  <1>2. n \in Names /\ draft \in Document
    BY ReferencesAre DEF EditsInv, TypeOK, Dangling
  <1>3. Kept(draft, BrokenReferenceFix(draft, n).source, typed, typed)
    BY <1>2, ReferenceFixKept
  <1>4. QED  BY <1>1, <1>3 DEF Pick, Apply, MayEdit, Edited

-----------------------------------------------------------------------------
LEMMA ExtractKeeps ==
  ASSUME EditsInv, Extract
  PROVE  EditsInv' /\ (UniquelyNamed(draft) => UniquelyNamed(draft'))
  <1>1. PICK names \in Selections(Shown) :
          LET result == ExtractStates(draft, names)
          IN /\ MayEdit
             /\ ~ result.error
             /\ draft' = result.workflow
             /\ saved' = result.workflow
             /\ subflow' = result.subflow
             /\ edits' = edits + 1
             /\ UNCHANGED typed
    BY DEF Extract
  <1>2. /\ MayEdit /\ ~ Refusal(draft, names)
        /\ draft' = Caller(draft, names) /\ saved' = Caller(draft, names)
        /\ subflow' = Extracted(draft, names) /\ edits' = edits + 1 /\ typed' = typed
    BY <1>1 DEF ExtractStates
  <1>3. draft \in Document /\ Len(draft.states) <= MaxStates
    BY <1>2 DEF EditsInv, TypeOK, MayEdit
  <1>4. /\ Caller(draft, names) \in Document
        /\ UniquelyNamed(draft) => UniquelyNamed(Caller(draft, names))
        /\ Extracted(draft, names) \in Document
    BY <1>2, <1>3, CallerIs, ExtractedIs
  <1>5. subflow' # None
    BY <1>2, <1>4, DocumentAssumption
  <1>6. TypeOK'
    BY <1>2, <1>4 DEF EditsInv, TypeOK
  <1>7. QED  BY <1>2, <1>4, <1>5, <1>6 DEF EditsInv

LEMMA NextIs ==
  ASSUME EditsInv, Next
  PROVE  Edited \/ Extract \/ Save
  <1>1. CASE \/ Create \/ Duplicate \/ Rename \/ Delete \/ Move \/ Edit \/ WriteField \/ CallSubflow
    BY <1>1, CreateEdits, DuplicateEdits, RenameEdits, DeleteEdits, MoveEdits, EditEdits,
       WriteFieldEdits, CallSubflowEdits
  <1>2. CASE \/ Connect \/ DeleteSelection \/ EditDefinitions \/ EditAliases \/ EditStart \/ TypeSource
    BY <1>2, ConnectEdits, DeleteSelectionEdits, EditDefinitionsEdits, EditAliasesEdits,
       EditStartEdits, TypeSourceEdits
  <1>3. CASE \/ FixDefault \/ FixDuplicate \/ FixUnreachable \/ FixBranch \/ FixReference
    BY <1>3, FixDefaultEdits, FixDuplicateEdits, FixUnreachableEdits, FixBranchEdits,
       FixReferenceEdits
  <1>4. QED  BY <1>1, <1>2, <1>3 DEF Next

LEMMA NextEdits ==
  ASSUME EditsInv, [Next]_vars
  PROVE  EditsInv' /\ (UniquelyNamed(draft) => UniquelyNamed(draft'))
  <1>1. CASE Edited
    BY <1>1, EditedKeeps DEF Edited, Kept
  <1>2. CASE Extract
    BY <1>2, ExtractKeeps
  <1>3. CASE Save
    <2>1. draft' = draft /\ saved' = draft /\ subflow' = subflow /\ typed' = typed /\ edits' = edits
      BY <1>3 DEF Save
    <2>2. QED  BY <2>1 DEF EditsInv, TypeOK
  <1>4. CASE UNCHANGED vars
    BY <1>4 DEF vars, EditsInv, TypeOK
  <1>5. QED  BY <1>1, <1>2, <1>3, <1>4, NextIs

THEOREM EditsInvariant == Spec => []EditsInv
  <1>1. Init => EditsInv
    BY InitEdits
  <1>2. EditsInv /\ [Next]_vars => EditsInv'
    BY NextEdits
  <1>3. QED  BY <1>1, <1>2, PTL DEF Spec

(* The variables hold documents and the sets of names that were written.   *)
THEOREM TypeCorrect == Spec => []TypeOK
  <1>1. EditsInv => TypeOK
    BY DEF EditsInv
  <1>2. QED  BY <1>1, EditsInvariant, PTL

(* No operation, repair or extraction gives two states, or two definitions *)
(* of a collection, one name.                                              *)
THEOREM NamesAreKeptUnique == Spec => NamesStayUnique
  <1>1. EditsInv /\ [Next]_vars => [UniquelyNamed(draft) => UniquelyNamed(draft')]_vars
    BY NextEdits
  <1>2. QED  BY <1>1, EditsInvariant, PTL DEF Spec, NamesStayUnique

(* Whatever the order of renames, deletions and repairs, what the editors  *)
(* can see names something that exists, unless the user wrote it or        *)
(* accepted the deletion.                                                  *)
THEOREM NothingSeenDangles == Spec => []NothingVisibleDangles
  <1>1. EditsInv => NothingVisibleDangles
    BY SoundIs DEF EditsInv, NothingVisibleDangles, DefinedIn
  <1>2. QED  BY <1>1, EditsInvariant, PTL

-----------------------------------------------------------------------------
(* The branches a repair removes: a run of them, each of which has a       *)
(* branch before the run that holds whenever it does.                      *)
LEMMA RunIs ==
  ASSUME NEW at \in Nat, NEW n \in Nat
  PROVE  Cardinality(at .. at + n - 1) = n
  <1>1. at \in Int /\ at + n - 1 \in Int
    OBVIOUS
  <1> DEFINE last == at + n - 1
  <1>2. Cardinality(at .. last) = IF at <= last THEN last - at + 1 ELSE 0
    <2>1. last \in Int
      OBVIOUS
    <2> HIDE DEF last
    <2>2. QED  BY <2>1, FS_Interval
  <1>3. QED  BY <1>2

Covered(b, cut, H) ==
  \A k \in cut : b[k].label \in H => \E l \in DOMAIN b : b[l].label \in H /\ \A j \in cut : l < j

(* Where branches lead when the conditions of H hold.                      *)
Open(b, H) == {k \in DOMAIN b : b[k].label \in H}

Leads(b, default, H) ==
  IF Open(b, H) = {} THEN default
  ELSE b[CHOOSE k \in Open(b, H) : \A l \in Open(b, H) : k <= l].to

LEMMA ChoiceIs ==
  ASSUME NEW s, NEW holding
  PROVE  Choice(s, holding) = Leads(s.conditions, s.default, holding \cup {"true"})
  BY DEF Choice, Leads, Open

LEMMA LeadsIs ==
  ASSUME NEW b, NEW default, NEW H, Open(b, H) \subseteq Int,
         NEW m \in Open(b, H), \A l \in Open(b, H) : m <= l
  PROVE  Leads(b, default, H) = b[m].to
  <1> DEFINE c == CHOOSE k \in Open(b, H) : \A l \in Open(b, H) : k <= l
  <1>1. c \in Open(b, H) /\ \A l \in Open(b, H) : c <= l
    OBVIOUS
  <1>2. c \in Int /\ m \in Int /\ c <= m /\ m <= c
    BY <1>1
  <1>3. c = m
    BY <1>2
  <1>4. QED  BY <1>3 DEF Leads

LEMMA WithoutRunIs ==
  ASSUME NEW b \in Seq(Branch), NEW at \in Nat, NEW n \in Nat, n >= 1,
         at .. at + n - 1 \subseteq DOMAIN b
  PROVE  WithoutSpan(b, at .. at + n - 1) =
           [k \in 1 .. Len(b) - n |-> IF k < at THEN b[k] ELSE b[k + n]]
  <1> DEFINE cut == at .. at + n - 1
             first == CHOOSE k \in cut : \A l \in cut : k <= l
  <1>1. at \in cut /\ \A l \in cut : at <= l
    OBVIOUS
  <1>2. cut \subseteq Int /\ Cardinality(cut) = n
    BY RunIs
  <1> HIDE DEF cut
  <1>3. first \in cut /\ \A l \in cut : first <= l
    BY <1>1
  <1>4. first = at
    <2>1. first \in Int /\ at \in Int /\ first <= at /\ at <= first
      BY <1>1, <1>2, <1>3
    <2> HIDE DEF first
    <2>2. QED  BY <2>1
  <1> HIDE DEF first
  <1>5. WithoutSpan(b, cut) =
          [k \in 1 .. Len(b) - Cardinality(cut) |-> IF k < first THEN b[k] ELSE b[k + Cardinality(cut)]]
    BY DEF WithoutSpan, first
  <1>6. QED  BY <1>2, <1>4, <1>5 DEF cut

(* A repeated branch has an equal one before it; what follows an           *)
(* unconditional branch has that one.                                      *)
IsRun(b, cut) ==
  \E at \in Nat, n \in Nat : /\ n >= 1 /\ cut = at .. at + n - 1 /\ cut \subseteq DOMAIN b
                             /\ \A holding : Covered(b, cut, holding \cup {"true"})

LEMMA RunChoice ==
  ASSUME NEW b \in Seq(Branch), NEW cut, IsRun(b, cut), NEW holding, NEW default
  PROVE  Leads(WithoutSpan(b, cut), default, holding \cup {"true"})
           = Leads(b, default, holding \cup {"true"})
  <1> DEFINE H == holding \cup {"true"}
  <1>0. PICK at \in Nat, n \in Nat :
          /\ n >= 1 /\ cut = at .. at + n - 1 /\ cut \subseteq DOMAIN b
          /\ Covered(b, cut, H)
    BY DEF IsRun
  <1> HIDE DEF H
  <1> DEFINE c == WithoutSpan(b, cut)
             Old(k) == IF k < at THEN k ELSE k + n
             New(k) == IF k < at THEN k ELSE k - n
  <1> SUFFICES Leads(c, default, H) = Leads(b, default, H)
    BY DEF H
  <1>1. Len(b) \in Nat /\ DOMAIN b = 1 .. Len(b)
    BY LenProperties
  <1>2. at \in 1 .. Len(b) /\ at + n - 1 \in 1 .. Len(b)
    <2>1. at \in at .. at + n - 1 /\ at + n - 1 \in at .. at + n - 1
      BY <1>0
    <2>2. QED  BY <1>0, <1>1, <2>1
  <1>3. DOMAIN c = 1 .. Len(b) - n /\ \A k \in 1 .. Len(b) - n : c[k] = b[Old(k)]
    <2>1. c = [k \in 1 .. Len(b) - n |-> IF k < at THEN b[k] ELSE b[k + n]]
      BY <1>0, WithoutRunIs
    <2> HIDE DEF c
    <2>2. QED  BY <2>1
  <1> HIDE DEF c
  <1>4. \A k \in 1 .. Len(b) - n : Old(k) \in DOMAIN b /\ Old(k) \notin cut
    BY <1>0, <1>1, <1>2
  <1>5. \A k \in DOMAIN b : k \notin cut =>
          New(k) \in 1 .. Len(b) - n /\ Old(New(k)) = k
    BY <1>0, <1>1, <1>2
  <1>6. \A j, k \in 1 .. Len(b) - n : Old(j) <= Old(k) => j <= k
    BY <1>0, <1>1, <1>2
  <1> HIDE DEF Old, New
  <1>7. \A k \in Open(c, H) : Old(k) \in Open(b, H)
    BY <1>3, <1>4 DEF Open
  <1>8. Open(b, H) \subseteq Nat /\ Open(c, H) \subseteq Int
    BY <1>1, <1>3 DEF Open
  <1>9. CASE Open(b, H) = {}
    <2>1. Open(c, H) = {}
      BY <1>7, <1>9
    <2>2. QED  BY <1>9, <2>1 DEF Leads
  <1>10. CASE Open(b, H) # {}
    <2>1. PICK m \in Open(b, H) : \A l \in Open(b, H) : m <= l
      BY <1>8, <1>10, LeastNat
    <2>2. m \in DOMAIN b /\ b[m].label \in H /\ m \in Nat
      BY <1>8 DEF Open
    <2>3. m \notin cut
      <3> SUFFICES ASSUME m \in cut PROVE FALSE
        OBVIOUS
      <3>1. PICK l \in DOMAIN b : b[l].label \in H /\ \A j \in cut : l < j
        BY <1>0, <2>2 DEF Covered
      <3>2. l \in Open(b, H) /\ l < m
        BY <3>1 DEF Open
      <3>3. m <= l /\ l \in Nat
        BY <1>8, <2>1, <3>2
      <3>4. QED  BY <2>2, <3>2, <3>3
    <2>4. New(m) \in 1 .. Len(b) - n /\ Old(New(m)) = m
      BY <1>5, <2>2, <2>3
    <2>5. New(m) \in Open(c, H) /\ c[New(m)] = b[m]
      BY <1>3, <2>2, <2>4 DEF Open
    <2>6. ASSUME NEW k \in Open(c, H) PROVE New(m) <= k
      <3>1. k \in 1 .. Len(b) - n /\ Old(k) \in Open(b, H)
        BY <1>3, <1>7 DEF Open
      <3>2. Old(New(m)) <= Old(k)
        BY <2>1, <2>4, <3>1
      <3>3. QED  BY <1>6, <2>4, <3>1, <3>2
    <2>7. Leads(b, default, H) = b[m].to
      BY <1>8, <2>1, LeadsIs
    <2>8. Leads(c, default, H) = c[New(m)].to
      BY <1>8, <2>5, <2>6, LeadsIs
    <2>9. QED  BY <2>5, <2>7, <2>8
  <1>11. QED  BY <1>9, <1>10

LEMMA RunAt ==
  ASSUME NEW b, NEW at \in Nat, NEW n \in Nat, n >= 1, NEW cut, cut = at .. at + n - 1,
         cut \subseteq DOMAIN b, \A holding : Covered(b, cut, holding \cup {"true"})
  PROVE  IsRun(b, cut)
  BY DEF IsRun

(* When every branch is seen, the one at k has none below it that is not.  *)
LEMMA BelowIs ==
  ASSUME NEW d, NEW b \in Seq(Branch), Seen(d, b) = DOMAIN b, NEW k \in DOMAIN b
  PROVE  Below(d, b, k) = {k}
  <1>1. DOMAIN b \subseteq Nat
    BY LenProperties
  <1>2. \A l \in Below(d, b, k) : l \in DOMAIN b /\ k <= l /\ l <= k
    BY <1>1 DEF Below
  <1>3. \A l \in Below(d, b, k) : l = k
    BY <1>1, <1>2
  <1>4. k \in Below(d, b, k)
    BY <1>1 DEF Below
  <1>5. QED  BY <1>3, <1>4

Apart(d, b) ==
  /\ Seen(d, b) = DOMAIN b
  /\ \A k, l \in DOMAIN b :
       OnItsLine(d, b[k]) = OnItsLine(d, b[l]) => b[k].label = b[l].label

LEMMA RepeatedRun ==
  ASSUME NEW d, NEW b \in Seq(Branch), Apart(d, b), Repeated(d, b) # {}
  PROVE  IsRun(b, Repeated(d, b))
  <1> DEFINE again == {k \in Seen(d, b) : \E l \in Seen(d, b) :
                         l < k /\ OnItsLine(d, b[l]) = OnItsLine(d, b[k])}
             at == First(again)
  <1>1. Len(b) \in Nat /\ DOMAIN b = 1 .. Len(b) /\ Seen(d, b) = DOMAIN b
    BY LenProperties DEF Apart
  <1>2. again # {} /\ Repeated(d, b) = Below(d, b, at)
    BY DEF Repeated
  <1>3. at \in again
    <2>1. again \in SUBSET Nat
      BY <1>1
    <2> HIDE DEF again
    <2>2. QED  BY <1>2, <2>1, FirstIs
  <1>4. at \in DOMAIN b /\ at \in Nat
    BY <1>1, <1>3
  <1>5. PICK l \in DOMAIN b : l < at /\ b[l].label = b[at].label
    BY <1>1, <1>3 DEF Apart
  <1> HIDE DEF at
  <1>6. Repeated(d, b) = {at}
    BY <1>1, <1>2, <1>4, BelowIs
  <1>7. {at} = at .. at + 1 - 1
    BY <1>4
  <1>8. \A holding : Covered(b, {at}, holding \cup {"true"})
    BY <1>5 DEF Covered
  <1>9. {at} \subseteq DOMAIN b /\ 1 \in Nat /\ 1 >= 1
    BY <1>4
  <1>10. IsRun(b, {at})
    BY <1>4, <1>7, <1>8, <1>9, RunAt
  <1>11. QED  BY <1>6, <1>10

LEMMA TailIs ==
  ASSUME NEW len \in Nat, NEW at \in 1 .. len
  PROVE  {k \in 1 .. len : at <= k} = at .. at + (len - at + 1) - 1
  OBVIOUS

LEMMA ShadowedRun ==
  ASSUME NEW d, NEW b \in Seq(Branch), Apart(d, b), Shadowed(d, b) # {}
  PROVE  IsRun(b, Shadowed(d, b))
  <1> DEFINE always == {k \in Seen(d, b) : OnItsLine(d, b[k]) = "true"}
             first == First(always)
             after == {k \in Seen(d, b) : first < k}
             at == First(after)
  <1>1. Len(b) \in Nat /\ DOMAIN b = 1 .. Len(b) /\ Seen(d, b) = DOMAIN b
    BY LenProperties DEF Apart
  <1>2. /\ always # {} /\ after # {}
        /\ Shadowed(d, b) = IF d.format = "yaml" THEN {k \in DOMAIN b : at <= k} ELSE {at}
    BY DEF Shadowed
  <1>3. first \in always
    <2>1. always \in SUBSET Nat
      BY <1>1
    <2> HIDE DEF always
    <2>2. QED  BY <1>2, <2>1, FirstIs
  <1>4. first \in 1 .. Len(b) /\ b[first].label = "true"
    <2>1. first \in 1 .. Len(b) /\ OnItsLine(d, b[first]) = "true"
      BY <1>1, <1>3
    <2>2. QED  BY <2>1, NoneAssumption DEF OnItsLine, Labels
  <1> HIDE DEF first
  <1>5. at \in after
    <2>1. after \in SUBSET Nat
      BY <1>1
    <2> HIDE DEF after
    <2>2. QED  BY <1>2, <2>1, FirstIs
  <1>6. at \in 1 .. Len(b) /\ first < at
    BY <1>1, <1>5
  <1> HIDE DEF at
  <1> DEFINE n == IF d.format = "yaml" THEN Len(b) - at + 1 ELSE 1
  <1>7. n \in Nat /\ n >= 1 /\ Shadowed(d, b) = at .. at + n - 1
    <2>1. CASE d.format = "yaml"
      <3>1. n = Len(b) - at + 1
        BY <2>1
      <3>2. {k \in 1 .. Len(b) : at <= k} = at .. at + (Len(b) - at + 1) - 1
        BY <1>1, <1>6, TailIs
      <3>3. QED  BY <1>1, <1>2, <1>6, <2>1, <3>1, <3>2
    <2>2. CASE d.format # "yaml"
      BY <1>2, <1>6, <2>2
    <2>3. QED  BY <2>1, <2>2
  <1> HIDE DEF n
  <1>8. at \in Nat /\ Shadowed(d, b) \subseteq DOMAIN b
    BY <1>6, CutWithin
  <1>9. \A k \in Shadowed(d, b) : first < k
    BY <1>1, <1>4, <1>6, <1>7
  <1>10. \A holding : Covered(b, Shadowed(d, b), holding \cup {"true"})
    BY <1>1, <1>4, <1>9 DEF Covered
  <1>11. QED  BY <1>7, <1>8, <1>10, RunAt

LEMMA BranchFixChoice ==
  ASSUME NEW d \in Document, NEW name, NEW duplicate \in BOOLEAN, NEW j \in DOMAIN d.states, NEW holding,
         NEW fixed, fixed = BranchFix(d, name, duplicate), ~ fixed.error,
         ToldApart(d, d.states[j])
  PROVE  Choice(fixed.source.states[j], holding) = Choice(d.states[j], holding)
  <1> DEFINE i == IndexOf(StatesOf(d), name)
             old == d.states[i].conditions
             cut == IF duplicate THEN Repeated(d, old) ELSE Shadowed(d, old)
             s == [d.states[i] EXCEPT !.conditions = WithoutSpan(old, cut)]
             H == holding \cup {"true"}
  <1>1. /\ i # 0 /\ cut # {}
        /\ fixed.source = [d EXCEPT !.states[i] = s]
    BY DEF BranchFix, Refused, Patched
  <1>2. i \in DOMAIN d.states
    BY <1>1, FoundIs
  <1> HIDE DEF i
  <1>3. d.states[i] \in State /\ old \in Seq(Branch)
    BY <1>2, DocumentIs DEF State
  <1>4. s.conditions = WithoutSpan(old, cut) /\ s.default = d.states[i].default
    BY <1>3 DEF State
  <1> HIDE DEF s
  <1>5. ASSUME j = i PROVE Choice(s, holding) = Choice(d.states[i], holding)
    <2>1. Apart(d, old)
      BY <1>5 DEF ToldApart, Apart
    <2>2. IsRun(old, cut)
      <3> HIDE DEF old
      <3>1. QED  BY <1>1, <1>3, <2>1, RepeatedRun, ShadowedRun
    <2> HIDE DEF cut
    <2>3. \A default : Leads(WithoutSpan(old, cut), default, H) = Leads(old, default, H)
      <3> HIDE DEF old
      <3>1. QED  BY <1>3, <2>2, RunChoice
    <2>4. QED  BY <1>4, <2>3, ChoiceIs
  <1>6. fixed.source.states[j] = IF j = i THEN s ELSE d.states[j]
    <2>1. d.states \in Seq(State)
      BY DocumentIs
    <2>2. fixed.source.states = [d.states EXCEPT ![i] = s]
      BY <1>1 DEF Document
    <2>3. QED  BY <1>2, <2>1, <2>2
  <1>7. QED  BY <1>5, <1>6

(* Removing a duplicate or unreachable branch changes no choice of any     *)
(* switch whose conditions can be told apart by their lines, although the  *)
(* diagnostic is of the saved text.                                        *)
THEOREM BranchFixKeepsChoices == Spec => BranchFixKeepsTheChoice
  <1> DEFINE Same == FixBranch =>
               \A i \in DOMAIN draft.states : ToldApart(draft, draft.states[i]) => SameChoice(i)
  <1>1. EditsInv => [Same]_vars
    <2> SUFFICES ASSUME EditsInv, FixBranch, NEW i \in DOMAIN draft.states,
                        ToldApart(draft, draft.states[i]), NEW holding
                 PROVE  Choice(draft.states[i], holding) = Choice(draft'.states[i], holding)
      BY DEF SameChoice
    <2>1. PICK s \in Switches(saved), duplicate \in BOOLEAN :
            Pick(BranchFix(draft, s.name, duplicate))
      BY DEF FixBranch
    <2>2. /\ ~ BranchFix(draft, s.name, duplicate).error
          /\ draft' = BranchFix(draft, s.name, duplicate).source
      BY <2>1 DEF Pick, Apply
    <2>3. draft \in Document
      BY DEF EditsInv, TypeOK
    <2> DEFINE fixed == BranchFix(draft, s.name, duplicate)
    <2>4. ~ fixed.error /\ draft' = fixed.source
      BY <2>2
    <2>5. \A e : e = BranchFix(draft, s.name, duplicate) /\ ~ e.error
             => Choice(e.source.states[i], holding) = Choice(draft.states[i], holding)
      BY <2>3, BranchFixChoice
    <2> HIDE DEF fixed
    <2>6. QED  BY <2>4, <2>5 DEF fixed
  <1>2. QED  BY <1>1, EditsInvariant, PTL DEF BranchFixKeepsTheChoice

-----------------------------------------------------------------------------
(* The edges of the graph, one by one.                                     *)
Leaves(s, transition, f) ==
  \/ transition # None /\ f = Edge(s.name, transition, "transition")
  \/ \E k \in DOMAIN s.conditions :
       s.conditions[k].to # None /\ f = Edge(s.name, s.conditions[k].to, "conditional")
  \/ s.default # None /\ f = Edge(s.name, s.default, "default")
  \/ \E k \in DOMAIN s.errors :
       s.errors[k].to # None /\ f = Edge(s.name, s.errors[k].to, "error")
  \/ s.end /\ f = Edge(s.name, EndNode, "terminal")

LEMMA EdgesFromIs ==
  ASSUME NEW s, NEW transition, NEW f
  PROVE  f \in EdgesFrom(s, transition) <=> Leaves(s, transition, f)
  BY DEF EdgesFrom, Leaves, BranchTargets

LEMMA RealEdgesAre ==
  ASSUME NEW d, NEW f
  PROVE  f \in RealEdges(d) <=>
           \/ d.start # None /\ f = Edge(StartNode, d.start, "start")
           \/ \E i \in DOMAIN d.states : f \in EdgesFrom(d.states[i], d.states[i].transition)
  <1> DEFINE Out(i) == EdgesFrom(d.states[i], d.states[i].transition)
  <1>1. RealEdges(d) = (IF d.start = None THEN {} ELSE {Edge(StartNode, d.start, "start")})
                         \cup UNION {Out(i) : i \in DOMAIN d.states}
    BY DEF RealEdges
  <1> HIDE DEF Out
  <1>2. f \in UNION {Out(i) : i \in DOMAIN d.states} <=> \E i \in DOMAIN d.states : f \in Out(i)
    OBVIOUS
  <1>3. QED  BY <1>1, <1>2 DEF Out

(* No state is called End, so every edge is drawn to the node it names.    *)
Drawn(e) == Edge(e.from, NodeOf(e.to), e.kind)

LEMMA DrawnIs ==
  ASSUME NEW s \in State, NEW transition \in Names \cup {None}, "End" \notin Names,
         NEW f \in EdgesFrom(s, transition)
  PROVE  Drawn(f) = f
  <1>1. /\ s.conditions \in Seq(Branch) /\ s.errors \in Seq(Branch)
        /\ s.default \in Names \cup {None}
    BY DEF State
  <1>2. /\ \A k \in DOMAIN s.conditions : s.conditions[k].to \in Names
        /\ \A k \in DOMAIN s.errors : s.errors[k].to \in Names
    <2>1. /\ \A k \in DOMAIN s.conditions : s.conditions[k] \in Branch
          /\ \A k \in DOMAIN s.errors : s.errors[k] \in Branch
      BY <1>1, LenProperties, ElementOfSeq
    <2>2. QED  BY <2>1 DEF Branch
  <1>3. \A name, to, kind : to \in Names \cup {EndNode} =>
          Drawn(Edge(name, to, kind)) = Edge(name, to, kind)
    BY DEF Drawn, Edge, NodeOf
  <1>4. \E name, kind : \E to \in Names \cup {EndNode} : f = Edge(name, to, kind)
    <2>1. Leaves(s, transition, f)
      BY EdgesFromIs
    <2>2. QED  BY <1>1, <1>2, <2>1 DEF Leaves
  <1>5. QED  BY <1>3, <1>4

LEMMA ShownEdgesAre ==
  ASSUME NEW d, NEW e, "End" \notin Names,
         \A i \in DOMAIN ShownStates(d, e) :
           /\ ShownStates(d, e)[i] \in State
           /\ ShownTransition(d, ShownStates(d, e)[i]) \in Names \cup {None},
         NEW f
  PROVE  f \in Edges(d, e) <=>
           \/ ShownStart(d, e) # None /\ f = Edge(StartNode, ShownStart(d, e), "start")
           \/ \E i \in DOMAIN ShownStates(d, e) :
                f \in EdgesFrom(ShownStates(d, e)[i], ShownTransition(d, ShownStates(d, e)[i]))
  <1> DEFINE shown == ShownStates(d, e)
             start == ShownStart(d, e)
             Out(i) == EdgesFrom(shown[i], ShownTransition(d, shown[i]))
             all == UNION {Out(i) : i \in DOMAIN shown}
  <1>1. Edges(d, e) = (IF start = None THEN {} ELSE {Edge(StartNode, start, "start")})
                        \cup {Drawn(g) : g \in all}
    BY DEF Edges, Drawn
  <1>2. \A i \in DOMAIN shown : \A g \in Out(i) : Drawn(g) = g
    BY DrawnIs
  <1> HIDE DEF Out, start
  <1>3. \A g : g \in all <=> \E i \in DOMAIN shown : g \in Out(i)
    OBVIOUS
  <1>4. \A g \in all : Drawn(g) = g
    BY <1>2, <1>3
  <1> HIDE DEF all
  <1>5. {Drawn(g) : g \in all} = all
    BY <1>4
  <1>6. f \in Edges(d, e) <=> (start # None /\ f = Edge(StartNode, start, "start")) \/ f \in all
    BY <1>1, <1>5
  <1>7. QED  BY <1>3, <1>6 DEF Out, start

(* The last state of a name.                                               *)
LEMMA LastIs ==
  ASSUME NEW S, NEW seq \in Seq(S), NEW k \in DOMAIN seq
  PROVE  /\ Last(seq, seq[k].name) \in DOMAIN seq
         /\ seq[Last(seq, seq[k].name)].name = seq[k].name
  <1> DEFINE name == seq[k].name
             T == {n \in 0 .. Len(seq) : Len(seq) - n \in DOMAIN seq /\ seq[Len(seq) - n].name = name}
  <1>1. Len(seq) \in Nat /\ DOMAIN seq = 1 .. Len(seq)
    BY LenProperties
  <1>2. Len(seq) - k \in T
    BY <1>1
  <1>3. PICK m \in T : \A n \in T : m <= n
    <2>1. T \subseteq Nat /\ T # {}
      BY <1>1, <1>2
    <2> HIDE DEF T
    <2>2. QED  BY <2>1, LeastNat
  <1> DEFINE last == Len(seq) - m
  <1>4. m \in Nat /\ last \in DOMAIN seq /\ seq[last].name = name
    BY <1>3
  <1>5. \A j \in last + 1 .. Len(seq) : seq[j].name # name
    <2> SUFFICES ASSUME NEW j \in last + 1 .. Len(seq), seq[j].name = name PROVE FALSE
      OBVIOUS
    <2>1. /\ j \in Int /\ j >= 1 /\ j <= Len(seq) /\ Len(seq) - j \in 0 .. Len(seq)
          /\ Len(seq) - j < m /\ Len(seq) - (Len(seq) - j) = j
      BY <1>1, <1>4
    <2>2. Len(seq) - j \in T
      BY <1>1, <2>1
    <2>3. QED  BY <1>3, <1>4, <2>1, <2>2
  <1> HIDE DEF last, T
  <1>6. \E i \in DOMAIN seq : seq[i].name = name /\ \A j \in i + 1 .. Len(seq) : seq[j].name # name
    BY <1>4, <1>5
  <1>7. QED  BY <1>6 DEF Last

LEMMA LastUnique ==
  ASSUME NEW S, NEW seq \in Seq(S), NEW k \in DOMAIN seq, UniqueNames(seq)
  PROVE  Last(seq, seq[k].name) = k
  BY LastIs DEF UniqueNames

(* The states the graph is drawn from are those of the draft, of the saved *)
(* text, or of both.                                                       *)
LEMMA ProjectedIs ==
  ASSUME NEW s \in State, NEW e \in Document, NEW p, p = Projected(s, e)
  PROVE  /\ p \in State /\ p.name = s.name /\ p.transition = s.transition /\ p.end = s.end
  <1> DEFINE from == IF \E i \in DOMAIN e.states : e.states[i].name = s.name
                     THEN e.states[Last(e.states, s.name)] ELSE NewState(s.name, s.type)
  <1>1. from \in State /\ from.name = s.name
    <2>1. ASSUME NEW i \in DOMAIN e.states, e.states[i].name = s.name
          PROVE  /\ e.states[Last(e.states, s.name)] \in State
                 /\ e.states[Last(e.states, s.name)].name = s.name
      <3>1. e.states \in Seq(State) /\ \A j \in DOMAIN e.states : e.states[j] \in State
        BY DocumentIs
      <3>2. Last(e.states, e.states[i].name) \in DOMAIN e.states
            /\ e.states[Last(e.states, e.states[i].name)].name = e.states[i].name
        BY <3>1, LastIs
      <3>3. QED  BY <2>1, <3>1, <3>2
    <2>2. NewState(s.name, s.type) \in State /\ NewState(s.name, s.type).name = s.name
      <3>1. << >> \in Seq(Branch) /\ << >> \in Seq(Call)
        OBVIOUS
      <3>2. s.name \in Names /\ s.type \in Types
        BY DEF State
      <3>3. QED  BY <3>1, <3>2 DEF NewState, State
    <2>3. QED  BY <2>1, <2>2
  <1>2. p = [from EXCEPT !.type = s.type, !.transition = s.transition, !.end = s.end]
    BY DEF Projected
  <1> HIDE DEF from
  <1>3. QED  BY <1>1, <1>2 DEF State

LEMMA ProjectedSame ==
  ASSUME NEW e \in Document, UniqueNames(e.states), NEW i \in DOMAIN e.states
  PROVE  Projected(e.states[i], e) = e.states[i]
  <1> DEFINE s == e.states[i]
  <1>1. s \in State /\ e.states \in Seq(State)
    BY DocumentIs
  <1>2. Last(e.states, s.name) = i
    BY <1>1, LastUnique
  <1>3. Projected(s, e) = [s EXCEPT !.type = s.type, !.transition = s.transition, !.end = s.end]
    BY <1>2 DEF Projected
  <1> HIDE DEF s
  <1>4. Projected(s, e) = s
    BY <1>1, <1>3 DEF State
  <1>5. QED  BY <1>4 DEF s

(* A graph drawn from the states of a text has the edges of the text.      *)
LEMMA SameEdges ==
  ASSUME NEW d, NEW e, NEW text \in Document, "End" \notin Names,
         ShownStart(d, e) = text.start, DOMAIN ShownStates(d, e) = DOMAIN text.states,
         \A i \in DOMAIN text.states : /\ ShownStates(d, e)[i] = text.states[i]
                                       /\ ShownTransition(d, text.states[i]) = text.states[i].transition
  PROVE  Edges(d, e) = RealEdges(text)
  <1>1. \A i \in DOMAIN text.states : /\ text.states[i] \in State
                                      /\ text.states[i].transition \in Names \cup {None}
    BY DocumentIs DEF State
  <1>2. \A i \in DOMAIN ShownStates(d, e) :
           /\ ShownStates(d, e)[i] \in State
           /\ ShownTransition(d, ShownStates(d, e)[i]) \in Names \cup {None}
    BY <1>1
  <1>3. ASSUME NEW f PROVE f \in Edges(d, e) <=> f \in RealEdges(text)
    <2>1. f \in Edges(d, e) <=>
           \/ ShownStart(d, e) # None /\ f = Edge(StartNode, ShownStart(d, e), "start")
           \/ \E i \in DOMAIN ShownStates(d, e) :
                f \in EdgesFrom(ShownStates(d, e)[i], ShownTransition(d, ShownStates(d, e)[i]))
      BY <1>2, ShownEdgesAre
    <2>2. QED  BY <2>1, RealEdgesAre
  <1>4. QED  BY <1>3

(* The direct edges are those of the name, the transition and the end.     *)
LEMMA DirectOut ==
  ASSUME NEW s, NEW t, s.name = t.name, s.end = t.end, NEW transition, NEW f,
         f.kind \in {"start", "transition", "terminal"}
  PROVE  f \in EdgesFrom(s, transition) <=> f \in EdgesFrom(t, transition)
  <1>1. ASSUME NEW u, Leaves(u, transition, f)
        PROVE  \/ transition # None /\ f = Edge(u.name, transition, "transition")
               \/ u.end /\ f = Edge(u.name, EndNode, "terminal")
    BY <1>1 DEF Leaves, Edge
  <1>2. QED  BY <1>1, EdgesFromIs DEF Leaves

LEMMA DirectEdges ==
  ASSUME NEW d, NEW e, NEW text \in Document, "End" \notin Names,
         ShownStart(d, e) = text.start, DOMAIN ShownStates(d, e) = DOMAIN text.states,
         \A i \in DOMAIN text.states :
           /\ ShownStates(d, e)[i] \in State
           /\ ShownStates(d, e)[i].name = text.states[i].name
           /\ ShownStates(d, e)[i].end = text.states[i].end
           /\ ShownTransition(d, ShownStates(d, e)[i]) = text.states[i].transition
  PROVE  Direct(Edges(d, e)) = Direct(RealEdges(text))
  <1>1. \A i \in DOMAIN text.states : text.states[i].transition \in Names \cup {None}
    BY DocumentIs DEF State
  <1>2. \A i \in DOMAIN ShownStates(d, e) :
           /\ ShownStates(d, e)[i] \in State
           /\ ShownTransition(d, ShownStates(d, e)[i]) \in Names \cup {None}
    BY <1>1
  <1>3. ASSUME NEW f, f.kind \in {"start", "transition", "terminal"}
        PROVE  f \in Edges(d, e) <=> f \in RealEdges(text)
    <2>1. f \in Edges(d, e) <=>
           \/ ShownStart(d, e) # None /\ f = Edge(StartNode, ShownStart(d, e), "start")
           \/ \E i \in DOMAIN ShownStates(d, e) :
                f \in EdgesFrom(ShownStates(d, e)[i], ShownTransition(d, ShownStates(d, e)[i]))
      BY <1>2, ShownEdgesAre
    <2>2. \A i \in DOMAIN text.states :
            f \in EdgesFrom(ShownStates(d, e)[i], text.states[i].transition)
              <=> f \in EdgesFrom(text.states[i], text.states[i].transition)
      BY <1>3, DirectOut
    <2>3. QED  BY <2>1, <2>2, RealEdgesAre
  <1>4. QED  BY <1>3 DEF Direct

(* The graph shows the edges of the text: all of a JSON text and of a      *)
(* saved one, the start, the direct transitions and the ends of any.       *)
THEOREM GraphIsOfTheDraft == Spec => []GraphShowsTheDraft
  <1>1. ASSUME TypeOK PROVE GraphShowsTheDraft
    <2> SUFFICES ASSUME UniqueNames(draft.states), "End" \notin Names
                 PROVE  IF Unreadable(draft) THEN Edges(draft, saved) = RealEdges(saved)
                        ELSE IF draft.format = "json" \/ draft = saved
                        THEN Edges(draft, saved) = RealEdges(draft)
                        ELSE Direct(Edges(draft, saved)) = Direct(RealEdges(draft))
      BY DEF GraphShowsTheDraft
    <2>1. draft \in Document /\ saved \in Document
      BY <1>1 DEF TypeOK
    <2>2. draft.states \in Seq(State) /\ \A i \in DOMAIN draft.states : draft.states[i] \in State
      BY <2>1, DocumentIs
    <2>3. \A i \in DOMAIN draft.states : Last(draft.states, draft.states[i].name) = i
      BY <2>2, LastUnique
    <2>4. CASE Unreadable(draft)
      <3>1. ShownStates(draft, saved) = saved.states /\ ShownStart(draft, saved) = saved.start
        BY <2>4 DEF ShownStates, ShownStart, Unreadable
      <3>2. \A i \in DOMAIN saved.states :
              ShownTransition(draft, saved.states[i]) = saved.states[i].transition
        BY <2>4 DEF ShownTransition
      <3>3. Edges(draft, saved) = RealEdges(saved)
        BY <2>1, <3>1, <3>2, SameEdges
      <3>4. QED  BY <2>4, <3>3
    <2>5. ASSUME ~ Unreadable(draft), NEW i \in DOMAIN draft.states, NEW s,
                 s.name = draft.states[i].name
          PROVE  ShownTransition(draft, s) = draft.states[i].transition
      BY <2>3, <2>5 DEF ShownTransition
    <2>6. CASE ~ Unreadable(draft) /\ draft.format = "json"
      <3>1. ShownStates(draft, saved) = draft.states /\ ShownStart(draft, saved) = draft.start
        BY <2>6 DEF ShownStates, ShownStart, Unreadable
      <3>2. Edges(draft, saved) = RealEdges(draft)
        BY <2>1, <2>5, <2>6, <3>1, SameEdges
      <3>3. QED  BY <2>6, <3>2
    <2>7. CASE ~ Unreadable(draft) /\ draft.format # "json"
      <3>1. /\ DOMAIN ShownStates(draft, saved) = DOMAIN draft.states
            /\ \A i \in DOMAIN draft.states :
                 ShownStates(draft, saved)[i] = Projected(draft.states[i], saved)
            /\ ShownStart(draft, saved) = draft.start
        BY <2>7 DEF ShownStates, ShownStart
      <3>2. \A i \in DOMAIN draft.states :
              /\ ShownStates(draft, saved)[i] \in State
              /\ ShownStates(draft, saved)[i].name = draft.states[i].name
              /\ ShownStates(draft, saved)[i].end = draft.states[i].end
        BY <2>1, <2>2, <3>1, ProjectedIs
      <3>3. CASE draft = saved
        <4>1. \A i \in DOMAIN draft.states : ShownStates(draft, saved)[i] = draft.states[i]
          BY <2>1, <3>1, <3>3, ProjectedSame
        <4>2. Edges(draft, saved) = RealEdges(draft)
          BY <2>1, <2>5, <2>7, <3>1, <4>1, SameEdges
        <4>3. QED  BY <2>7, <3>3, <4>2
      <3>4. Direct(Edges(draft, saved)) = Direct(RealEdges(draft))
        BY <2>1, <2>5, <2>7, <3>1, <3>2, DirectEdges
      <3>5. QED  BY <2>7, <3>3, <3>4
    <2>8. QED  BY <2>4, <2>6, <2>7
  <1>2. QED  BY <1>1, TypeCorrect, PTL

-----------------------------------------------------------------------------
(* A rename moves the ends of every edge of a state.                       *)
EdgeTo(g, old, new) == Edge(Redirect(g.from, old, new), Redirect(g.to, old, new), g.kind)

RenamedAs(s, t, old, new) ==
  /\ t.name = Redirect(s.name, old, new) /\ t.end = s.end
  /\ t.transition = Redirect(s.transition, old, new) /\ t.default = Redirect(s.default, old, new)
  /\ DOMAIN t.conditions = DOMAIN s.conditions
  /\ \A k \in DOMAIN s.conditions : t.conditions[k].to = Redirect(s.conditions[k].to, old, new)
  /\ DOMAIN t.errors = DOMAIN s.errors
  /\ \A k \in DOMAIN s.errors : t.errors[k].to = Redirect(s.errors[k].to, old, new)

LEMMA EdgeToIs ==
  ASSUME NEW old, NEW new, NEW name, NEW to, NEW kind
  PROVE  EdgeTo(Edge(name, to, kind), old, new) = Edge(Redirect(name, old, new), Redirect(to, old, new), kind)
  BY DEF EdgeTo, Edge

EdgesMoved(s, t, old, new) ==
  \A f : f \in EdgesFrom(t, t.transition) <=>
            \E g \in EdgesFrom(s, s.transition) : f = EdgeTo(g, old, new)

LEMMA RenamedEdges ==
  ASSUME NEW s, NEW t, NEW old \in Names, NEW new \in Names, RenamedAs(s, t, old, new)
  PROVE  EdgesMoved(s, t, old, new)
  <1>1. /\ \A x : Redirect(x, old, new) # None <=> x # None
        /\ Redirect(EndNode, old, new) = EndNode
    BY NoneAssumption, NodesAssumption DEF Redirect
  <1>2. /\ t.name = Redirect(s.name, old, new) /\ t.end = s.end
        /\ t.transition = Redirect(s.transition, old, new) /\ t.default = Redirect(s.default, old, new)
        /\ DOMAIN t.conditions = DOMAIN s.conditions
        /\ \A k \in DOMAIN s.conditions : t.conditions[k].to = Redirect(s.conditions[k].to, old, new)
        /\ DOMAIN t.errors = DOMAIN s.errors
        /\ \A k \in DOMAIN s.errors : t.errors[k].to = Redirect(s.errors[k].to, old, new)
    BY DEF RenamedAs
  <1>3. ASSUME NEW g \in EdgesFrom(s, s.transition)
        PROVE  EdgeTo(g, old, new) \in EdgesFrom(t, t.transition)
    <2>1. Leaves(s, s.transition, g)
      BY EdgesFromIs
    <2>2. Leaves(t, t.transition, EdgeTo(g, old, new))
      <3>1. CASE s.transition # None /\ g = Edge(s.name, s.transition, "transition")
        BY <1>1, <1>2, <3>1, EdgeToIs DEF Leaves
      <3>2. ASSUME NEW k \in DOMAIN s.conditions, s.conditions[k].to # None,
                   g = Edge(s.name, s.conditions[k].to, "conditional")
            PROVE  Leaves(t, t.transition, EdgeTo(g, old, new))
        BY <1>1, <1>2, <3>2, EdgeToIs DEF Leaves
      <3>3. CASE s.default # None /\ g = Edge(s.name, s.default, "default")
        BY <1>1, <1>2, <3>3, EdgeToIs DEF Leaves
      <3>4. ASSUME NEW k \in DOMAIN s.errors, s.errors[k].to # None,
                   g = Edge(s.name, s.errors[k].to, "error")
            PROVE  Leaves(t, t.transition, EdgeTo(g, old, new))
        BY <1>1, <1>2, <3>4, EdgeToIs DEF Leaves
      <3>5. CASE s.end /\ g = Edge(s.name, EndNode, "terminal")
        BY <1>1, <1>2, <3>5, EdgeToIs DEF Leaves
      <3>6. QED  BY <2>1, <3>1, <3>2, <3>3, <3>4, <3>5 DEF Leaves
    <2>3. QED  BY <2>2, EdgesFromIs
  <1>4. ASSUME NEW f \in EdgesFrom(t, t.transition)
        PROVE  \E g \in EdgesFrom(s, s.transition) : f = EdgeTo(g, old, new)
    <2>1. Leaves(t, t.transition, f)
      BY <1>4, EdgesFromIs
    <2>2. \E g : Leaves(s, s.transition, g) /\ f = EdgeTo(g, old, new)
      <3>1. CASE t.transition # None /\ f = Edge(t.name, t.transition, "transition")
        <4>1. Leaves(s, s.transition, Edge(s.name, s.transition, "transition"))
          BY <1>1, <1>2, <3>1 DEF Leaves
        <4>2. QED  BY <1>2, <3>1, <4>1, EdgeToIs
      <3>2. ASSUME NEW k \in DOMAIN t.conditions, t.conditions[k].to # None,
                   f = Edge(t.name, t.conditions[k].to, "conditional")
            PROVE  \E g : Leaves(s, s.transition, g) /\ f = EdgeTo(g, old, new)
        <4>1. Leaves(s, s.transition, Edge(s.name, s.conditions[k].to, "conditional"))
          BY <1>1, <1>2, <3>2 DEF Leaves
        <4>2. QED  BY <1>2, <3>2, <4>1, EdgeToIs
      <3>3. CASE t.default # None /\ f = Edge(t.name, t.default, "default")
        <4>1. Leaves(s, s.transition, Edge(s.name, s.default, "default"))
          BY <1>1, <1>2, <3>3 DEF Leaves
        <4>2. QED  BY <1>2, <3>3, <4>1, EdgeToIs
      <3>4. ASSUME NEW k \in DOMAIN t.errors, t.errors[k].to # None,
                   f = Edge(t.name, t.errors[k].to, "error")
            PROVE  \E g : Leaves(s, s.transition, g) /\ f = EdgeTo(g, old, new)
        <4>1. Leaves(s, s.transition, Edge(s.name, s.errors[k].to, "error"))
          BY <1>1, <1>2, <3>4 DEF Leaves
        <4>2. QED  BY <1>2, <3>4, <4>1, EdgeToIs
      <3>5. CASE t.end /\ f = Edge(t.name, EndNode, "terminal")
        <4>1. Leaves(s, s.transition, Edge(s.name, EndNode, "terminal"))
          BY <1>2, <3>5 DEF Leaves
        <4>2. QED  BY <1>1, <1>2, <3>5, <4>1, EdgeToIs
      <3>6. QED  BY <2>1, <3>1, <3>2, <3>3, <3>4, <3>5 DEF Leaves
    <2>3. QED  BY <2>2, EdgesFromIs
  <1>5. QED  BY <1>3, <1>4 DEF EdgesMoved

GraphMoved(d, e, old, new) == RealEdges(e) = {EdgeTo(g, old, new) : g \in RealEdges(d)}

GraphRenamed(d, e, old, new) ==
  /\ e.start = Redirect(d.start, old, new) /\ DOMAIN e.states = DOMAIN d.states
  /\ \A j \in DOMAIN d.states : RenamedAs(d.states[j], e.states[j], old, new)

LEMMA RenamedGraph ==
  ASSUME NEW d, NEW e, NEW old \in Names, NEW new \in Names,
         GraphRenamed(d, e, old, new)
  PROVE  GraphMoved(d, e, old, new)
  <1>0. /\ e.start = Redirect(d.start, old, new) /\ DOMAIN e.states = DOMAIN d.states
        /\ \A j \in DOMAIN d.states : RenamedAs(d.states[j], e.states[j], old, new)
    BY DEF GraphRenamed
  <1>1. /\ \A x : Redirect(x, old, new) # None <=> x # None
        /\ Redirect(StartNode, old, new) = StartNode
    BY NoneAssumption, NodesAssumption DEF Redirect
  <1>2. ASSUME NEW f, NEW j \in DOMAIN d.states
        PROVE  f \in EdgesFrom(e.states[j], e.states[j].transition) <=>
                 \E g \in EdgesFrom(d.states[j], d.states[j].transition) : f = EdgeTo(g, old, new)
    <2>1. EdgesMoved(d.states[j], e.states[j], old, new)
      BY <1>0, RenamedEdges
    <2>2. QED  BY <2>1 DEF EdgesMoved
  <1>3. ASSUME NEW f
        PROVE  f \in RealEdges(e) <=> \E g \in RealEdges(d) : f = EdgeTo(g, old, new)
    <2>1. f = Edge(StartNode, e.start, "start") <=>
            f = EdgeTo(Edge(StartNode, d.start, "start"), old, new)
      BY <1>0, <1>1, EdgeToIs
    <2>2. ASSUME f \in RealEdges(e) PROVE \E g \in RealEdges(d) : f = EdgeTo(g, old, new)
      <3>1. CASE e.start # None /\ f = Edge(StartNode, e.start, "start")
        BY <1>0, <1>1, <2>1, <3>1, RealEdgesAre
      <3>2. ASSUME NEW j \in DOMAIN e.states,
                   f \in EdgesFrom(e.states[j], e.states[j].transition)
            PROVE  \E g \in RealEdges(d) : f = EdgeTo(g, old, new)
        <4>1. PICK g \in EdgesFrom(d.states[j], d.states[j].transition) : f = EdgeTo(g, old, new)
          BY <1>0, <1>2, <3>2
        <4>2. g \in RealEdges(d)
          BY <1>0, <3>2, <4>1, RealEdgesAre
        <4>3. QED  BY <4>1, <4>2
      <3>3. QED  BY <2>2, <3>1, <3>2, RealEdgesAre
    <2>3. ASSUME NEW g \in RealEdges(d), f = EdgeTo(g, old, new) PROVE f \in RealEdges(e)
      <3>1. CASE d.start # None /\ g = Edge(StartNode, d.start, "start")
        BY <1>0, <1>1, <2>1, <2>3, <3>1, RealEdgesAre
      <3>2. ASSUME NEW j \in DOMAIN d.states,
                   g \in EdgesFrom(d.states[j], d.states[j].transition)
            PROVE  f \in RealEdges(e)
        BY <1>0, <1>2, <2>3, <3>2, RealEdgesAre
      <3>3. QED  BY <2>3, <3>1, <3>2, RealEdgesAre
    <2>4. QED  BY <2>2, <2>3
  <1>4. QED  BY <1>3 DEF GraphMoved

(* A state whose targets are all seen is renamed throughout.               *)
LEMMA StateRenamed ==
  ASSUME NEW d, NEW s \in State, NEW old \in Names, NEW new \in Names, NEW name \in Names,
         NEW r, r = [s EXCEPT !.name = name], name = Redirect(s.name, old, new),
         \A f \in {"conditions", "errors", "default"} : Visible(d, s, f),
         NEW t, t = StateTo(d, r, old, new)
  PROVE  RenamedAs(s, t, old, new)
  <1>1. /\ r.name = name /\ r.transition = s.transition /\ r.end = s.end
        /\ r.conditions = s.conditions /\ r.default = s.default /\ r.errors = s.errors
        /\ r.inline = s.inline /\ r \in State
    BY DEF State
  <1>2. Visible(d, r, "conditions") /\ Visible(d, r, "errors") /\ Visible(d, r, "default")
    BY <1>1 DEF Visible
  <1>3. /\ t.name = r.name /\ t.end = r.end /\ t.transition = Redirect(r.transition, old, new)
        /\ t.default = Redirect(r.default, old, new)
        /\ t.conditions = BranchesTo(r.conditions, old, new)
        /\ t.errors = BranchesTo(r.errors, old, new)
    BY <1>1, <1>2 DEF StateTo, State
  <1>4. s.conditions \in Seq(Branch) /\ s.errors \in Seq(Branch)
    BY DEF State
  <1>5. /\ DOMAIN t.conditions = DOMAIN s.conditions
        /\ \A k \in DOMAIN s.conditions : t.conditions[k].to = Redirect(s.conditions[k].to, old, new)
    <2> DEFINE b == s.conditions
               c == t.conditions
    <2>1. c = BranchesTo(b, old, new) /\ b \in Seq(Branch)
      BY <1>1, <1>3, <1>4
    <2> HIDE DEF b, c
    <2>2. DOMAIN c = DOMAIN b /\ \A k \in DOMAIN b : c[k].to = Redirect(b[k].to, old, new)
      BY <2>1, BranchesToIs
    <2>3. QED  BY <2>2 DEF b, c
  <1>6. /\ DOMAIN t.errors = DOMAIN s.errors
        /\ \A k \in DOMAIN s.errors : t.errors[k].to = Redirect(s.errors[k].to, old, new)
    <2> DEFINE b == s.errors
               c == t.errors
    <2>1. c = BranchesTo(b, old, new) /\ b \in Seq(Branch)
      BY <1>1, <1>3, <1>4
    <2> HIDE DEF b, c
    <2>2. DOMAIN c = DOMAIN b /\ \A k \in DOMAIN b : c[k].to = Redirect(b[k].to, old, new)
      BY <2>1, BranchesToIs
    <2>3. QED  BY <2>2 DEF b, c
  <1>7. QED  BY <1>1, <1>3, <1>5, <1>6 DEF RenamedAs

LEMMA RenameGraph ==
  ASSUME NEW d \in Document, NEW i \in DOMAIN d.states, NEW n \in Names,
         UniqueNames(d.states), NothingInline(d),
         NEW e, e = Redirected([d EXCEPT !.states[i].name = n], d.states[i].name, n, DOMAIN d.states)
  PROVE  RealEdges(e) = {EdgeTo(g, d.states[i].name, n) : g \in RealEdges(d)}
  <1> DEFINE old == d.states[i].name
             named == [d EXCEPT !.states[i].name = n]
             changed == [d.states[i] EXCEPT !.name = n]
  <1>1. /\ \A j \in DOMAIN d.states : d.states[j] \in State /\ d.states[j].name \in Names
        /\ d.states \in Seq(State) /\ Len(d.states) \in Nat /\ DOMAIN d.states = 1 .. Len(d.states)
    BY DocumentIs DEF State
  <1>2. changed \in State /\ old \in Names
    BY <1>1 DEF State
  <1>3. named = [d EXCEPT !.states = [d.states EXCEPT ![i] = changed]]
    BY DEF Document
  <1> HIDE DEF changed
  <1>4. [d.states EXCEPT ![i] = changed] \in Seq(State)
    <2>1. [d.states EXCEPT ![i] = changed] \in [1 .. Len(d.states) -> State]
      BY <1>1, <1>2
    <2>2. QED  BY <1>1, <2>1, MakeSeq
  <1>5. /\ named \in Document /\ named.format = d.format /\ named.start = d.start
        /\ named.states = [d.states EXCEPT ![i] = changed]
    BY <1>3, <1>4 DEF Document
  <1>6. /\ DOMAIN named.states = DOMAIN d.states
        /\ \A j \in DOMAIN d.states : named.states[j] = IF j = i THEN changed ELSE d.states[j]
    BY <1>1, <1>5
  <1> HIDE DEF named
  <1>7. /\ e.start = Redirect(d.start, old, n) /\ DOMAIN e.states = DOMAIN d.states
        /\ \A j \in DOMAIN d.states : e.states[j] = StateTo(named, named.states[j], old, n)
    <2>1. e = Redirected(named, old, n, DOMAIN named.states)
      BY <1>6 DEF named
    <2> HIDE DEF old
    <2>2. /\ e.start = Redirect(named.start, old, n) /\ DOMAIN e.states = DOMAIN named.states
          /\ \A j \in DOMAIN named.states :
               e.states[j] = IF j \in DOMAIN named.states THEN StateTo(named, named.states[j], old, n)
                             ELSE named.states[j]
      <3>1. named \in Document /\ old \in Names
        BY <1>2, <1>5 DEF old
      <3>2. QED  BY <2>1, <3>1, RedirectedIs
    <2>3. QED  BY <1>5, <1>6, <2>2
  <1>8. ASSUME NEW j \in DOMAIN d.states PROVE RenamedAs(d.states[j], e.states[j], old, n)
    <2> DEFINE s == d.states[j]
               name == IF j = i THEN n ELSE s.name
    <2>1. s \in State /\ name \in Names /\ name = Redirect(s.name, old, n)
      BY <1>1 DEF Redirect, UniqueNames
    <2>2. named.states[j] = [s EXCEPT !.name = name]
      BY <1>1, <1>6 DEF changed, State
    <2>3. \A f \in {"conditions", "errors", "default"} : Visible(named, s, f)
      BY <1>5 DEF NothingInline, Visible
    <2>4. e.states[j] = StateTo(named, named.states[j], old, n)
      BY <1>7
    <2> HIDE DEF s, name
    <2>5. RenamedAs(s, e.states[j], old, n)
      BY <1>2, <2>1, <2>2, <2>3, <2>4, StateRenamed
    <2>6. QED  BY <2>5 DEF s
  <1> HIDE DEF old
  <1>9. RealEdges(e) = {EdgeTo(g, old, n) : g \in RealEdges(d)}
    <2>1. GraphRenamed(d, e, old, n)
      BY <1>7, <1>8 DEF GraphRenamed
    <2>2. GraphMoved(d, e, old, n)
      BY <1>2, <2>1, RenamedGraph
    <2>3. QED  BY <2>2 DEF GraphMoved
  <1>10. QED  BY <1>9 DEF old

(* A rename changes the graph in nothing but the name.                     *)
THEOREM RenamesKeepTheGraph == Spec => RenameKeepsTheGraph
  <1>1. EditsInv => OnlyTheNameChanges
    <2> SUFFICES ASSUME EditsInv, NEW i \in States, NEW n \in Writable, RenameTo(i, n),
                        NothingInline(draft), UniqueNames(draft.states)
                 PROVE  RealEdges(draft') = {EdgeTo(g, draft.states[i].name, n) : g \in RealEdges(draft)}
      BY DEF OnlyTheNameChanges, EdgeTo, Redirect
    <2>1. draft \in Document /\ i \in DOMAIN draft.states /\ n \in Names
      BY StatesAre, WrittenAssumption DEF EditsInv, TypeOK
    <2>2. draft' = Redirected([draft EXCEPT !.states[i].name = n], draft.states[i].name, n,
                              DOMAIN draft.states)
      BY DEF RenameTo, Pick, Apply, RenameState, Refused, Patched
    <2>3. QED  BY <2>1, <2>2, RenameGraph
  <1>2. QED  BY <1>1, EditsInvariant, PTL DEF RenameKeepsTheGraph

-----------------------------------------------------------------------------
(* Counting up: what holds of 0, and of a number when it holds of the one  *)
(* before, holds of all the numbers up to n.                               *)
LEMMA CountUp ==
  ASSUME NEW n \in Nat, NEW P, 0 \in P, \A k \in 1 .. n : k - 1 \in P => k \in P
  PROVE  \A k \in 0 .. n : k \in P
  <1> DEFINE Bad == (0 .. n) \ P
  <1> SUFFICES ASSUME Bad # {} PROVE FALSE
    OBVIOUS
  <1>1. PICK m \in Bad : \A k \in Bad : m <= k
    <2>1. Bad \subseteq Nat
      OBVIOUS
    <2> HIDE DEF Bad
    <2>2. QED  BY <2>1, LeastNat
  <1>2. m \in 0 .. n /\ m \notin P /\ m # 0
    BY <1>1
  <1>3. m \in 1 .. n /\ m - 1 \in 0 .. n /\ ~ (m <= m - 1)
    BY <1>2
  <1>4. m - 1 \in P
    BY <1>1, <1>3
  <1>5. QED  BY <1>2, <1>3, <1>4

LEMMA GreatestNat ==
  ASSUME NEW n \in Nat, NEW T, T \subseteq 0 .. n, T # {}
  PROVE  \E m \in T : \A k \in T : k <= m
  <1> DEFINE D == {j \in 0 .. n : n - j \in T}
  <1>1. D \subseteq Nat
    OBVIOUS
  <1>2. ASSUME NEW k \in T PROVE n - k \in D
    <2>1. k \in 0 .. n
      OBVIOUS
    <2>2. n - k \in 0 .. n /\ n - (n - k) \in T
      <3>1. n - (n - k) = k
        BY <2>1
      <3>2. QED  BY <2>1, <3>1
    <2>3. QED  BY <2>2
  <1>3. \A j \in D : j \in 0 .. n /\ n - j \in T
    OBVIOUS
  <1> HIDE DEF D
  <1>4. PICK j \in D : \A i \in D : j <= i
    <2>1. D # {}
      BY <1>2
    <2>2. QED  BY <1>1, <2>1, LeastNat
  <1>5. \A k \in T : k <= n - j
    <2> SUFFICES ASSUME NEW k \in T PROVE k <= n - j
      OBVIOUS
    <2>1. k \in 0 .. n /\ j \in 0 .. n /\ j <= n - k
      BY <1>2, <1>3, <1>4
    <2>2. QED  BY <2>1
  <1>6. QED  BY <1>3, <1>5

(* The rounds of the queue.                                                *)
Visited(S, E) == S \cup {e.to : e \in {f \in E : f.from \in S}}

ClosedIn(S, E) == StartNode \in S /\ \A e \in E : e.from \in S => e.to \in S

Grown(R, n, E) ==
  n \in Nat /\ R[0] = {StartNode} /\ \A k \in 1 .. n : R[k] = Visited(R[k - 1], E)

LEMMA RoundsExist ==
  ASSUME NEW E, NEW n \in Nat
  PROVE  \E g : g = [k \in 0 .. n |-> IF k = 0 THEN {StartNode} ELSE Visited(g[k - 1], E)]
  <1> DEFINE Round(g, k) == IF k = 0 THEN {StartNode} ELSE Visited(g[k - 1], E)
             IsRounds(g, m) == g = [k \in 0 .. m |-> Round(g, k)]
             P == {m \in Nat : \E g : IsRounds(g, m)}
  <1>1. 0 \in P
    <2> DEFINE g == [k \in 0 .. 0 |-> {StartNode}]
    <2>1. IsRounds(g, 0)
      OBVIOUS
    <2>2. QED  BY <2>1
  <1>2. ASSUME NEW m \in 1 .. n, m - 1 \in P PROVE m \in P
    <2>1. PICK g : IsRounds(g, m - 1)
      BY <1>2
    <2> DEFINE h == [k \in 0 .. m |-> IF k = m THEN Visited(g[m - 1], E) ELSE g[k]]
    <2>2. ASSUME NEW k \in 0 .. m PROVE h[k] = Round(h, k)
      <3>1. CASE k = m
        BY <3>1
      <3>2. CASE k # m
        <4>1. k \in 0 .. m - 1 /\ h[k] = g[k]
          BY <3>2
        <4>2. g[k] = Round(g, k)
          BY <2>1, <4>1
        <4>3. k # 0 => h[k - 1] = g[k - 1]
          BY <4>1
        <4> HIDE DEF h
        <4>4. QED  BY <4>1, <4>2, <4>3
      <3>3. QED  BY <3>1, <3>2
    <2>3. h = [k \in 0 .. m |-> h[k]]
      OBVIOUS
    <2> HIDE DEF h
    <2>4. IsRounds(h, m)
      BY <2>2, <2>3
    <2>5. QED  BY <2>4
  <1> HIDE DEF P
  <1>3. n \in P
    BY <1>1, <1>2, CountUp
  <1>4. QED  BY <1>3 DEF P

LEMMA ReachedIs ==
  ASSUME NEW E, IsFiniteSet(E)
  PROVE  /\ DOMAIN Reached(E) = 0 .. Cardinality(E)
         /\ Grown(Reached(E), Cardinality(E), E)
  <1> DEFINE n == Cardinality(E)
             IsRounds(g) == g = [k \in 0 .. n |-> IF k = 0 THEN {StartNode} ELSE Visited(g[k - 1], E)]
             R == CHOOSE g : IsRounds(g)
  <1>1. n \in Nat
    BY FS_CardinalityType
  <1>2. Reached(E) = [k \in 0 .. n |-> R[k]]
    BY DEF Reached, Visited
  <1>3. IsRounds(R)
    <2>1. \E g : IsRounds(g)
      BY <1>1, RoundsExist
    <2> HIDE DEF IsRounds
    <2>2. QED  BY <2>1
  <1> HIDE DEF R
  <1>4. R = Reached(E)
    BY <1>2, <1>3
  <1> HIDE DEF n
  <1>5. Grown(R, n, E)
    BY <1>1, <1>3 DEF Grown
  <1>6. QED  BY <1>2, <1>4, <1>5 DEF n

LEMMA GrownWithin ==
  ASSUME NEW R, NEW n, NEW E, Grown(R, n, E), NEW S, ClosedIn(S, E)
  PROVE  \A k \in 0 .. n : R[k] \subseteq S
  <1> DEFINE P == {k \in 0 .. n : R[k] \subseteq S}
  <1>1. n \in Nat /\ R[0] = {StartNode} /\ \A k \in 1 .. n : R[k] = Visited(R[k - 1], E)
    BY DEF Grown
  <1>2. 0 \in P
    BY <1>1 DEF ClosedIn
  <1>3. ASSUME NEW k \in 1 .. n, k - 1 \in P PROVE k \in P
    <2>1. R[k - 1] \subseteq S
      BY <1>3
    <2>2. Visited(R[k - 1], E) \subseteq S
      BY <2>1 DEF Visited, ClosedIn
    <2>3. k \in 0 .. n
      BY <1>1
    <2>4. QED  BY <1>1, <2>2, <2>3
  <1> HIDE DEF P
  <1>4. \A k \in 0 .. n : k \in P
    BY <1>1, <1>2, <1>3, CountUp
  <1>5. QED  BY <1>4 DEF P

LEMMA GrownMore ==
  ASSUME NEW R, NEW n, NEW E, Grown(R, n, E), NEW j \in 0 .. n
  PROVE  \A k \in 0 .. n : j <= k => R[j] \subseteq R[k]
  <1> DEFINE P == {k \in 0 .. n : j <= k => R[j] \subseteq R[k]}
  <1>1. n \in Nat /\ \A k \in 1 .. n : R[k] = Visited(R[k - 1], E)
    BY DEF Grown
  <1>2. 0 \in P
    <2>1. j <= 0 => j = 0
      BY <1>1
    <2>2. QED  BY <1>1, <2>1
  <1>3. ASSUME NEW k \in 1 .. n, k - 1 \in P PROVE k \in P
    <2>1. k \in 0 .. n /\ R[k - 1] \subseteq R[k]
      BY <1>1 DEF Visited
    <2>2. j <= k => j = k \/ j <= k - 1
      BY <1>1
    <2>3. QED  BY <1>3, <2>1, <2>2
  <1> HIDE DEF P
  <1>4. \A k \in 0 .. n : k \in P
    BY <1>1, <1>2, <1>3, CountUp
  <1>5. QED  BY <1>4 DEF P

(* The nodes the edges lead to, and the start.                             *)
Ends(E) == {StartNode} \cup {e.to : e \in E}

LEMMA EndsCount ==
  ASSUME NEW E, IsFiniteSet(E)
  PROVE  IsFiniteSet(Ends(E)) /\ Cardinality(Ends(E)) <= Cardinality(E) + 1
  <1> DEFINE T == {e.to : e \in E}
             f == [e \in E |-> e.to]
  <1>1. f \in Surjection(E, T)
    BY DEF Surjection
  <1> HIDE DEF f
  <1>2. IsFiniteSet(T) /\ Cardinality(T) <= Cardinality(E)
    BY <1>1, FS_Surjection
  <1> HIDE DEF T
  <1>3. /\ Cardinality(T) \in Nat /\ Cardinality(E) \in Nat
        /\ IsFiniteSet(T \cup {StartNode})
        /\ Cardinality(T \cup {StartNode}) = IF StartNode \in T THEN Cardinality(T) ELSE Cardinality(T) + 1
    BY <1>2, FS_CardinalityType, FS_AddElement
  <1>4. Ends(E) = T \cup {StartNode}
    BY DEF Ends, T
  <1>5. QED  BY <1>2, <1>3, <1>4

(* The queue runs dry: as long as a round reaches something new, what is   *)
(* reached has more nodes than there were rounds.                          *)
LEMMA GrownFull ==
  ASSUME NEW E, IsFiniteSet(E), NEW R, Grown(R, Cardinality(E), E)
  PROVE  ClosedIn(R[Cardinality(E)], E)
  <1> DEFINE n == Cardinality(E)
             P == {k \in 0 .. n : Visited(R[k], E) = R[k] \/ Cardinality(R[k]) >= k + 1}
  <1>1. n \in Nat /\ R[0] = {StartNode} /\ \A k \in 1 .. n : R[k] = Visited(R[k - 1], E)
    BY DEF Grown
  <1>2. IsFiniteSet(Ends(E)) /\ Cardinality(Ends(E)) <= n + 1 /\ Cardinality(Ends(E)) \in Nat
    BY EndsCount, FS_CardinalityType
  <1>3. \A k \in 0 .. n : R[k] \subseteq Ends(E)
    <2>1. ClosedIn(Ends(E), E)
      BY DEF ClosedIn, Ends
    <2>2. QED  BY <2>1, GrownWithin
  <1>4. \A k \in 0 .. n : IsFiniteSet(R[k]) /\ Cardinality(R[k]) \in Nat
    BY <1>2, <1>3, FS_Subset, FS_CardinalityType
  <1> HIDE DEF n
  <1>5. 0 \in P
    <2>1. Cardinality({StartNode}) = 1
      BY FS_Singleton
    <2>2. Cardinality(R[0]) >= 0 + 1
      BY <1>1, <2>1
    <2>3. QED  BY <1>1, <2>2
  <1>6. ASSUME NEW k \in 1 .. n, k - 1 \in P PROVE k \in P
    <2>1. /\ k \in 0 .. n /\ k - 1 \in 0 .. n /\ R[k] = Visited(R[k - 1], E)
          /\ k - 1 + 1 = k /\ k \in Nat
      BY <1>1
    <2>2. CASE Visited(R[k - 1], E) = R[k - 1]
      <3>1. R[k] = R[k - 1]
        BY <2>1, <2>2
      <3>2. Visited(R[k], E) = R[k]
        BY <2>2, <3>1
      <3>3. QED  BY <2>1, <3>2
    <2>3. CASE Visited(R[k - 1], E) # R[k - 1]
      <3>1. Cardinality(R[k - 1]) >= k
        BY <1>6, <2>1, <2>3
      <3>2. PICK x \in R[k] : x \notin R[k - 1] /\ R[k - 1] \cup {x} \subseteq R[k]
        BY <2>1, <2>3 DEF Visited
      <3>3. /\ Cardinality(R[k - 1] \cup {x}) = Cardinality(R[k - 1]) + 1
            /\ Cardinality(R[k - 1] \cup {x}) <= Cardinality(R[k])
        BY <1>4, <2>1, <3>2, FS_AddElement, FS_Subset
      <3>4. Cardinality(R[k]) >= k + 1
        BY <1>4, <2>1, <3>1, <3>3
      <3>5. QED  BY <2>1, <3>4
    <2>4. QED  BY <2>2, <2>3
  <1> HIDE DEF P
  <1>7. n \in P
    BY <1>1, <1>5, <1>6, CountUp
  <1>8. n \in 0 .. n /\ 0 \in 0 .. n /\ 0 <= n
    BY <1>1
  <1>9. StartNode \in R[n]
    <2>1. \A k \in 0 .. n : 0 <= k => R[0] \subseteq R[k]
      BY <1>8, GrownMore DEF n
    <2>2. QED  BY <1>1, <1>8, <2>1
  <1>10. CASE Visited(R[n], E) = R[n]
    BY <1>9, <1>10 DEF ClosedIn, Visited, n
  <1>11. CASE Cardinality(R[n]) >= n + 1
    <2>1. R[n] \subseteq Ends(E) /\ Cardinality(R[n]) <= Cardinality(Ends(E))
      BY <1>2, <1>3, <1>8, FS_Subset
    <2>2. Cardinality(Ends(E)) = Cardinality(R[n])
      BY <1>1, <1>2, <1>4, <1>8, <1>11, <2>1
    <2>3. Ends(E) = R[n]
      BY <1>2, <2>1, <2>2, FS_Subset
    <2>4. QED  BY <1>9, <2>3 DEF ClosedIn, Ends, n
  <1>12. QED  BY <1>7, <1>10, <1>11 DEF P

(* So the reachable nodes are the least set that has the start and what    *)
(* the edges lead to from it.                                              *)
LEMMA ReachableIs ==
  ASSUME NEW E, IsFiniteSet(E)
  PROVE  /\ ClosedIn(Reachable(E), E)
         /\ \A S : ClosedIn(S, E) => Reachable(E) \subseteq S
         /\ \A x \in Reachable(E) : x = StartNode \/ \E e \in E : e.to = x
  <1> DEFINE n == Cardinality(E)
             R == Reached(E)
  <1>1. Grown(R, n, E) /\ n \in Nat
    BY ReachedIs DEF Grown
  <1>2. n \in 0 .. n /\ Reachable(E) = R[n]
    BY <1>1 DEF Reachable
  <1>3. ClosedIn(R[n], E)
    BY <1>1, GrownFull
  <1> HIDE DEF R, n
  <1>4. ASSUME NEW S, ClosedIn(S, E) PROVE R[n] \subseteq S
    BY <1>1, <1>2, <1>4, GrownWithin
  <1>5. ClosedIn(Ends(E), E)
    BY DEF ClosedIn, Ends
  <1>6. R[n] \subseteq Ends(E)
    BY <1>4, <1>5
  <1>7. QED  BY <1>2, <1>3, <1>4, <1>6 DEF Ends

(* The edges of a text are finitely many.                                  *)
LEMMA RangeFinite ==
  ASSUME NEW S, IsFiniteSet(S), NEW f, DOMAIN f = S
  PROVE  IsFiniteSet({f[x] : x \in S})
  <1> DEFINE T == {f[x] : x \in S}
             g == [x \in S |-> f[x]]
  <1>1. g \in Surjection(S, T)
    BY DEF Surjection
  <1> HIDE DEF g, T
  <1>2. IsFiniteSet(T)
    BY <1>1, FS_Surjection
  <1>3. QED  BY <1>2 DEF T

LEMMA UnionFinite ==
  ASSUME NEW n \in Nat, NEW f, DOMAIN f = 1 .. n, \A i \in 1 .. n : IsFiniteSet(f[i])
  PROVE  IsFiniteSet(UNION {f[i] : i \in 1 .. n})
  <1> DEFINE P == {k \in 0 .. n : IsFiniteSet(UNION {f[i] : i \in 1 .. k})}
  <1>1. 0 \in P
    <2>1. UNION {f[i] : i \in 1 .. 0} = {}
      OBVIOUS
    <2>2. QED  BY <2>1, FS_EmptySet
  <1>2. ASSUME NEW k \in 1 .. n, k - 1 \in P PROVE k \in P
    <2>1. UNION {f[i] : i \in 1 .. k} = (UNION {f[i] : i \in 1 .. k - 1}) \cup f[k]
      <3>1. \A i : i \in 1 .. k <=> i \in 1 .. k - 1 \/ i = k
        OBVIOUS
      <3>2. QED  BY <3>1
    <2>2. IsFiniteSet(UNION {f[i] : i \in 1 .. k - 1}) /\ IsFiniteSet(f[k])
      BY <1>2
    <2>3. IsFiniteSet((UNION {f[i] : i \in 1 .. k - 1}) \cup f[k])
      <3> DEFINE before == UNION {f[i] : i \in 1 .. k - 1}
      <3> HIDE DEF before
      <3>1. IsFiniteSet(before \cup f[k])
        BY <2>2, FS_Union DEF before
      <3>2. QED  BY <3>1 DEF before
    <2>4. k \in 0 .. n
      OBVIOUS
    <2>5. QED  BY <2>1, <2>3, <2>4
  <1> HIDE DEF P
  <1>3. n \in P
    BY <1>1, <1>2, CountUp
  <1>4. QED  BY <1>3 DEF P

EdgesTo(name, T, kind) == {Edge(name, t, kind) : t \in T \ {None}}

LEMMA EdgesToFinite ==
  ASSUME NEW name, NEW T, IsFiniteSet(T), NEW kind
  PROVE  IsFiniteSet(EdgesTo(name, T, kind))
  <1> DEFINE S == T \ {None}
             f == [t \in S |-> Edge(name, t, kind)]
  <1>1. IsFiniteSet(S)
    BY FS_Subset
  <1>2. DOMAIN f = S /\ EdgesTo(name, T, kind) = {f[t] : t \in S}
    BY DEF EdgesTo
  <1> HIDE DEF f, S
  <1>3. QED  BY <1>1, <1>2, RangeFinite

LEMMA TargetsFinite ==
  ASSUME NEW b \in Seq(Branch)
  PROVE  IsFiniteSet({b[k].to : k \in DOMAIN b})
  <1> DEFINE f == [k \in DOMAIN b |-> b[k].to]
  <1>1. Len(b) \in Nat /\ DOMAIN b = 1 .. Len(b)
    BY LenProperties
  <1>2. IsFiniteSet(DOMAIN b)
    BY <1>1, FS_Interval
  <1>3. {b[k].to : k \in DOMAIN b} = {f[k] : k \in DOMAIN b} /\ DOMAIN f = DOMAIN b
    OBVIOUS
  <1> HIDE DEF f
  <1>4. QED  BY <1>2, <1>3, RangeFinite

LEMMA EdgesFromFinite ==
  ASSUME NEW s \in State, NEW transition
  PROVE  IsFiniteSet(EdgesFrom(s, transition))
  <1> DEFINE t == EdgesTo(s.name, {transition}, "transition")
             c == EdgesTo(s.name, BranchTargets(s, "conditions"), "conditional")
             d == EdgesTo(s.name, {s.default}, "default")
             e == EdgesTo(s.name, BranchTargets(s, "errors"), "error")
             x == IF s.end THEN {Edge(s.name, EndNode, "terminal")} ELSE {}
  <1>1. EdgesFrom(s, transition) = t \cup c \cup d \cup e \cup x
    BY DEF EdgesFrom, EdgesTo
  <1>2. s.conditions \in Seq(Branch) /\ s.errors \in Seq(Branch)
    BY DEF State
  <1>3. IsFiniteSet(BranchTargets(s, "conditions")) /\ IsFiniteSet(BranchTargets(s, "errors"))
    BY <1>2, TargetsFinite DEF BranchTargets
  <1>4. IsFiniteSet({transition}) /\ IsFiniteSet({s.default})
    BY FS_Singleton
  <1>5. IsFiniteSet(t) /\ IsFiniteSet(c) /\ IsFiniteSet(d) /\ IsFiniteSet(e)
    BY <1>3, <1>4, EdgesToFinite
  <1>6. IsFiniteSet(x)
    BY FS_EmptySet, FS_Singleton
  <1> HIDE DEF t, c, d, e, x
  <1>7. IsFiniteSet(t \cup c) /\ IsFiniteSet(d \cup e)
    BY <1>5, FS_Union
  <1>8. IsFiniteSet((t \cup c) \cup (d \cup e))
    BY <1>7, FS_Union
  <1>9. IsFiniteSet(((t \cup c) \cup (d \cup e)) \cup x)
    BY <1>6, <1>8, FS_Union
  <1>10. EdgesFrom(s, transition) = ((t \cup c) \cup (d \cup e)) \cup x
    BY <1>1
  <1>11. QED  BY <1>9, <1>10

LEMMA StartFinite ==
  ASSUME NEW start
  PROVE  IsFiniteSet(IF start = None THEN {} ELSE {Edge(StartNode, start, "start")})
  BY FS_EmptySet, FS_Singleton

LEMMA RealEdgesFinite ==
  ASSUME NEW d \in Document
  PROVE  IsFiniteSet(RealEdges(d))
  <1> DEFINE f == [i \in 1 .. Len(d.states) |-> EdgesFrom(d.states[i], d.states[i].transition)]
             first == IF d.start = None THEN {} ELSE {Edge(StartNode, d.start, "start")}
  <1>1. /\ Len(d.states) \in Nat /\ DOMAIN d.states = 1 .. Len(d.states)
        /\ \A i \in 1 .. Len(d.states) : d.states[i] \in State
    BY DocumentIs
  <1>2. \A i \in 1 .. Len(d.states) : IsFiniteSet(f[i])
    BY <1>1, EdgesFromFinite
  <1>3. RealEdges(d) = first \cup UNION {f[i] : i \in 1 .. Len(d.states)}
    BY <1>1 DEF RealEdges
  <1>4. IsFiniteSet(first)
    BY StartFinite
  <1>5. DOMAIN f = 1 .. Len(d.states)
    OBVIOUS
  <1> HIDE DEF f, first
  <1>6. IsFiniteSet(UNION {f[i] : i \in 1 .. Len(d.states)})
    BY <1>1, <1>2, <1>5, UnionFinite
  <1>7. QED  BY <1>3, <1>4, <1>6, FS_Union

-----------------------------------------------------------------------------
(* Removing a state no edge leads to.                                      *)
LEMMA EdgeEnds ==
  ASSUME NEW s, NEW f \in EdgesFrom(s, s.transition)
  PROVE  f.from = s.name /\ f.to \in Targets(s) \cup {EndNode}
  <1>1. Leaves(s, s.transition, f)
    BY EdgesFromIs
  <1>2. \A name, to, kind : Edge(name, to, kind).from = name /\ Edge(name, to, kind).to = to
    BY DEF Edge
  <1>3. QED  BY <1>1, <1>2 DEF Leaves, Targets, BranchTargets

LEMMA AllSeen ==
  ASSUME NEW d, NothingInline(d), NEW j \in DOMAIN d.states
  PROVE  Targets(d.states[j]) \subseteq VisibleTargets(d, d.states[j])
  <1> DEFINE s == d.states[j]
  <1>1. \A f \in {"conditions", "errors", "default"} : Visible(d, s, f)
    BY DEF NothingInline, Visible
  <1> HIDE DEF s
  <1>2. ASSUME NEW x \in Targets(s) PROVE x \in VisibleTargets(d, s)
    <2>1. /\ x # None
          /\ \/ x = s.transition \/ x = s.default
             \/ \E k \in DOMAIN s.conditions : x = s.conditions[k].to
             \/ \E k \in DOMAIN s.errors : x = s.errors[k].to
      BY DEF Targets, BranchTargets
    <2>2. QED  BY <1>1, <2>1, VisibleTargetIs
  <1>3. QED  BY <1>2 DEF s

LEMMA RemovalKeepsReach ==
  ASSUME NEW d \in Document, NothingInline(d), NEW i \in DOMAIN d.states,
         d.states[i].name \notin References(d),
         NEW e \in Document, e = [d EXCEPT !.states = Removed(@, i)]
  PROVE  Reachable(RealEdges(d)) = Reachable(RealEdges(e))
  <1> DEFINE old == d.states[i].name
             E == RealEdges(d)
             F == RealEdges(e)
  <1>1. /\ d.states \in Seq(State) /\ Len(d.states) \in Nat /\ DOMAIN d.states = 1 .. Len(d.states)
        /\ \A j \in DOMAIN d.states : d.states[j].name \in Names
    BY DocumentIs DEF State
  <1>2. old # None /\ old # EndNode /\ old # StartNode
    BY <1>1, NoneAssumption, NodesAssumption
  <1>3. e.start = d.start /\ e.states = Removed(d.states, i)
    BY DEF Document
  <1>4. Drops(e.states, d.states, i)
    BY <1>1, <1>3, RemovedSeq
  <1>5. d.start # old /\ \A j \in DOMAIN d.states : old \notin Targets(d.states[j])
    BY <1>2, AllSeen DEF References
  <1> HIDE DEF old
  <1>6. \A f \in E : f.to # old
    <2>1. \A to : Edge(StartNode, to, "start").to = to
      BY DEF Edge
    <2>2. QED  BY <1>2, <1>5, <2>1, RealEdgesAre, EdgeEnds
  <1>7. ASSUME NEW f \in F PROVE f \in E
    <2>1. CASE e.start # None /\ f = Edge(StartNode, e.start, "start")
      BY <1>3, <2>1, RealEdgesAre
    <2>2. ASSUME NEW j \in DOMAIN e.states, f \in EdgesFrom(e.states[j], e.states[j].transition)
          PROVE  f \in E
      <3>1. PICK k \in DOMAIN d.states : e.states[j] = d.states[k]
        BY <1>4 DEF Drops
      <3>2. QED  BY <2>2, <3>1, RealEdgesAre
    <2>3. QED  BY <1>7, <2>1, <2>2, RealEdgesAre
  <1>8. ASSUME NEW f \in E PROVE f \in F \/ f.from = old
    <2>1. CASE d.start # None /\ f = Edge(StartNode, d.start, "start")
      BY <1>3, <2>1, RealEdgesAre
    <2>2. ASSUME NEW j \in DOMAIN d.states, f \in EdgesFrom(d.states[j], d.states[j].transition)
          PROVE  f \in F \/ f.from = old
      <3>1. CASE j = i
        BY <2>2, <3>1, EdgeEnds DEF old
      <3>2. CASE j # i
        <4>1. PICK k \in DOMAIN e.states : e.states[k] = d.states[j]
          BY <1>4, <3>2 DEF Drops
        <4>2. QED  BY <2>2, <4>1, RealEdgesAre
      <3>3. QED  BY <3>1, <3>2
    <2>3. QED  BY <1>8, <2>1, <2>2, RealEdgesAre
  <1>9. IsFiniteSet(E) /\ IsFiniteSet(F)
    BY RealEdgesFinite
  <1> HIDE DEF E, F
  <1>10. /\ ClosedIn(Reachable(E), E) /\ ClosedIn(Reachable(F), F)
         /\ \A S : ClosedIn(S, E) => Reachable(E) \subseteq S
         /\ \A S : ClosedIn(S, F) => Reachable(F) \subseteq S
         /\ \A x \in Reachable(F) : x = StartNode \/ \E f \in F : f.to = x
    BY <1>9, ReachableIs
  <1>11. ClosedIn(Reachable(E), F)
    BY <1>7, <1>10 DEF ClosedIn
  <1>12. old \notin Reachable(F)
    BY <1>2, <1>6, <1>7, <1>10
  <1>13. ClosedIn(Reachable(F), E)
    BY <1>8, <1>10, <1>12 DEF ClosedIn
  <1>14. Reachable(E) = Reachable(F)
    BY <1>10, <1>11, <1>13
  <1>15. QED  BY <1>14 DEF E, F

(* Removing a state the saved text does not reach takes nothing that the   *)
(* draft reaches, unless the draft reaches it by a branch written inline.  *)
THEOREM UnreachableFixKeepsTheReach == Spec => UnreachableFixKeepsReach
  <1> DEFINE Same == FixUnreachable /\ NothingInline(draft) =>
                       Reachable(RealEdges(draft)) = Reachable(RealEdges(draft'))
  <1>1. EditsInv /\ EditsInv' => [Same]_vars
    <2> SUFFICES ASSUME EditsInv, EditsInv', FixUnreachable, NothingInline(draft)
                 PROVE  Reachable(RealEdges(draft)) = Reachable(RealEdges(draft'))
      OBVIOUS
    <2>1. PICK n \in NeverReached(saved) : Pick(UnreachableStateFix(draft, n))
      BY DEF FixUnreachable
    <2> DEFINE i == IndexOf(StatesOf(draft), n)
    <2>2. draft \in Document /\ draft' \in Document
      BY DEF EditsInv, TypeOK
    <2>3. /\ i # 0 /\ draft.states[i].name \notin References(draft)
          /\ draft' = [draft EXCEPT !.states = Removed(@, i)]
      BY <2>1 DEF Pick, Apply, UnreachableStateFix, DeleteState, Refused, Patched
    <2>4. i \in DOMAIN draft.states
      BY <2>2, <2>3, FoundIs
    <2> HIDE DEF i
    <2>5. QED  BY <2>2, <2>3, <2>4, RemovalKeepsReach
  <1>2. QED  BY <1>1, EditsInvariant, PTL DEF UnreachableFixKeepsReach

-----------------------------------------------------------------------------
(* The layers of the drawing.                                              *)
LEMMA LayerVisited ==
  ASSUME NEW E, IsFiniteSet(E), NEW x \in Reachable(E)
  PROVE  /\ LayerOf(E, x) \in 0 .. Cardinality(E)
         /\ x \in Reached(E)[LayerOf(E, x)]
         /\ \A k \in 0 .. Cardinality(E) : x \in Reached(E)[k] => LayerOf(E, x) <= k
  <1> DEFINE n == Cardinality(E)
             R == Reached(E)
             rounds == {k \in DOMAIN R : x \in R[k]}
  <1>1. n \in Nat /\ DOMAIN R = 0 .. n
    BY ReachedIs DEF Grown
  <1>2. n \in rounds
    BY <1>1 DEF Reachable
  <1>3. LayerOf(E, x) = CHOOSE k \in rounds : \A l \in rounds : k <= l
    BY <1>2 DEF LayerOf
  <1>4. rounds \subseteq Nat /\ rounds \subseteq 0 .. n /\ \A k \in 0 .. n : x \in R[k] => k \in rounds
    BY <1>1
  <1>5. \A k \in rounds : x \in R[k]
    OBVIOUS
  <1> HIDE DEF rounds
  <1>6. \E k \in rounds : \A l \in rounds : k <= l
    BY <1>2, <1>4, LeastNat
  <1>7. LayerOf(E, x) \in rounds /\ \A l \in rounds : LayerOf(E, x) <= l
    BY <1>3, <1>6
  <1>8. QED  BY <1>4, <1>5, <1>7

LEMMA LayerLost ==
  ASSUME NEW E, IsFiniteSet(E), NEW x, x \notin Reachable(E)
  PROVE  /\ LayerOf(E, x) \in Nat
         /\ \A k \in 1 .. Cardinality(E) :
              Reached(E)[k] # Reached(E)[k - 1] => k < LayerOf(E, x)
         /\ 0 < LayerOf(E, x)
  <1> DEFINE n == Cardinality(E)
             R == Reached(E)
             rounds == {k \in DOMAIN R : x \in R[k]}
             deepest == {k \in DOMAIN R : k = 0 \/ R[k] # R[k - 1]}
             last == CHOOSE k \in deepest : \A l \in deepest : l <= k
  <1>1. n \in Nat /\ DOMAIN R = 0 .. n /\ Grown(R, n, E)
    BY ReachedIs DEF Grown
  <1>2. rounds = {}
    <2>1. \A k \in 0 .. n : k <= n => R[k] \subseteq R[n]
      <3>1. ASSUME NEW k \in 0 .. n PROVE R[k] \subseteq R[n]
        <4>1. \A m \in 0 .. n : k <= m => R[k] \subseteq R[m]
          <5> HIDE DEF R, n
          <5>1. QED  BY <1>1, GrownMore
        <4>2. n \in 0 .. n /\ k <= n
          BY <1>1
        <4>3. QED  BY <4>1, <4>2
      <3>2. QED  BY <3>1
    <2>2. R[n] = Reachable(E)
      BY DEF Reachable
    <2>3. QED  BY <1>1, <2>1, <2>2
  <1>3. LayerOf(E, x) = 1 + last
    BY <1>2 DEF LayerOf
  <1>4. /\ deepest \subseteq 0 .. n /\ 0 \in deepest
        /\ \A k \in 1 .. n : R[k] # R[k - 1] => k \in deepest
    BY <1>1
  <1> HIDE DEF deepest, R, n
  <1>5. \E k \in deepest : \A l \in deepest : l <= k
    <2>1. deepest # {}
      BY <1>4
    <2>2. QED  BY <1>1, <1>4, <2>1, GreatestNat
  <1>6. last \in deepest /\ \A l \in deepest : l <= last
    BY <1>5
  <1> HIDE DEF last
  <1>7. last \in Nat /\ 1 + last \in Nat /\ 0 < 1 + last
    BY <1>1, <1>4, <1>6
  <1>8. \A k \in 1 .. n : R[k] # R[k - 1] => k < 1 + last
    BY <1>1, <1>4, <1>6, <1>7
  <1>9. QED  BY <1>3, <1>7, <1>8 DEF R, n

LEMMA LayersStep ==
  ASSUME NEW E, IsFiniteSet(E), NEW e \in E, e.from \in Reachable(E)
  PROVE  e.to \in Reachable(E) /\ LayerOf(E, e.to) <= LayerOf(E, e.from) + 1
  <1> DEFINE n == Cardinality(E)
             R == Reached(E)
             k == LayerOf(E, e.from)
  <1>1. n \in Nat /\ \A m \in 1 .. n : R[m] = Visited(R[m - 1], E)
    BY ReachedIs DEF Grown
  <1>2. k \in 0 .. n /\ e.from \in R[k]
    BY LayerVisited
  <1>3. e.to \in Reachable(E)
    BY ReachableIs DEF ClosedIn
  <1>4. LayerOf(E, e.to) \in 0 .. n /\ \A m \in 0 .. n : e.to \in R[m] => LayerOf(E, e.to) <= m
    BY <1>3, LayerVisited
  <1> HIDE DEF n, R, k
  <1>5. CASE k = n
    BY <1>1, <1>4, <1>3, <1>5 DEF k
  <1>6. CASE k # n
    <2> DEFINE m == k + 1
    <2>1. m \in 1 .. n /\ m \in 0 .. n /\ m - 1 = k
      BY <1>1, <1>2, <1>6
    <2> HIDE DEF m
    <2>2. R[m] = Visited(R[m - 1], E)
      BY <1>1, <2>1
    <2>3. e.to \in R[m]
      BY <1>2, <2>1, <2>2 DEF Visited
    <2>4. LayerOf(E, e.to) <= m
      BY <1>4, <2>1, <2>3
    <2>5. QED  BY <1>3, <2>4 DEF k, m
  <1>7. QED  BY <1>5, <1>6

LEMMA LayersBefore ==
  ASSUME NEW E, IsFiniteSet(E), NEW x \in Reachable(E), x # StartNode
  PROVE  \E e \in E : /\ e.to = x /\ e.from \in Reachable(E)
                      /\ LayerOf(E, x) = LayerOf(E, e.from) + 1
  <1> DEFINE n == Cardinality(E)
             R == Reached(E)
             k == LayerOf(E, x)
  <1>1. /\ n \in Nat /\ R[0] = {StartNode} /\ \A m \in 1 .. n : R[m] = Visited(R[m - 1], E)
        /\ Grown(R, n, E)
    BY ReachedIs DEF Grown
  <1>2. k \in 0 .. n /\ x \in R[k] /\ \A m \in 0 .. n : x \in R[m] => k <= m
    BY LayerVisited
  <1>3. R[n] = Reachable(E)
    BY DEF Reachable
  <1> HIDE DEF n, R, k
  <1>4. k # 0
    BY <1>1, <1>2
  <1>5. k \in 1 .. n /\ k - 1 \in 0 .. n /\ ~ (k <= k - 1) /\ k - 1 <= n /\ n \in 0 .. n
    BY <1>1, <1>2, <1>4
  <1>6. x \in Visited(R[k - 1], E) /\ x \notin R[k - 1]
    BY <1>1, <1>2, <1>5
  <1>7. PICK e \in E : e.from \in R[k - 1] /\ e.to = x
    BY <1>6 DEF Visited
  <1>8. \A m \in 0 .. n : k - 1 <= m => R[k - 1] \subseteq R[m]
    BY <1>1, <1>5, GrownMore
  <1>9. e.from \in Reachable(E)
    BY <1>3, <1>5, <1>7, <1>8
  <1>10. LayerOf(E, e.from) \in 0 .. n /\ LayerOf(E, e.from) <= k - 1
    BY <1>5, <1>7, <1>9, LayerVisited DEF n, R
  <1>11. k <= LayerOf(E, e.from) + 1
    BY <1>7, <1>9, LayersStep DEF k
  <1>12. k = LayerOf(E, e.from) + 1
    BY <1>1, <1>2, <1>10, <1>11
  <1>13. QED  BY <1>7, <1>9, <1>12 DEF k

LEMMA LayersAfter ==
  ASSUME NEW E, IsFiniteSet(E), NEW v \in Reachable(E), NEW x, x \notin Reachable(E)
  PROVE  LayerOf(E, v) < LayerOf(E, x)
  <1> DEFINE n == Cardinality(E)
             R == Reached(E)
             k == LayerOf(E, v)
  <1>1. n \in Nat
    BY FS_CardinalityType
  <1>2. k \in 0 .. n /\ v \in R[k] /\ \A m \in 0 .. n : v \in R[m] => k <= m
    BY LayerVisited
  <1>3. /\ LayerOf(E, x) \in Nat /\ 0 < LayerOf(E, x)
        /\ \A m \in 1 .. n : R[m] # R[m - 1] => m < LayerOf(E, x)
    BY LayerLost
  <1> HIDE DEF n, R, k
  <1>4. CASE k = 0
    BY <1>3, <1>4 DEF k
  <1>5. CASE k # 0
    <2>1. k \in 1 .. n /\ k - 1 \in 0 .. n /\ ~ (k <= k - 1)
      BY <1>1, <1>2, <1>5
    <2>2. R[k] # R[k - 1]
      BY <1>2, <2>1
    <2>3. k < LayerOf(E, x)
      BY <1>3, <2>1, <2>2
    <2>4. QED  BY <2>3 DEF k
  <1>6. QED  BY <1>4, <1>5

LEMMA ShownAre ==
  ASSUME NEW d \in Document, NEW e \in Document
  PROVE  \E n \in Nat : /\ DOMAIN ShownStates(d, e) = 1 .. n
                        /\ \A i \in 1 .. n : ShownStates(d, e)[i] \in State
  <1>1. \A c \in Document : /\ Len(c.states) \in Nat /\ DOMAIN c.states = 1 .. Len(c.states)
                            /\ \A i \in DOMAIN c.states : c.states[i] \in State
    BY DocumentIs
  <1>2. \A i \in DOMAIN d.states : Projected(d.states[i], e) \in State
    BY <1>1, ProjectedIs
  <1>3. \/ ShownStates(d, e) = d.states \/ ShownStates(d, e) = e.states
        \/ ShownStates(d, e) = [i \in DOMAIN d.states |-> Projected(d.states[i], e)]
    BY DEF ShownStates
  <1>4. CASE ShownStates(d, e) = d.states
    BY <1>1, <1>4
  <1>5. CASE ShownStates(d, e) = e.states
    BY <1>1, <1>5
  <1>6. CASE ShownStates(d, e) = [i \in DOMAIN d.states |-> Projected(d.states[i], e)]
    <2>1. Len(d.states) \in Nat /\ DOMAIN d.states = 1 .. Len(d.states)
      BY <1>1
    <2>2. QED  BY <1>2, <1>6, <2>1
  <1>7. QED  BY <1>3, <1>4, <1>5, <1>6

LEMMA EdgesFinite ==
  ASSUME NEW d \in Document, NEW e \in Document
  PROVE  IsFiniteSet(Edges(d, e))
  <1> DEFINE shown == ShownStates(d, e)
             start == ShownStart(d, e)
             first == IF start = None THEN {} ELSE {Edge(StartNode, start, "start")}
             f == [i \in DOMAIN shown |-> EdgesFrom(shown[i], ShownTransition(d, shown[i]))]
             all == UNION {f[i] : i \in DOMAIN shown}
             g == [x \in all |-> Drawn(x)]
  <1>1. Edges(d, e) = first \cup {g[x] : x \in all}
    BY DEF Edges, Drawn
  <1>2. PICK n \in Nat : DOMAIN shown = 1 .. n /\ \A i \in 1 .. n : shown[i] \in State
    BY ShownAre
  <1>3. DOMAIN f = 1 .. n /\ \A i \in 1 .. n : IsFiniteSet(f[i])
    BY <1>2, EdgesFromFinite
  <1>4. IsFiniteSet(first)
    BY StartFinite
  <1>5. IsFiniteSet(all)
    <2> HIDE DEF f, shown
    <2>1. IsFiniteSet(UNION {f[i] : i \in 1 .. n})
      BY <1>3, UnionFinite
    <2>2. QED  BY <1>2, <2>1
  <1>6. DOMAIN g = all
    OBVIOUS
  <1> HIDE DEF g, all, first
  <1>7. IsFiniteSet({g[x] : x \in all})
    BY <1>5, <1>6, RangeFinite
  <1>8. QED  BY <1>1, <1>4, <1>7, FS_Union

(* The queue visits the nodes by their distance from the start, and draws  *)
(* what no path reaches after all of them.                                 *)
THEOREM QueueFindsDistances == Spec => []LayersAreDistances
  <1>1. ASSUME TypeOK PROVE LayersAreDistances
    <2> DEFINE edges == Edges(draft, saved)
               nodes == Nodes(draft, saved)
               layer == [n \in nodes |-> LayerOf(edges, n)]
               closed == {S \in SUBSET nodes : ClosedIn(S, edges)}
               visited == {n \in nodes : \A S \in closed : n \in S}
    <2>1. IsFiniteSet(edges)
      BY <1>1, EdgesFinite DEF TypeOK
    <2>2. StartNode \in nodes /\ Shown \subseteq nodes /\ \A e \in edges : e.to \in nodes
      BY DEF Nodes, Shown
    <2>3. Unreachable(draft, saved) = Shown \ Reachable(edges)
      BY DEF Unreachable, Shown
    <2>4. LayersAreDistances <=>
            /\ Unreachable(draft, saved) = Shown \ visited
            /\ \A e \in edges : e.from \in visited => layer[e.to] <= layer[e.from] + 1
            /\ \A n \in visited \ {StartNode} :
                 \E e \in edges : e.to = n /\ e.from \in visited /\ layer[n] = layer[e.from] + 1
            /\ \A n \in nodes \ visited, v \in visited : layer[v] < layer[n]
      BY DEF LayersAreDistances, ClosedIn
    <2> HIDE DEF edges, nodes
    <2>5. /\ ClosedIn(Reachable(edges), edges)
          /\ \A S : ClosedIn(S, edges) => Reachable(edges) \subseteq S
          /\ \A x \in Reachable(edges) : x = StartNode \/ \E e \in edges : e.to = x
      BY <2>1, ReachableIs
    <2>6. Reachable(edges) \subseteq nodes
      BY <2>2, <2>5
    <2>7. visited = Reachable(edges)
      BY <2>5, <2>6
    <2>8. \A n \in nodes : layer[n] = LayerOf(edges, n)
      OBVIOUS
    <2> HIDE DEF visited, closed, layer
    <2>9. ASSUME NEW e \in edges, e.from \in visited PROVE layer[e.to] <= layer[e.from] + 1
      <3>1. LayerOf(edges, e.to) <= LayerOf(edges, e.from) + 1
        BY <2>1, <2>7, <2>9, LayersStep
      <3>2. e.to \in nodes /\ e.from \in nodes
        BY <2>2, <2>6, <2>7, <2>9
      <3>3. QED  BY <2>8, <3>1, <3>2
    <2>10. ASSUME NEW n \in visited \ {StartNode}
           PROVE  \E e \in edges : e.to = n /\ e.from \in visited /\ layer[n] = layer[e.from] + 1
      <3>1. PICK e \in edges : /\ e.to = n /\ e.from \in Reachable(edges)
                               /\ LayerOf(edges, n) = LayerOf(edges, e.from) + 1
        BY <2>1, <2>7, LayersBefore
      <3>2. QED  BY <2>6, <2>7, <2>8, <3>1
    <2>11. ASSUME NEW n \in nodes \ visited, NEW v \in visited PROVE layer[v] < layer[n]
      <3>1. LayerOf(edges, v) < LayerOf(edges, n)
        BY <2>1, <2>7, LayersAfter
      <3>2. QED  BY <2>6, <2>7, <2>8, <3>1
    <2>12. QED  BY <2>3, <2>4, <2>7, <2>9, <2>10, <2>11
  <1>2. QED  BY <1>1, TypeCorrect, PTL

-----------------------------------------------------------------------------
(* An extraction.  An edge of a state that stays is moved to the           *)
(* invocation, and back when the subflow is put in its place.              *)
Back(g, call, entry) == Edge(g.from, Redirect(g.to, call, entry), g.kind)

LEMMA BackIs ==
  ASSUME NEW s, NEW entry, NEW call, s.name # entry,
         call \notin Targets(s) \cup {EndNode},
         NEW f \in EdgesFrom(s, s.transition)
  PROVE  Back(EdgeTo(f, entry, call), call, entry) = f
  <1>1. f.from = s.name /\ f.to \in Targets(s) \cup {EndNode}
    BY EdgeEnds
  <1>2. f = Edge(f.from, f.to, f.kind)
    <2>1. Leaves(s, s.transition, f)
      BY EdgesFromIs
    <2>2. \E name, to, kind : f = Edge(name, to, kind)
      BY <2>1 DEF Leaves
    <2>3. QED  BY <2>2 DEF Edge
  <1>3. Redirect(f.from, entry, call) = f.from
    BY <1>1 DEF Redirect
  <1>4. Redirect(Redirect(f.to, entry, call), call, entry) = f.to
    BY <1>1 DEF Redirect
  <1>5. EdgeTo(f, entry, call) = Edge(f.from, Redirect(f.to, entry, call), f.kind)
    BY <1>3 DEF EdgeTo
  <1>6. QED  BY <1>2, <1>4, <1>5 DEF Back, Edge

(* A state that stays keeps its name and its actions.                      *)
LEMMA KinIs ==
  ASSUME NEW d \in Document, NothingInline(d), NEW i \in DOMAIN d.states,
         NEW entry \in Names, NEW call \in Names, d.states[i].name # entry,
         NEW t, t = StateTo(d, d.states[i], entry, call)
  PROVE  /\ RenamedAs(d.states[i], t, entry, call)
         /\ t.name = d.states[i].name
         /\ t.actions = d.states[i].actions
  <1> DEFINE s == d.states[i]
  <1>1. s \in State /\ s.name \in Names
    BY DocumentIs DEF State
  <1>2. \A x \in {"conditions", "errors", "default"} : Visible(d, s, x)
    BY DEF NothingInline, Visible
  <1>3. s = [s EXCEPT !.name = s.name]
    BY <1>1 DEF State
  <1>4. s.name # entry /\ t = StateTo(d, s, entry, call)
    OBVIOUS
  <1> HIDE DEF s
  <1>5. RenamedAs(s, t, entry, call)
    <2>1. s.name = Redirect(s.name, entry, call)
      BY <1>4 DEF Redirect
    <2> DEFINE name == s.name
    <2>2. /\ name \in Names /\ s = [s EXCEPT !.name = name] /\ name = Redirect(s.name, entry, call)
          /\ t = StateTo(d, s, entry, call)
      BY <1>1, <1>3, <1>4, <2>1
    <2> HIDE DEF name
    <2>3. QED  BY <1>1, <1>2, <2>2, StateRenamed
  <1>6. t.name = s.name
    BY <1>4, <1>5 DEF RenamedAs, Redirect
  <1>7. t.actions = s.actions
    BY <1>1, <1>4 DEF StateTo, State
  <1>8. QED  BY <1>5, <1>6, <1>7 DEF s

LEMMA KinEdges ==
  ASSUME NEW s, NEW t, NEW entry \in Names, NEW call \in Names, RenamedAs(s, t, entry, call),
         s.name # entry, call \notin Targets(s), NEW f
  PROVE  f \in EdgesFrom(s, s.transition) <=>
           \E g \in EdgesFrom(t, t.transition) : f = Back(g, call, entry)
  <1>1. \A g : g \in EdgesFrom(t, t.transition) <=>
                 \E h \in EdgesFrom(s, s.transition) : g = EdgeTo(h, entry, call)
    BY RenamedEdges DEF EdgesMoved
  <1>2. call \notin Targets(s) \cup {EndNode}
    BY NodesAssumption
  <1>3. \A h \in EdgesFrom(s, s.transition) : Back(EdgeTo(h, entry, call), call, entry) = h
    BY <1>2, BackIs
  <1>4. QED  BY <1>1, <1>3

LEMMA KinTargets ==
  ASSUME NEW s, NEW t, NEW entry \in Names, NEW call, RenamedAs(s, t, entry, call), NEW x \in Targets(t)
  PROVE  \E y \in Targets(s) : x = Redirect(y, entry, call)
  <1>1. \/ x = t.transition \/ x = t.default
        \/ \E k \in DOMAIN t.conditions : x = t.conditions[k].to
        \/ \E k \in DOMAIN t.errors : x = t.errors[k].to
    BY DEF Targets, BranchTargets
  <1>2. PICK y : x = Redirect(y, entry, call)
                 /\ \/ y = s.transition \/ y = s.default
                    \/ \E k \in DOMAIN s.conditions : y = s.conditions[k].to
                    \/ \E k \in DOMAIN s.errors : y = s.errors[k].to
    BY <1>1 DEF RenamedAs
  <1>3. y # None
    BY <1>2, NoneAssumption DEF Redirect, Targets
  <1>4. y \in Targets(s)
    BY <1>2, <1>3 DEF Targets, BranchTargets
  <1>5. QED  BY <1>2, <1>4

(* The states outside stay, the others give way to the invocation.         *)
Calls == << [key |-> "subFlowRef", ref |-> SubflowId] >>

Kin(s, t, entry, call) ==
  RenamedAs(s, t, entry, call) /\ t.name = s.name /\ t.actions = s.actions

Stays(d, e, out, entry, call) ==
  /\ e.start = Redirect(d.start, entry, call.name)
  /\ \E j \in DOMAIN e.states : e.states[j] = call
  /\ \A i \in out : \E j \in DOMAIN e.states : Kin(d.states[i], e.states[j], entry, call.name)
  /\ \A j \in DOMAIN e.states :
       e.states[j] = call \/ \E i \in out : Kin(d.states[i], e.states[j], entry, call.name)

LEMMA ReplacedStays ==
  ASSUME NEW d \in Document, NothingInline(d), NEW e, NEW from, NEW to, NEW out,
         out = DOMAIN d.states \ (from .. to), NEW entry \in Names, NEW call, call.name \in Names,
         \A i \in out : d.states[i].name # entry, Replaces(d, e, from, to, entry, call)
  PROVE  Stays(d, e, out, entry, call)
  <1>1. ASSUME NEW i \in out
        PROVE  Kin(d.states[i], StateTo(d, d.states[i], entry, call.name), entry, call.name)
    <2> DEFINE n == call.name
               t == StateTo(d, d.states[i], entry, n)
    <2>1. n \in Names /\ t = StateTo(d, d.states[i], entry, n) /\ i \in DOMAIN d.states
      OBVIOUS
    <2> HIDE DEF n, t
    <2>2. /\ RenamedAs(d.states[i], t, entry, n) /\ t.name = d.states[i].name
          /\ t.actions = d.states[i].actions
      BY <2>1, KinIs
    <2>3. QED  BY <2>2 DEF n, t, Kin
  <1>2. QED  BY <1>1 DEF Replaces, Stays

(* A state that stays is not an invocation, and shows nothing of its name. *)
StaysApart(d, out, entry, call) ==
  /\ out \subseteq DOMAIN d.states
  /\ call.name \in Names \ NamesOf(d) /\ call.name # d.start /\ call.actions = Calls
  /\ \A i \in DOMAIN d.states : d.states[i].name \in Names
  /\ \A i \in out : /\ d.states[i].name # entry
                    /\ call.name \notin Targets(d.states[i])
                    /\ d.states[i].actions # Calls

LEMMA CalledIs ==
  ASSUME NEW d, NEW e, NEW out, NEW entry \in Names, NEW call,
         Stays(d, e, out, entry, call), StaysApart(d, out, entry, call)
  PROVE  {e.states[i].name : i \in {j \in DOMAIN e.states : e.states[j].actions = Calls}} = {call.name}
  <1>1. \A j \in DOMAIN e.states : e.states[j] = call \/ e.states[j].actions # Calls
    BY DEF Stays, StaysApart, Kin
  <1>2. \E j \in DOMAIN e.states : e.states[j] = call
    BY DEF Stays
  <1>3. QED  BY <1>1, <1>2 DEF StaysApart

(* What leads to the invocation leads to the entry.                        *)
Outside(e, entry, call) ==
  {Back(g, call.name, entry) : g \in {h \in RealEdges(e) : h.from # call.name}}

Enters(d, f) == d.start # None /\ f = Edge(StartNode, d.start, "start")

LeftBy(d, S, f) == \E i \in S : f \in EdgesFrom(d.states[i], d.states[i].transition)

LEMMA OuterEdges ==
  ASSUME NEW d, NEW e, NEW out, NEW entry \in Names, NEW call,
         Stays(d, e, out, entry, call), StaysApart(d, out, entry, call), NEW f
  PROVE  f \in Outside(e, entry, call) <=> Enters(d, f) \/ LeftBy(d, out, f)
  <1> DEFINE n == call.name
             Opens(x) == Edge(StartNode, x, "start")
  <1>1. /\ n \in Names /\ n # d.start /\ n # StartNode
        /\ \A i \in out : d.states[i].name # n /\ d.states[i].name # entry
                          /\ n \notin Targets(d.states[i])
    BY NodesAssumption DEF StaysApart, NamesOf
  <1>2. e.start = Redirect(d.start, entry, n)
    BY DEF Stays
  <1>3. e.start # None <=> d.start # None
    BY <1>1, <1>2, NoneAssumption DEF Redirect
  <1>4. \A x : Opens(x).from = StartNode /\ Back(Opens(x), n, entry) = Opens(Redirect(x, n, entry))
    BY DEF Back, Edge
  <1>5. Back(Opens(e.start), n, entry) = Opens(d.start)
    BY <1>1, <1>2, <1>4 DEF Redirect
  <1>6. ASSUME NEW i \in out, NEW t, Kin(d.states[i], t, entry, n), NEW h
        PROVE  h \in EdgesFrom(d.states[i], d.states[i].transition) <=>
                 \E g \in EdgesFrom(t, t.transition) : h = Back(g, n, entry)
    BY <1>1, <1>6, KinEdges DEF Kin
  <1>7. \A s : \A g \in EdgesFrom(s, s.transition) : g.from = s.name
    BY EdgeEnds
  <1> HIDE DEF n, Opens
  <1>8. ASSUME NEW g \in RealEdges(e), g.from # n, f = Back(g, n, entry)
        PROVE  \/ d.start # None /\ f = Opens(d.start)
               \/ \E i \in out : f \in EdgesFrom(d.states[i], d.states[i].transition)
    <2>1. CASE e.start # None /\ g = Opens(e.start)
      BY <1>3, <1>5, <1>8, <2>1
    <2>2. ASSUME NEW j \in DOMAIN e.states, g \in EdgesFrom(e.states[j], e.states[j].transition)
          PROVE  \E i \in out : f \in EdgesFrom(d.states[i], d.states[i].transition)
      <3>1. e.states[j] # call
        BY <1>7, <1>8, <2>2 DEF n
      <3>2. PICK i \in out : Kin(d.states[i], e.states[j], entry, n)
        BY <3>1 DEF Stays, n
      <3>3. QED  BY <1>6, <1>8, <2>2, <3>2
    <2>3. QED  BY <2>1, <2>2, RealEdgesAre DEF Opens
  <1>9. ASSUME d.start # None, f = Opens(d.start)
        PROVE  \E g \in RealEdges(e) : g.from # n /\ f = Back(g, n, entry)
    <2>1. Opens(e.start) \in RealEdges(e)
      BY <1>3, <1>9, RealEdgesAre DEF Opens
    <2>2. QED  BY <1>1, <1>4, <1>5, <1>9, <2>1
  <1>10. ASSUME NEW i \in out, f \in EdgesFrom(d.states[i], d.states[i].transition)
         PROVE  \E g \in RealEdges(e) : g.from # n /\ f = Back(g, n, entry)
    <2>1. PICK j \in DOMAIN e.states : Kin(d.states[i], e.states[j], entry, n)
      BY DEF Stays, n
    <2>2. PICK g \in EdgesFrom(e.states[j], e.states[j].transition) : f = Back(g, n, entry)
      BY <1>6, <1>10, <2>1
    <2>3. g \in RealEdges(e)
      BY <2>2, RealEdgesAre
    <2>4. g.from # n
      BY <1>1, <1>7, <2>1, <2>2 DEF Kin
    <2>5. QED  BY <2>2, <2>3, <2>4
  <1>11. f \in Outside(e, entry, call) <=> \E g \in RealEdges(e) : g.from # n /\ f = Back(g, n, entry)
    BY DEF Outside, n
  <1>12. QED  BY <1>8, <1>9, <1>10, <1>11 DEF Opens, Enters, LeftBy

(* The states of the subflow are the others, and keep their edges.         *)
HoldsTheRest(d, out, sub) ==
  /\ \A i \in DOMAIN d.states \ out : \E k \in DOMAIN sub.states : sub.states[k] = d.states[i]
  /\ \A k \in DOMAIN sub.states : \E i \in DOMAIN d.states \ out : sub.states[k] = d.states[i]

LEMMA InnerEdges ==
  ASSUME NEW d, NEW out, NEW sub, HoldsTheRest(d, out, sub),
         \A i \in DOMAIN d.states : d.states[i].name \in Names, NEW f
  PROVE  (f \in RealEdges(sub) /\ f.from # StartNode) <=> LeftBy(d, DOMAIN d.states \ out, f)
  <1>1. \A x : Edge(StartNode, x, "start").from = StartNode
    BY DEF Edge
  <1>2. \A s : \A g \in EdgesFrom(s, s.transition) : g.from = s.name
    BY EdgeEnds
  <1>3. ASSUME f \in RealEdges(sub), f.from # StartNode
        PROVE  \E i \in DOMAIN d.states \ out : f \in EdgesFrom(d.states[i], d.states[i].transition)
    <2>1. PICK k \in DOMAIN sub.states : f \in EdgesFrom(sub.states[k], sub.states[k].transition)
      BY <1>1, <1>3, RealEdgesAre
    <2>2. PICK i \in DOMAIN d.states \ out : sub.states[k] = d.states[i]
      BY DEF HoldsTheRest
    <2>3. QED  BY <2>1, <2>2
  <1>4. ASSUME NEW i \in DOMAIN d.states \ out, f \in EdgesFrom(d.states[i], d.states[i].transition)
        PROVE  f \in RealEdges(sub) /\ f.from # StartNode
    <2>1. PICK k \in DOMAIN sub.states : sub.states[k] = d.states[i]
      BY DEF HoldsTheRest
    <2>2. f \in EdgesFrom(sub.states[k], sub.states[k].transition)
      BY <1>4, <2>1
    <2>3. f \in RealEdges(sub)
      BY <2>2, RealEdgesAre
    <2>4. f.from # StartNode
      BY <1>2, <1>4, NodesAssumption
    <2>5. QED  BY <2>3, <2>4
  <1>5. QED  BY <1>3, <1>4 DEF LeftBy

(* The range leaves its states by its last one, as the invocation does.    *)
LeadsOn(s, t) ==
  \A x : x \in EdgesFrom(t, t.transition) <=>
            \E h \in EdgesFrom(s, s.transition) : x = Edge(t.name, h.to, h.kind)

Chained(d, out, sub, call, last) ==
  /\ last \in DOMAIN d.states \ out /\ LeadsOn(d.states[last], call)
  /\ \A i \in DOMAIN d.states \ out :
       \A f \in EdgesFrom(d.states[i], d.states[i].transition) :
         f.to \in NamesOf(sub) <=> i # last

Exits(e, call) == {h \in RealEdges(e) : h.from = call.name}

LEMMA ExitsAre ==
  ASSUME NEW d, NEW e, NEW out, NEW entry \in Names, NEW call,
         Stays(d, e, out, entry, call), StaysApart(d, out, entry, call), NEW x
  PROVE  x \in Exits(e, call) <=> x \in EdgesFrom(call, call.transition)
  <1>1. \A s : \A g \in EdgesFrom(s, s.transition) : g.from = s.name
    BY EdgeEnds
  <1>2. \A y : Edge(StartNode, y, "start").from = StartNode
    BY DEF Edge
  <1>3. call.name # StartNode /\ \A i \in out : d.states[i].name # call.name
    BY NodesAssumption DEF StaysApart, NamesOf
  <1>4. ASSUME x \in RealEdges(e), x.from = call.name PROVE x \in EdgesFrom(call, call.transition)
    <2>1. PICK j \in DOMAIN e.states : x \in EdgesFrom(e.states[j], e.states[j].transition)
      BY <1>2, <1>3, <1>4, RealEdgesAre
    <2>2. e.states[j].name = call.name
      BY <1>1, <1>4, <2>1
    <2>3. e.states[j] = call
      BY <1>3, <2>2 DEF Stays, Kin
    <2>4. QED  BY <2>1, <2>3
  <1>5. ASSUME x \in EdgesFrom(call, call.transition) PROVE x \in RealEdges(e) /\ x.from = call.name
    <2>1. PICK j \in DOMAIN e.states : e.states[j] = call
      BY DEF Stays
    <2>2. QED  BY <1>1, <1>5, <2>1, RealEdgesAre
  <1>6. QED  BY <1>4, <1>5 DEF Exits

(* The edges of the subflow, those that leave it taken on by the exits.    *)
Inside(sub) == {g \in RealEdges(sub) : g.from # StartNode}

Within(sub) == {g \in Inside(sub) : g.to \in NamesOf(sub)}

TakenOn(e, sub, call) ==
  UNION {{Edge(g.from, x.to, x.kind) : x \in Exits(e, call)} : g \in Inside(sub) \ Within(sub)}

LEMMA TakenOnIs ==
  ASSUME NEW d, NEW e, NEW out, NEW entry \in Names, NEW call, NEW sub, NEW last,
         Stays(d, e, out, entry, call), StaysApart(d, out, entry, call),
         HoldsTheRest(d, out, sub), Chained(d, out, sub, call, last), NEW f
  PROVE  f \in Within(sub) \cup TakenOn(e, sub, call) <=> f \in Inside(sub)
  <1> DEFINE s == d.states[last]
  <1>1. \A g : g \in Inside(sub) <=> LeftBy(d, DOMAIN d.states \ out, g)
    BY InnerEdges DEF StaysApart, Inside
  <1>2. \A g : g \in Inside(sub) \ Within(sub) <=> g \in EdgesFrom(s, s.transition)
    <2> SUFFICES ASSUME NEW g
                 PROVE  g \in Inside(sub) \ Within(sub) <=> g \in EdgesFrom(s, s.transition)
      OBVIOUS
    <2>1. ASSUME g \in Inside(sub) \ Within(sub) PROVE g \in EdgesFrom(s, s.transition)
      <3>1. PICK i \in DOMAIN d.states \ out : g \in EdgesFrom(d.states[i], d.states[i].transition)
        BY <1>1, <2>1 DEF LeftBy
      <3>2. i = last
        BY <2>1, <3>1 DEF Chained, Within
      <3>3. QED  BY <3>1, <3>2
    <2>2. ASSUME g \in EdgesFrom(s, s.transition) PROVE g \in Inside(sub) \ Within(sub)
      <3>1. last \in DOMAIN d.states \ out /\ g.to \notin NamesOf(sub)
        BY <2>2 DEF Chained
      <3>2. g \in Inside(sub)
        BY <1>1, <2>2, <3>1 DEF LeftBy
      <3>3. QED  BY <3>1, <3>2 DEF Within
    <2>3. QED  BY <2>1, <2>2
  <1>3. \A g \in EdgesFrom(s, s.transition) : g = Edge(s.name, g.to, g.kind)
    BY EdgesFromIs DEF Leaves, Edge
  <1>4. \A x : x \in Exits(e, call) <=>
                 \E h \in EdgesFrom(s, s.transition) : x = Edge(call.name, h.to, h.kind)
    BY ExitsAre DEF Chained, LeadsOn
  <1> HIDE DEF s
  <1>5. ASSUME f \in TakenOn(e, sub, call) PROVE f \in Inside(sub)
    <2>1. PICK g \in Inside(sub) \ Within(sub), x \in Exits(e, call) : f = Edge(g.from, x.to, x.kind)
      BY <1>5 DEF TakenOn
    <2>2. PICK h \in EdgesFrom(s, s.transition) : x = Edge(call.name, h.to, h.kind)
      BY <1>4
    <2>3. g.from = s.name /\ h = Edge(s.name, h.to, h.kind)
      <3>1. g = Edge(s.name, g.to, g.kind) /\ h = Edge(s.name, h.to, h.kind)
        BY <1>2, <1>3
      <3>2. Edge(s.name, g.to, g.kind).from = s.name
        BY DEF Edge
      <3>3. QED  BY <3>1, <3>2
    <2>4. x.to = h.to /\ x.kind = h.kind
      BY <2>2 DEF Edge
    <2>5. f = h
      BY <2>1, <2>3, <2>4
    <2>6. QED  BY <1>2, <2>5
  <1>6. ASSUME f \in Inside(sub) \ Within(sub) PROVE f \in TakenOn(e, sub, call)
    <2>1. f \in EdgesFrom(s, s.transition) /\ f = Edge(s.name, f.to, f.kind)
      BY <1>2, <1>3, <1>6
    <2> DEFINE x == Edge(call.name, f.to, f.kind)
    <2>2. x \in Exits(e, call) /\ x.to = f.to /\ x.kind = f.kind
      BY <1>4, <2>1 DEF Edge
    <2>3. f.from = s.name
      <3>1. Edge(s.name, f.to, f.kind).from = s.name
        BY DEF Edge
      <3>2. QED  BY <2>1, <3>1
    <2> HIDE DEF x
    <2>4. f = Edge(f.from, x.to, x.kind)
      BY <2>1, <2>2, <2>3
    <2>5. QED  BY <1>6, <2>2, <2>4 DEF TakenOn
  <1>7. QED  BY <1>5, <1>6 DEF Within

LEMMA FlowIsWhole ==
  ASSUME NEW d, NEW e, NEW out, NEW entry \in Names, NEW call, NEW sub, NEW last,
         Stays(d, e, out, entry, call), StaysApart(d, out, entry, call),
         HoldsTheRest(d, out, sub), Chained(d, out, sub, call, last)
  PROVE  InlinedEdges(e, entry, sub) = RealEdges(d)
  <1> DEFINE n == call.name
             Inner == Inside(sub)
             Outer == Outside(e, entry, call)
             rest == DOMAIN d.states \ out
  <1>1. InlinedEdges(e, entry, sub) = Outer \cup (Within(sub) \cup TakenOn(e, sub, call))
    <2> DEFINE called == {e.states[i].name : i \in {j \in DOMAIN e.states : e.states[j].actions = Calls}}
               exits == {h \in RealEdges(e) : h.from \in called}
               inner == {g \in RealEdges(sub) : g.from # StartNode}
               To(x) == IF x \in called THEN entry ELSE x
    <2>1. called = {n}
      BY CalledIs
    <2>2. InlinedEdges(e, entry, sub) =
            {Edge(g.from, To(g.to), g.kind) : g \in RealEdges(e) \ exits}
              \cup {g \in inner : g.to \in NamesOf(sub)}
              \cup UNION {{Edge(g.from, x.to, x.kind) : x \in exits} :
                            g \in {h \in inner : ~ (h.to \in NamesOf(sub))}}
      BY DEF InlinedEdges, Calls
    <2>3. exits = Exits(e, call)
      BY <2>1 DEF Exits
    <2>4. inner = Inside(sub)
      BY DEF Inside
    <2>5. RealEdges(e) \ exits = {h \in RealEdges(e) : h.from # n}
      BY <2>3 DEF Exits
    <2>6. \A x : To(x) = Redirect(x, n, entry)
      BY <2>1 DEF Redirect
    <2> HIDE DEF called, n, exits, inner, To
    <2>7. {Edge(g.from, To(g.to), g.kind) : g \in RealEdges(e) \ exits} = Outer
      BY <2>5, <2>6 DEF Outside, Back, n
    <2>8. {g \in inner : g.to \in NamesOf(sub)} = Within(sub)
      BY <2>4 DEF Within
    <2>9. {h \in inner : ~ (h.to \in NamesOf(sub))} = Inside(sub) \ Within(sub)
      BY <2>4 DEF Within
    <2>10. UNION {{Edge(g.from, x.to, x.kind) : x \in exits} :
                    g \in {h \in inner : ~ (h.to \in NamesOf(sub))}} = TakenOn(e, sub, call)
      BY <2>3, <2>9 DEF TakenOn
    <2> HIDE DEF Outer
    <2>11. QED  BY <2>2, <2>7, <2>8, <2>10
  <1>2. \A f : f \in Outer <=> Enters(d, f) \/ LeftBy(d, out, f)
    BY OuterEdges
  <1>3. \A f : f \in Inner <=> LeftBy(d, rest, f)
    <2> SUFFICES ASSUME NEW f PROVE f \in Inner <=> LeftBy(d, rest, f)
      OBVIOUS
    <2>1. (f \in RealEdges(sub) /\ f.from # StartNode) <=> LeftBy(d, rest, f)
      BY InnerEdges DEF StaysApart
    <2>2. QED  BY <2>1 DEF Inside
  <1>4. \A f : f \in RealEdges(d) <=> Enters(d, f) \/ LeftBy(d, DOMAIN d.states, f)
    BY RealEdgesAre DEF Enters, LeftBy
  <1>5. DOMAIN d.states = out \cup rest
    BY DEF StaysApart
  <1> HIDE DEF Outer, Inner, rest
  <1>6. \A f : f \in RealEdges(d) <=> f \in Outer \cup Inner
    BY <1>2, <1>3, <1>4, <1>5 DEF LeftBy
  <1>7. \A f : f \in Within(sub) \cup TakenOn(e, sub, call) <=> f \in Inside(sub)
    BY TakenOnIs
  <1>8. Inner = Within(sub) \cup TakenOn(e, sub, call)
    BY <1>7 DEF Inner
  <1>9. QED  BY <1>1, <1>6, <1>8

-----------------------------------------------------------------------------
(* Nothing names an extracted state any more.                              *)
LEMMA NamesAreLeft ==
  ASSUME NEW d, NEW e, NEW out, NEW entry \in Names, NEW call, NEW selected,
         Stays(d, e, out, entry, call), StaysApart(d, out, entry, call),
         selected \subseteq NamesOf(d), d.start \notin selected \ {entry},
         \A i \in out : Targets(d.states[i]) \cap selected \subseteq {entry},
         Targets(call) \cap selected = {}
  PROVE  AllReferences(e) \cap selected = {}
  <1>1. call.name \notin selected
    BY DEF StaysApart
  <1>2. e.start \notin selected
    BY <1>1 DEF Stays, Redirect
  <1>3. ASSUME NEW j \in DOMAIN e.states, NEW x \in Targets(e.states[j])
        PROVE  x \notin selected
    <2>1. CASE e.states[j] = call
      BY <1>3, <2>1
    <2>2. ASSUME NEW i \in out, Kin(d.states[i], e.states[j], entry, call.name)
          PROVE  x \notin selected
      <3>1. PICK y \in Targets(d.states[i]) : x = Redirect(y, entry, call.name)
        BY <1>3, <2>2, KinTargets DEF Kin
      <3>2. QED  BY <1>1, <3>1 DEF Redirect
    <2>3. QED  BY <2>1, <2>2 DEF Stays
  <1>4. QED  BY <1>2, <1>3 DEF AllReferences

(* The names of a range, when no two states share one.                     *)
NamesIn(d, from, to) == {d.states[i].name : i \in from .. to}

Spans(d, from, to, names) ==
  /\ from \in DOMAIN d.states /\ to \in DOMAIN d.states /\ from <= to
  /\ Len(names) = to - from + 1 /\ DOMAIN names = 1 .. to - from + 1
  /\ \A k \in DOMAIN names : names[k] = d.states[from + k - 1].name

LEMMA SpanNames ==
  ASSUME NEW d \in Document, UniqueNames(d.states), NEW from, NEW to, NEW names,
         Spans(d, from, to, names)
  PROVE  /\ names[1] = d.states[from].name
         /\ \A k \in DOMAIN names : IndexOf(d.states, names[k]) = from + k - 1
         /\ {names[k] : k \in DOMAIN names} = NamesIn(d, from, to)
         /\ {from + k - 1 : k \in DOMAIN names} = from .. to
  <1>1. /\ Len(d.states) \in Nat /\ DOMAIN d.states = 1 .. Len(d.states)
        /\ d.states \in Seq(State)
    BY DocumentIs
  <1>2. from \in Nat /\ to \in Nat /\ from <= to /\ 1 <= from /\ to <= Len(d.states)
        /\ DOMAIN names = 1 .. to - from + 1
        /\ \A k \in DOMAIN names : names[k] = d.states[from + k - 1].name
    BY <1>1 DEF Spans
  <1>3. \A k \in DOMAIN names : from + k - 1 \in from .. to /\ from + k - 1 \in DOMAIN d.states
    BY <1>1, <1>2
  <1>4. \A i \in from .. to : /\ i - from + 1 \in DOMAIN names
                              /\ from + (i - from + 1) - 1 = i
    BY <1>2
  <1>5. names[1] = d.states[from].name
    BY <1>2
  <1>6. ASSUME NEW k \in DOMAIN names PROVE IndexOf(d.states, names[k]) = from + k - 1
    <2> DEFINE i == from + k - 1
               j == IndexOf(d.states, names[k])
    <2>1. i \in DOMAIN d.states /\ d.states[i].name = names[k]
      BY <1>2, <1>3
    <2> HIDE DEF i
    <2>2. j \in DOMAIN d.states /\ d.states[j].name = names[k]
      BY <1>1, <2>1, IndexOfIs
    <2> HIDE DEF j
    <2>3. i = j
      BY <2>1, <2>2 DEF UniqueNames
    <2>4. QED  BY <2>3 DEF i, j
  <1>7. {from + k - 1 : k \in DOMAIN names} = from .. to
    BY <1>3, <1>4
  <1>8. {names[k] : k \in DOMAIN names} = NamesIn(d, from, to)
    <2>1. \A k \in DOMAIN names : names[k] \in NamesIn(d, from, to)
      BY <1>2, <1>3 DEF NamesIn
    <2>2. \A i \in from .. to : d.states[i].name = names[i - from + 1]
      BY <1>2, <1>4
    <2>3. \A x \in NamesIn(d, from, to) : \E k \in DOMAIN names : x = names[k]
      BY <1>4, <2>2 DEF NamesIn
    <2>4. QED  BY <2>1, <2>3
  <1>9. QED  BY <1>5, <1>6, <1>7, <1>8

(* What an orderly selection means for the states of the range.            *)
OrderlyRange(d, from, to, out) ==
  LET selected == NamesIn(d, from, to)
      entry == d.states[from].name
  IN /\ d.states[to].transition \notin selected
     /\ d.start \notin selected \ {entry}
     /\ \A i \in out : Targets(d.states[i]) \cap selected \subseteq {entry}
     /\ \A i \in from .. to - 1 : d.states[i].transition = d.states[i + 1].name
     /\ \A i \in from .. to : d.states[i].end => d.states[i].transition = None

LEMMA OrderlyIs ==
  ASSUME NEW d \in Document, UniqueNames(d.states), NEW from, NEW to, NEW names,
         Spans(d, from, to, names), Orderly(d, names)
  PROVE  OrderlyRange(d, from, to, DOMAIN d.states \ (from .. to))
  <1> DEFINE at == [k \in DOMAIN names |-> IndexOf(d.states, names[k])]
             selected == {names[k] : k \in DOMAIN names}
             places == {at[k] : k \in DOMAIN names}
  <1>1. /\ names[1] = d.states[from].name
        /\ \A k \in DOMAIN names : IndexOf(d.states, names[k]) = from + k - 1
        /\ {names[k] : k \in DOMAIN names} = NamesIn(d, from, to)
        /\ {from + k - 1 : k \in DOMAIN names} = from .. to
    BY SpanNames
  <1>2. /\ d.states[at[Len(names)]].transition \notin selected
        /\ d.start \notin selected \ {names[1]}
        /\ \A i \in DOMAIN d.states \ places :
             (Targets(d.states[i]) \cap selected) \subseteq {names[1]}
    BY DEF Orderly
  <1>3. places = from .. to
    BY <1>1
  <1>4. at[Len(names)] = to
    <2>1. from \in Nat /\ to \in Nat /\ from <= to
      BY DocumentIs DEF Spans
    <2>2. Len(names) = to - from + 1 /\ Len(names) \in DOMAIN names
      BY <2>1 DEF Spans
    <2>3. QED  BY <1>1, <2>1, <2>2
  <1>5. from \in Nat /\ to \in Nat /\ from <= to /\ DOMAIN names = 1 .. to - from + 1
        /\ Len(names) = to - from + 1 /\ \A k \in DOMAIN names : names[k] = d.states[from + k - 1].name
    BY DocumentIs DEF Spans
  <1>6. /\ \A k \in 1 .. to - from : d.states[from + k - 1].transition = d.states[from + k].name
        /\ \A k \in 1 .. to - from + 1 :
             d.states[from + k - 1].end => d.states[from + k - 1].transition = None
    <2>1. /\ \A k \in 1 .. Len(names) - 1 : d.states[at[k]].transition = names[k + 1]
          /\ \A k \in DOMAIN names : d.states[at[k]].end => d.states[at[k]].transition = None
      BY DEF Orderly
    <2>2. \A k \in DOMAIN names : at[k] = from + k - 1
      BY <1>1
    <2> HIDE DEF at
    <2>3. ASSUME NEW k \in 1 .. to - from
          PROVE  d.states[from + k - 1].transition = d.states[from + k].name
      <3>1. k \in DOMAIN names /\ k + 1 \in DOMAIN names /\ k \in 1 .. Len(names) - 1
        BY <1>5
      <3>2. names[k + 1] = d.states[from + (k + 1) - 1].name
        BY <1>5, <3>1
      <3>3. from + (k + 1) - 1 = from + k
        BY <1>5
      <3>4. QED  BY <2>1, <2>2, <3>1, <3>2, <3>3
    <2>4. ASSUME NEW k \in 1 .. to - from + 1
          PROVE  d.states[from + k - 1].end => d.states[from + k - 1].transition = None
      BY <1>5, <2>1, <2>2
    <2>5. QED  BY <2>3, <2>4
  <1>7. \A i \in from .. to - 1 : d.states[i].transition = d.states[i + 1].name
    <2> SUFFICES ASSUME NEW i \in from .. to - 1
                 PROVE  d.states[i].transition = d.states[i + 1].name
      OBVIOUS
    <2>1. i - from + 1 \in 1 .. to - from /\ from + (i - from + 1) - 1 = i
          /\ from + (i - from + 1) = i + 1
      BY <1>5
    <2> DEFINE k == i - from + 1
    <2>2. k \in 1 .. to - from /\ from + k - 1 = i /\ from + k = i + 1
      BY <2>1
    <2> HIDE DEF k
    <2>3. QED  BY <1>6, <2>2
  <1>8. \A i \in from .. to : d.states[i].end => d.states[i].transition = None
    <2> SUFFICES ASSUME NEW i \in from .. to
                 PROVE  d.states[i].end => d.states[i].transition = None
      OBVIOUS
    <2> DEFINE k == i - from + 1
    <2>1. k \in 1 .. to - from + 1 /\ from + k - 1 = i
      BY <1>5
    <2> HIDE DEF k
    <2>2. QED  BY <1>6, <2>1
  <1> HIDE DEF at, selected, places
  <1>9. selected = NamesIn(d, from, to)
    BY <1>1 DEF selected
  <1>10. QED  BY <1>1, <1>2, <1>3, <1>4, <1>7, <1>8, <1>9 DEF OrderlyRange

(* The subflow has the states of the range, in their order.                *)
NamesShown(sub) == [k \in DOMAIN sub.states |-> sub.states[k].name]

LEMMA ExtractedSpans ==
  ASSUME NEW d \in Document, NEW names, NEW sub, sub = Extracted(d, names), NEW from, NEW to,
         from = IndexOf(d.states, names[1]), to = IndexOf(d.states, names[Len(names)]),
         from \in DOMAIN d.states, to \in DOMAIN d.states, NamesShown(sub) # << >>
  PROVE  /\ Spans(d, from, to, NamesShown(sub))
         /\ HoldsTheRest(d, DOMAIN d.states \ (from .. to), sub)
  <1>1. /\ Len(d.states) \in Nat /\ DOMAIN d.states = 1 .. Len(d.states)
        /\ d.states \in Seq(State)
    BY DocumentIs
  <1>2. from \in Nat /\ to \in Nat /\ 1 <= from /\ from <= Len(d.states)
        /\ 1 <= to /\ to <= Len(d.states)
    BY <1>1
  <1>3. sub.states = Span(d, from, to)
    BY DEF Extracted, Document
  <1>4. from <= to
    <2> SUFFICES ASSUME ~ (from <= to) PROVE FALSE
      OBVIOUS
    <2>1. sub.states = << >>
      BY <1>3 DEF Span
    <2>2. QED  BY <2>1 DEF NamesShown
  <1>5. /\ Len(sub.states) = to - from + 1 /\ DOMAIN sub.states = 1 .. to - from + 1
        /\ \A k \in DOMAIN sub.states : sub.states[k] = d.states[from + k - 1]
    <2>1. sub.states = SubSeq(d.states, from, to)
      BY <1>3, <1>4 DEF Span
    <2> DEFINE seq == d.states
               part == SubSeq(seq, from, to)
    <2>2. seq \in Seq(State) /\ from \in 1 .. Len(seq) + 1 /\ to \in from - 1 .. Len(seq)
      BY <1>1, <1>2, <1>4
    <2> HIDE DEF seq
    <2>3. /\ Len(part) = to - from + 1
          /\ \A k \in 1 .. to - from + 1 : part[k] = seq[from + k - 1]
          /\ part \in Seq(State)
      <3>1. \A k \in from .. to : seq[k] \in State
        BY <1>1, <1>2 DEF seq
      <3>2. from \in Int /\ to \in Int /\ from <= to
        BY <1>2, <1>4
      <3>3. /\ part \in Seq(State) /\ Len(part) = IF from <= to THEN to - from + 1 ELSE 0
            /\ \A k \in 1 .. to - from + 1 : part[k] = seq[from + k - 1]
        BY <3>1, <3>2, SubSeqProperties
      <3>4. QED  BY <3>2, <3>3
    <2>4. DOMAIN part = 1 .. to - from + 1
      BY <2>3, LenProperties
    <2>5. QED  BY <2>1, <2>3, <2>4 DEF seq
  <1>6. NamesShown(sub) = [k \in 1 .. to - from + 1 |-> d.states[from + k - 1].name]
    BY <1>5 DEF NamesShown
  <1>7. Spans(d, from, to, NamesShown(sub))
    <2> DEFINE m == to - from + 1
               shown == NamesShown(sub)
    <2>1. m \in Nat
      BY <1>2, <1>4
    <2>2. DOMAIN shown = 1 .. m /\ \A k \in 1 .. m : shown[k] = d.states[from + k - 1].name
      BY <1>6
    <2>3. Len(shown) = m
      <3> DEFINE f == [k \in 1 .. m |-> d.states[from + k - 1].name]
      <3> HIDE DEF m
      <3>1. \E S : f \in [1 .. m -> S]
        <4>1. f \in [1 .. m -> {f[k] : k \in 1 .. m}]
          OBVIOUS
        <4>2. QED  BY <4>1
      <3>2. f \in Seq({f[k] : k \in 1 .. m}) /\ Len(f) = m
        <4> HIDE DEF f
        <4>1. QED  BY <2>1, <3>1, MakeSeq
      <3>3. QED  BY <1>6, <3>2 DEF m
    <2>4. QED  BY <1>1, <1>4, <2>2, <2>3 DEF Spans
  <1>8. HoldsTheRest(d, DOMAIN d.states \ (from .. to), sub)
    <2>1. DOMAIN d.states \ (DOMAIN d.states \ (from .. to)) = from .. to
      BY <1>1, <1>2
    <2>2. \A k \in DOMAIN sub.states : from + k - 1 \in from .. to
      BY <1>2, <1>4, <1>5
    <2>3. ASSUME NEW i \in from .. to
          PROVE  i - from + 1 \in DOMAIN sub.states /\ from + (i - from + 1) - 1 = i
      <3>1. i \in Int /\ from <= i /\ i <= to
        BY <1>2
      <3>2. DOMAIN sub.states = 1 .. to - from + 1
        BY <1>5
      <3> DEFINE S == DOMAIN sub.states
      <3> HIDE DEF S
      <3>3. i - from + 1 \in S
        BY <1>2, <3>1, <3>2 DEF S
      <3>4. from + (i - from + 1) - 1 = i
        BY <1>2, <3>1
      <3>5. QED  BY <3>3, <3>4 DEF S
    <2>4. ASSUME NEW i \in from .. to
          PROVE  i - from + 1 \in DOMAIN sub.states /\ sub.states[i - from + 1] = d.states[i]
      <3> DEFINE k == i - from + 1
      <3>1. k \in DOMAIN sub.states /\ from + k - 1 = i
        BY <2>3
      <3> HIDE DEF k
      <3>2. sub.states[k] = d.states[i]
        BY <1>5, <3>1
      <3>3. QED  BY <3>1, <3>2 DEF k
    <2>5. QED  BY <1>5, <2>1, <2>2, <2>3, <2>4 DEF HoldsTheRest
  <1>9. QED  BY <1>7, <1>8

(* The invocation calls the subflow, and goes where the range went.        *)
LEMMA InvocationCalls ==
  ASSUME NEW d \in Document, NEW names, NEW to \in DOMAIN d.states,
         to = IndexOf(d.states, names[Len(names)])
  PROVE  /\ Invocation(d, names).actions = Calls
         /\ Targets(Invocation(d, names)) \subseteq {d.states[to].transition}
         /\ ~ Uncertain(Invocation(d, names))
         /\ Invocation(d, names).end = d.states[to].end
         /\ Invocation(d, names).transition = IF d.states[to].end THEN None ELSE d.states[to].transition
  <1> DEFINE n == FreeName(NamesOf(d), InvocationName)
             last == d.states[to]
             target == IF last.end THEN None ELSE last.transition
             call == Invocation(d, names)
  <1>1. call = [NewState(n, "operation") EXCEPT !.actions = Calls, !.transition = target,
                                                !.end = last.end]
    BY DEF Invocation, Calls
  <1> HIDE DEF call, n, target, last
  <1>2. /\ call.actions = Calls /\ call.transition = target /\ call.end = last.end
        /\ call.conditions = << >> /\ call.errors = << >> /\ call.default = None
    BY <1>1 DEF NewState
  <1>3. Targets(call) \subseteq {target} \ {None}
    BY <1>2 DEF Targets, BranchTargets
  <1>4. {target} \ {None} \subseteq {last.transition}
    BY DEF target
  <1>5. QED  BY <1>2, <1>3, <1>4 DEF call, last, target, Uncertain

(* A state with no branches has one way on, or ends.                       *)
LEMMA PlainEdges ==
  ASSUME NEW s, ~ Uncertain(s), NEW f
  PROVE  f \in EdgesFrom(s, s.transition) <=>
           \/ s.transition # None /\ f = Edge(s.name, s.transition, "transition")
           \/ s.end /\ f = Edge(s.name, EndNode, "terminal")
  <1>1. s.conditions = << >> /\ s.default = None /\ s.errors = << >>
    BY DEF Uncertain
  <1>2. QED  BY <1>1, EdgesFromIs DEF Leaves

LEMMA RangeIsChained ==
  ASSUME NEW d \in Document, NEW from, NEW to, NEW out, NEW call, NEW sub,
         out = DOMAIN d.states \ (from .. to), from \in DOMAIN d.states, to \in DOMAIN d.states,
         from <= to, OrderlyRange(d, from, to, out), NamesOf(sub) = NamesIn(d, from, to),
         \A i \in from .. to : ~ Uncertain(d.states[i]),
         ~ Uncertain(call), call.end = d.states[to].end,
         call.transition = IF d.states[to].end THEN None ELSE d.states[to].transition
  PROVE  Chained(d, out, sub, call, to)
  <1>1. /\ from \in Nat /\ to \in Nat /\ from .. to \subseteq DOMAIN d.states
        /\ DOMAIN d.states \ out = from .. to
    BY DocumentIs
  <1>2. /\ d.states[to].transition \notin NamesIn(d, from, to)
        /\ \A i \in from .. to - 1 : d.states[i].transition = d.states[i + 1].name
        /\ \A i \in from .. to : d.states[i].end => d.states[i].transition = None
    BY DEF OrderlyRange
  <1>3. \A i \in from .. to : d.states[i].name \in Names /\ d.states[i].name \in NamesIn(d, from, to)
    BY <1>1, DocumentIs DEF State, NamesIn
  <1>4. NamesIn(d, from, to) \subseteq Names /\ EndNode \notin Names /\ None \notin Names
    BY <1>3, NodesAssumption, NoneAssumption DEF NamesIn
  <1>5. \A name, t, kind : Edge(name, t, kind).to = t /\ Edge(name, t, kind).kind = kind
    BY DEF Edge
  <1>6. ASSUME NEW i \in from .. to, NEW f \in EdgesFrom(d.states[i], d.states[i].transition)
        PROVE  f.to \in NamesOf(sub) <=> i # to
    <2>1. \/ d.states[i].transition # None /\ f.to = d.states[i].transition
          \/ d.states[i].end /\ f.to = EndNode
      BY <1>5, <1>6, PlainEdges
    <2>2. CASE i = to
      BY <1>2, <1>4, <2>1, <2>2
    <2>3. CASE i # to
      <3>1. i \in from .. to - 1 /\ i + 1 \in from .. to
        BY <1>1, <2>3
      <3>2. d.states[i].transition \in NamesIn(d, from, to)
        BY <1>2, <1>3, <3>1
      <3>3. ~ d.states[i].end
        BY <1>2, <1>4, <3>2
      <3>4. QED  BY <2>1, <2>3, <3>2, <3>3
    <2>4. QED  BY <2>2, <2>3
  <1>7. LeadsOn(d.states[to], call)
    <2> DEFINE s == d.states[to]
    <2>1. to \in from .. to
      BY <1>1
    <2>2. ~ Uncertain(s) /\ call.end = s.end /\ call.transition = s.transition
      BY <1>2, <2>1
    <2> HIDE DEF s
    <2>3. ASSUME NEW x
          PROVE  x \in EdgesFrom(call, call.transition) <=>
                   \E h \in EdgesFrom(s, s.transition) : x = Edge(call.name, h.to, h.kind)
      <3>1. x \in EdgesFrom(call, call.transition) <=>
              \/ s.transition # None /\ x = Edge(call.name, s.transition, "transition")
              \/ s.end /\ x = Edge(call.name, EndNode, "terminal")
        BY <2>2, PlainEdges
      <3>2. \A h : h \in EdgesFrom(s, s.transition) <=>
                     \/ s.transition # None /\ h = Edge(s.name, s.transition, "transition")
                     \/ s.end /\ h = Edge(s.name, EndNode, "terminal")
        BY <2>2, PlainEdges
      <3>3. QED  BY <1>5, <3>1, <3>2
    <2>4. QED  BY <2>3 DEF LeadsOn, s
  <1>8. QED  BY <1>1, <1>6, <1>7 DEF Chained

(* The extraction of a selection that is in order.                         *)
InOrder(d, e, sub) ==
  /\ \A i \in DOMAIN d.states : SubflowCalls(d, d.states[i]) = {}
  /\ NothingInline(d)
  /\ UniqueNames(d.states)
  /\ Orderly(d, NamesShown(sub))
  /\ (NamesOf(e) \ NamesOf(d)) \cap AllReferences(d) = {}

FlowKept(d, e, sub) ==
  /\ AllReferences(e) \cap {NamesShown(sub)[k] : k \in DOMAIN NamesShown(sub)} = {}
  /\ InlinedEdges(e, NamesShown(sub)[1], sub) = RealEdges(d)

LEMMA ExtractionFlow ==
  ASSUME NEW d \in Document, Len(d.states) <= MaxStates, NEW A, NEW names \in Selections(A),
         ~ Refusal(d, names), NEW e, e = Caller(d, names), NEW sub, sub = Extracted(d, names),
         InOrder(d, e, sub)
  PROVE  FlowKept(d, e, sub)
  <1> DEFINE from == IndexOf(d.states, names[1])
             to == IndexOf(d.states, names[Len(names)])
             call == Invocation(d, names)
             entry == names[1]
             out == DOMAIN d.states \ (from .. to)
             selected == NamesIn(d, from, to)
             shown == NamesShown(sub)
  <1>1. /\ entry \in Names /\ from \in DOMAIN d.states /\ to \in DOMAIN d.states
    BY SelectionIs
  <1>2. d.states[from].name = entry
    BY <1>1, DocumentIs, IndexOfIs
  <1>3. call.name \in Names /\ call.name \notin NamesOf(d)
    BY <1>1, InvocationIs
  <1>4. /\ call.actions = Calls /\ Targets(call) \subseteq {d.states[to].transition}
        /\ ~ Uncertain(call) /\ call.end = d.states[to].end
        /\ call.transition = IF d.states[to].end THEN None ELSE d.states[to].transition
    BY <1>1, InvocationCalls
  <1>5. Replaces(d, e, from, to, entry, call)
    BY CallerIs
  <1>6. /\ Orderly(d, shown) /\ NothingInline(d) /\ UniqueNames(d.states)
        /\ \A i \in DOMAIN d.states : SubflowCalls(d, d.states[i]) = {}
        /\ (NamesOf(e) \ NamesOf(d)) \cap AllReferences(d) = {}
    BY DEF InOrder
  <1>7. sub = Extracted(d, names)
    OBVIOUS
  <1>8. from = IndexOf(d.states, names[1]) /\ to = IndexOf(d.states, names[Len(names)])
    OBVIOUS
  <1> HIDE DEF from, to, call, entry
  <1>9. shown # << >>
    BY <1>6 DEF Orderly
  <1>10. Spans(d, from, to, shown) /\ HoldsTheRest(d, out, sub)
    BY <1>1, <1>7, <1>8, <1>9, ExtractedSpans
  <1> HIDE DEF shown
  <1>11. OrderlyRange(d, from, to, out)
    BY <1>6, <1>10, OrderlyIs
  <1>12. shown[1] = entry /\ {shown[k] : k \in DOMAIN shown} = selected
    BY <1>2, <1>6, <1>10, SpanNames
  <1>13. \A i \in DOMAIN d.states : d.states[i].name \in Names
    BY DocumentIs DEF State
  <1>14. \A i \in out : i \in DOMAIN d.states /\ d.states[i].name # entry
    <2>1. from \in Nat /\ to \in Nat /\ from <= to
      BY <1>10, DocumentIs DEF Spans
    <2>2. from \notin out
      BY <2>1
    <2>3. QED  BY <1>1, <1>2, <1>6, <2>2 DEF UniqueNames
  <1>15. call.name \notin AllReferences(d)
    <2>1. \E j \in DOMAIN e.states : e.states[j] = call
      BY <1>5 DEF Replaces
    <2>2. call.name \in NamesOf(e)
      BY <2>1 DEF NamesOf
    <2>3. QED  BY <1>3, <1>6, <2>2
  <1>16. \A i \in DOMAIN d.states : d.states[i].actions # Calls
    <2> SUFFICES ASSUME NEW i \in DOMAIN d.states, d.states[i].actions = Calls PROVE FALSE
      OBVIOUS
    <2>1. Visible(d, d.states[i], "actions")
      BY <1>6 DEF NothingInline, Visible
    <2>2. 1 \in DOMAIN Calls /\ Calls[1].key = "subFlowRef"
      BY DEF Calls
    <2>3. 1 \in SubflowCalls(d, d.states[i])
      BY <2>1, <2>2 DEF SubflowCalls
    <2>4. QED  BY <1>6, <2>3
  <1>17. StaysApart(d, out, entry, call)
    <2>1. call.name # d.start /\ \A i \in DOMAIN d.states : call.name \notin Targets(d.states[i])
      BY <1>3, <1>15, NoneAssumption DEF AllReferences
    <2>2. QED  BY <1>3, <1>4, <1>13, <1>14, <1>16, <2>1 DEF StaysApart
  <1>18. Stays(d, e, out, entry, call)
    BY <1>1, <1>3, <1>5, <1>6, <1>14, ReplacedStays
  <1>19. InlinedEdges(e, entry, sub) = RealEdges(d)
    <2>1. NamesOf(sub) = selected
      <3>1. NamesOf(sub) = {shown[k] : k \in DOMAIN shown}
        BY DEF NamesOf, NamesShown, shown
      <3>2. QED  BY <1>12, <3>1
    <2>2. \A i \in from .. to : ~ Uncertain(d.states[i])
      <3>1. from <= to /\ from .. to = DOMAIN d.states \ out
        BY <1>1, <1>10, DocumentIs DEF Spans
      <3>2. sub.states = Span(d, from, to)
        BY <1>7 DEF Extracted, Document, from, to
      <3>3. \A k \in DOMAIN sub.states : ~ Uncertain(sub.states[k])
        BY <3>2, RangeIsPlain DEF from, to
      <3>4. QED  BY <1>10, <3>1, <3>3 DEF HoldsTheRest
    <2>3. from <= to
      BY <1>10 DEF Spans
    <2> HIDE DEF selected
    <2>4. Chained(d, out, sub, call, to)
      BY <1>1, <1>4, <1>11, <2>1, <2>2, <2>3, RangeIsChained DEF selected
    <2> HIDE DEF out
    <2>5. QED  BY <1>1, <1>10, <1>17, <1>18, <2>4, FlowIsWhole
  <1>20. AllReferences(e) \cap selected = {}
    <2>1. /\ d.states[to].transition \notin selected
          /\ d.start \notin selected \ {entry}
          /\ \A i \in out : Targets(d.states[i]) \cap selected \subseteq {entry}
      BY <1>2, <1>11 DEF OrderlyRange
    <2>2. selected \subseteq NamesOf(d)
      <3>1. from .. to \subseteq DOMAIN d.states
        BY <1>1, DocumentIs
      <3>2. QED  BY <3>1 DEF NamesIn, NamesOf
    <2>3. Targets(call) \cap selected = {}
      BY <1>4, <2>1
    <2> HIDE DEF out, selected
    <2>4. QED  BY <1>1, <1>17, <1>18, <2>1, <2>2, <2>3, NamesAreLeft
  <1>21. QED  BY <1>12, <1>19, <1>20 DEF shown, FlowKept

(* Extracting a selection made in the order of the path keeps the flow.    *)
THEOREM ExtractionsKeepTheFlow == Spec => ExtractionKeepsTheFlow
  <1>1. ASSUME EditsInv, [Next]_vars PROVE FlowIsKept
    <2> DEFINE shown == [k \in DOMAIN subflow'.states |-> subflow'.states[k].name]
    <2>1. SUFFICES
            ASSUME /\ subflow' # subflow
                   /\ \A i \in DOMAIN draft.states : SubflowCalls(draft, draft.states[i]) = {}
                   /\ NothingInline(draft)
                   /\ UniqueNames(draft.states)
                   /\ Orderly(draft, shown)
                   /\ (NamesOf(draft') \ NamesOf(draft)) \cap AllReferences(draft) = {}
            PROVE  /\ AllReferences(draft') \cap {shown[k] : k \in DOMAIN shown} = {}
                   /\ InlinedEdges(draft', shown[1], subflow') = RealEdges(draft)
      BY DEF FlowIsKept
    <2>2. Extract
      BY <1>1, <2>1, NextIs DEF Edited, Save, vars
    <2>3. PICK names \in Selections(Shown) :
            LET result == ExtractStates(draft, names)
            IN /\ MayEdit
               /\ ~ result.error
               /\ draft' = result.workflow
               /\ saved' = result.workflow
               /\ subflow' = result.subflow
               /\ edits' = edits + 1
               /\ UNCHANGED typed
      BY <2>2 DEF Extract
    <2>4. /\ MayEdit /\ ~ Refusal(draft, names)
          /\ draft' = Caller(draft, names) /\ subflow' = Extracted(draft, names)
      BY <2>3 DEF ExtractStates
    <2>5. draft \in Document /\ Len(draft.states) <= MaxStates
      BY <1>1, <2>4 DEF EditsInv, TypeOK, MayEdit
    <2>6. shown = NamesShown(subflow')
      BY DEF NamesShown
    <2> HIDE DEF shown
    <2>7. InOrder(draft, draft', subflow')
      BY <2>1, <2>6 DEF InOrder
    <2>8. FlowKept(draft, draft', subflow')
      <3> DEFINE d == draft
                 e == draft'
                 sub == subflow'
                 A == Shown
      <3>1. /\ d \in Document /\ Len(d.states) <= MaxStates /\ names \in Selections(A)
            /\ ~ Refusal(d, names) /\ e = Caller(d, names) /\ sub = Extracted(d, names)
            /\ InOrder(d, e, sub)
        BY <2>4, <2>5, <2>7
      <3> HIDE DEF d, e, sub, A
      <3>2. FlowKept(d, e, sub)
        BY <3>1, ExtractionFlow
      <3>3. QED  BY <3>2 DEF d, e, sub
    <2>9. QED  BY <2>6, <2>8 DEF FlowKept
  <1>2. EditsInv /\ [Next]_vars => FlowIsKept
    BY <1>1
  <1>3. QED  BY <1>2, EditsInvariant, PTL DEF Spec, ExtractionKeepsTheFlow
=============================================================================
