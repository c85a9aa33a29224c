------------------------- MODULE ResourceLife_proofs -------------------------
(***************************************************************************)
(* Proofs about ResourceLife, for any units, that is for any attributes of *)
(* any kinds whose handlers are as HandlersAssumption says.                *)
(***************************************************************************)
EXTENDS ResourceLifeInv, SequenceTheorems, TLAPS

---------------------------------------------------------------------------
(* Values: from the configuration to the plan, the request and the answer. *)

LEMMA Markers ==
    /\ None \notin Value /\ None # Unknown
    /\ None \notin [value : Value \cup {Unknown}, tainted : BOOLEAN]
BY UnitsAssumption

LEMMA Bounds == MaxFaults \in Nat /\ MaxEdits \in Nat /\ MaxDrifts \in Nat
BY LifeAssumption

LEMMA DefaultTyped ==
    ASSUME NEW schema \in Schemas
    PROVE  DefaultOf(schema) \in Value
BY DEF Schemas, DefaultOf, Value, Zero, Default, Unset, Null

LEMMA ConfigurableTyped ==
    ASSUME NEW schema \in Schemas
    PROVE  Configurable(schema) \subseteq Value
BY DEF Schemas, Configurable, Value, Zero, Default, Unset, Null, Other

\* Only what the API chooses is unknown in a plan.
LEMMA PlannedTyped ==
    ASSUME NEW schema \in Schemas, NEW configured \in Value, NEW prior \in Value \cup {Unknown}
    PROVE  /\ Planned(schema, configured, prior) \in Value \cup {Unknown}
           /\ Planned(schema, configured, prior) = Unknown => schema \in Choosing
<1>1. Unknown \notin Value
  BY DEF Unknown, Value, Zero, Default, Unset, Null, Other
<1>. QED  BY <1>1, DefaultTyped DEF Planned

\* What is sent is a value, or left out.
LEMMA SentTyped ==
    ASSUME NEW send \in Sends, NEW planned_ \in Value \cup {Unknown},
           send = "explicit" => planned_ # Unknown
    PROVE  Sent(send, planned_) \in Value \cup {Omitted}
BY DEF Sends, Sent, Empty, Value, Zero, Default, Unset, Null, Other, Unknown, Omitted

LEMMA ReadAsTyped ==
    ASSUME NEW read \in Reads, NEW schema \in Schemas,
           NEW r \in Value, NEW known \in Value \cup {Unknown}
    PROVE  ReadAs(read, schema, r, known) \in Value
BY DefaultTyped DEF Reads, ReadAs, Empty, Value, Zero, Default, Unset, Null, Other, Unknown

\* The classes and the programs of a unit.
LEMMA UnitTyped ==
    ASSUME NEW u \in UnitType
    PROVE  /\ u.schema \in Schemas /\ u.read \in Reads /\ u.create \in Sends /\ u.update \in Sends
           /\ u.creating \in Seq(Steps) /\ u.updating \in Seq(Steps) /\ u.deleting \in Seq(Steps)
BY DEF UnitType

\* What the unit's attribute is read as, and what the API holds after a request.
LEMMA ReadTyped ==
    ASSUME NEW u \in UnitType, NEW r \in Value, NEW known \in Value \cup {Unknown}
    PROVE  Read(u, r, known) \in Value
BY UnitTyped, ReadAsTyped, DefaultTyped DEF Read

LEMMA CreatedTyped ==
    ASSUME NEW u \in UnitType, NEW s \in Value \cup {Omitted}
    PROVE  Created(u, s) \subseteq Value
<1>1. {Null, Zero, Default, Other} \subseteq Value
  BY DEF Value
<1>2. DefaultOf(u.schema) \in Value
  BY UnitTyped, DefaultTyped
<1>. QED  BY <1>1, <1>2 DEF Created

LEMMA RequestTyped ==
    ASSUME NEW u \in UnitType, u \in Units, NEW p \in Value \cup {Unknown},
           p = Unknown => u.schema \in Choosing
    PROVE  /\ CreateValue(u, p) \subseteq Value
           /\ \A old \in Value : UpdateValue(u, p, old) \subseteq Value
<1>1. "explicit" \in {u.create, u.update} => p # Unknown
  BY HandlersAssumption
<1>2. Sent(u.create, p) \in Value \cup {Omitted} /\ Sent(u.update, p) \in Value \cup {Omitted}
  BY <1>1, UnitTyped, SentTyped
<1>. QED  BY <1>2, CreatedTyped DEF CreateValue, UpdateValue, Updated

---------------------------------------------------------------------------
(* Programs: what remains of one when its first step is done.              *)

LEMMA TailAt ==
    ASSUME NEW S, NEW s \in Seq(S), s # <<>>
    PROVE  /\ Tail(s) \in Seq(S) /\ Len(Tail(s)) = Len(s) - 1 /\ Len(s) \in Nat \ {0}
           /\ DOMAIN s = 1 .. Len(s) /\ DOMAIN Tail(s) = 1 .. (Len(s) - 1)
           /\ \A i \in 1 .. (Len(s) - 1) : Tail(s)[i] = s[i + 1]
           /\ Head(s) = s[1]
BY HeadTailProperties, LenProperties, EmptySeq

\* Programs are sequences of steps.
Program_ == Seq(Steps \cup {"reconcile"})

LEMMA TailRecords ==
    ASSUME NEW s \in Program_, s # <<>>, NEW i \in Nat \ {0}, RecordsFrom(s, i + 1)
    PROVE  RecordsFrom(Tail(s), i)
<1>1. PICK j \in (i + 1) .. Len(s) :
        s[j] \in {"record", "save"} /\ \A k \in (i + 1) .. (j - 1) : s[k] = "attach"
  BY DEF RecordsFrom
<1>2. /\ Len(Tail(s)) = Len(s) - 1 /\ Len(s) \in Nat
      /\ \A k \in 1 .. (Len(s) - 1) : Tail(s)[k] = s[k + 1]
  BY TailAt DEF Program_
<1>3. j - 1 \in i .. Len(Tail(s)) /\ Tail(s)[j - 1] = s[j]
  BY <1>2
<1>4. ASSUME NEW k \in i .. ((j - 1) - 1)
      PROVE  Tail(s)[k] = "attach"
  <2>1. k \in 1 .. (Len(s) - 1) /\ k + 1 \in (i + 1) .. (j - 1)
    BY <1>2
  <2>. QED  BY <1>1, <1>2, <2>1
<1>. QED  BY <1>1, <1>3, <1>4 DEF RecordsFrom

LEMMA TailKeeps ==
    ASSUME NEW s \in Program_, s # <<>>
    PROVE  /\ PostsFollowRemovals(s) => PostsFollowRemovals(Tail(s))
           /\ PostsAreRecorded(s) => PostsAreRecorded(Tail(s))
           /\ PostsAreRecorded(s) /\ s[1] = "post" => RecordsFrom(Tail(s), 1)
           /\ RecordsFrom(s, 1) =>
                s[1] \in {"record", "save"} \/ (s[1] = "attach" /\ RecordsFrom(Tail(s), 1))
           /\ Answered(s) /\ s[1] \notin {"post", "get", "put", "change"} => Answered(Tail(s))
<1>1. /\ Len(s) \in Nat \ {0} /\ DOMAIN s = 1 .. Len(s) /\ DOMAIN Tail(s) = 1 .. (Len(s) - 1)
      /\ \A i \in 1 .. (Len(s) - 1) : Tail(s)[i] = s[i + 1]
  BY TailAt DEF Program_
<1>2. PostsFollowRemovals(s) => PostsFollowRemovals(Tail(s))
  <2>. SUFFICES ASSUME PostsFollowRemovals(s), NEW i \in DOMAIN Tail(s), i > 1, Tail(s)[i] = "post"
                PROVE  Tail(s)[i - 1] \in {"delete", "drop"}
    BY DEF PostsFollowRemovals
  <2>1. i + 1 \in DOMAIN s /\ i + 1 > 1 /\ s[i + 1] = "post" /\ (i + 1) - 1 = i
    BY <1>1
  <2>2. s[i] \in {"delete", "drop"}
    BY <2>1 DEF PostsFollowRemovals
  <2>3. i - 1 \in 1 .. (Len(s) - 1) /\ (i - 1) + 1 = i
    BY <1>1
  <2>. QED  BY <1>1, <2>2, <2>3
<1>3. PostsAreRecorded(s) => PostsAreRecorded(Tail(s))
  <2>. SUFFICES ASSUME PostsAreRecorded(s), NEW i \in DOMAIN Tail(s), Tail(s)[i] = "post"
                PROVE  RecordsFrom(Tail(s), i + 1)
    BY DEF PostsAreRecorded
  <2>1. i + 1 \in DOMAIN s /\ s[i + 1] = "post" /\ i + 1 \in Nat \ {0}
    BY <1>1
  <2>2. RecordsFrom(s, (i + 1) + 1)
    BY <2>1 DEF PostsAreRecorded
  <2>. QED  BY <2>1, <2>2, TailRecords
<1>4. PostsAreRecorded(s) /\ s[1] = "post" => RecordsFrom(Tail(s), 1)
  BY <1>1, TailRecords DEF PostsAreRecorded
<1>5. RecordsFrom(s, 1) =>
        s[1] \in {"record", "save"} \/ (s[1] = "attach" /\ RecordsFrom(Tail(s), 1))
  <2>. SUFFICES ASSUME RecordsFrom(s, 1), s[1] \notin {"record", "save"}
                PROVE  s[1] = "attach" /\ RecordsFrom(Tail(s), 1)
    OBVIOUS
  <2>1. PICK j \in 1 .. Len(s) :
          s[j] \in {"record", "save"} /\ \A k \in 1 .. (j - 1) : s[k] = "attach"
    BY DEF RecordsFrom
  <2>2. j # 1 /\ j \in (1 + 1) .. Len(s)
    BY <1>1, <2>1
  <2>3. 1 \in 1 .. (j - 1) /\ \A k \in (1 + 1) .. (j - 1) : k \in 1 .. (j - 1)
    BY <2>2
  <2>4. RecordsFrom(s, 1 + 1)
    BY <2>1, <2>2, <2>3 DEF RecordsFrom
  <2>. QED  BY <2>1, <2>3, <2>4, TailRecords
<1>6. Answered(s) /\ s[1] \notin {"post", "get", "put", "change"} => Answered(Tail(s))
  <2>. SUFFICES ASSUME Answered(s), s[1] \notin {"post", "get", "put", "change"},
                       NEW j \in DOMAIN Tail(s), Tail(s)[j] \in {"attach", "save"}
                PROVE  \E i \in 1 .. j - 1 : Tail(s)[i] \in {"post", "get", "put", "change"}
    BY DEF Answered
  <2>1. j + 1 \in DOMAIN s /\ s[j + 1] \in {"attach", "save"} /\ (j + 1) - 1 = j
    BY <1>1
  <2>2. PICK i \in 1 .. j : s[i] \in {"post", "get", "put", "change"}
    BY <2>1 DEF Answered
  <2>3. i # 1 /\ i - 1 \in 1 .. (j - 1) /\ i - 1 \in 1 .. (Len(s) - 1) /\ (i - 1) + 1 = i
    BY <1>1, <2>2
  <2>4. Tail(s)[i - 1] \in {"post", "get", "put", "change"}
    BY <1>1, <2>2, <2>3
  <2>. QED  BY <2>3, <2>4
<1>. QED  BY <1>2, <1>3, <1>4, <1>5, <1>6

\* A program that has one post, if any: its first step.
Creates(s) ==
    /\ \A i \in DOMAIN s : s[i] = "post" => i = 1
    /\ unit \notin Lossy => PostsAreRecorded(s)
    /\ Answered(s)

\* A removal, and then a creation.
LEMMA RemovalThen ==
    ASSUME NEW d \in Seq({"get", "delete", "drop"}), d # <<>>, d[Len(d)] \in {"delete", "drop"},
           NEW c \in Program_, Creates(c)
    PROVE  /\ d \o c \in Program_ /\ d \o c # <<>> /\ (d \o c)[1] # "post"
           /\ PostsFollowRemovals(d \o c) /\ Answered(d \o c)
           /\ unit \notin Lossy => PostsAreRecorded(d \o c)
<1>. DEFINE s == d \o c
<1>1. /\ Len(d) \in Nat \ {0} /\ Len(c) \in Nat /\ s \in Program_ /\ Len(s) = Len(d) + Len(c)
      /\ DOMAIN d = 1 .. Len(d) /\ DOMAIN c = 1 .. Len(c) /\ DOMAIN s = 1 .. Len(s)
      /\ \A i \in 1 .. Len(s) : s[i] = IF i <= Len(d) THEN d[i] ELSE c[i - Len(d)]
      /\ \A i \in 1 .. Len(d) : d[i] \in {"get", "delete", "drop"}
  <2>1. d \in Program_
    BY DEF Program_, Steps
  <2>2. Len(d) \in Nat \ {0} /\ Len(c) \in Nat
    BY <2>1, EmptySeq, LenProperties DEF Program_
  <2>3. s \in Program_ /\ Len(s) = Len(d) + Len(c)
        /\ \A i \in 1 .. Len(s) : s[i] = IF i <= Len(d) THEN d[i] ELSE c[i - Len(d)]
    BY <2>1, ConcatProperties DEF Program_
  <2>4. DOMAIN d = 1 .. Len(d) /\ DOMAIN c = 1 .. Len(c) /\ DOMAIN s = 1 .. Len(s)
    BY <2>1, <2>3, LenProperties DEF Program_
  <2>5. \A i \in 1 .. Len(d) : d[i] \in {"get", "delete", "drop"}
    BY ElementOfSeq
  <2>. QED  BY <2>2, <2>3, <2>4, <2>5
<1>. HIDE DEF s
<1>2. \A i \in 1 .. Len(d) : i \in 1 .. Len(s) /\ s[i] = d[i]
  BY <1>1
<1>3. \A i \in 1 .. Len(c) : i + Len(d) \in 1 .. Len(s) /\ s[i + Len(d)] = c[i]
  <2>. SUFFICES ASSUME NEW i \in 1 .. Len(c)
                PROVE  i + Len(d) \in 1 .. Len(s) /\ s[i + Len(d)] = c[i]
    OBVIOUS
  <2>1. i + Len(d) \in 1 .. Len(s) /\ ~(i + Len(d) <= Len(d)) /\ (i + Len(d)) - Len(d) = i
    BY <1>1
  <2>. QED  BY <1>1, <2>1
<1>4. \A i \in 1 .. Len(s) : s[i] \notin {"get", "delete", "drop"} =>
        /\ i - Len(d) \in 1 .. Len(c) /\ s[i] = c[i - Len(d)]
  <2>. SUFFICES ASSUME NEW i \in 1 .. Len(s), s[i] \notin {"get", "delete", "drop"}
                PROVE  i - Len(d) \in 1 .. Len(c) /\ s[i] = c[i - Len(d)]
    OBVIOUS
  <2>1. ~(i <= Len(d))
    BY <1>1
  <2>. QED  BY <1>1, <2>1
<1>5. 1 \in 1 .. Len(d) /\ s[1] # "post" /\ s # <<>>
  BY <1>1, <1>2, EmptySeq
<1>6. PostsFollowRemovals(s)
  <2>. SUFFICES ASSUME NEW i \in 1 .. Len(s), i > 1, s[i] = "post"
                PROVE  s[i - 1] \in {"delete", "drop"}
    BY <1>1 DEF PostsFollowRemovals
  <2>1. i - Len(d) = 1
    BY <1>1, <1>4 DEF Creates
  <2>2. i - 1 = Len(d) /\ Len(d) \in 1 .. Len(d)
    BY <1>1, <2>1
  <2>. QED  BY <1>2, <2>2
<1>7. Answered(s)
  <2>. SUFFICES ASSUME NEW j \in 1 .. Len(s), s[j] \in {"attach", "save"}
                PROVE  \E i \in 1 .. j - 1 : s[i] \in {"post", "get", "put", "change"}
    BY <1>1 DEF Answered
  <2>1. j - Len(d) \in DOMAIN c /\ c[j - Len(d)] \in {"attach", "save"}
    BY <1>1, <1>4
  <2>2. PICK i \in 1 .. ((j - Len(d)) - 1) : c[i] \in {"post", "get", "put", "change"}
    BY <2>1 DEF Creates, Answered
  <2>3. i \in 1 .. Len(c) /\ i + Len(d) \in 1 .. (j - 1)
    BY <1>1, <2>1
  <2>. QED  BY <1>3, <2>2, <2>3
<1>8. ASSUME unit \notin Lossy
      PROVE  PostsAreRecorded(s)
  <2>. SUFFICES ASSUME NEW i \in 1 .. Len(s), s[i] = "post"
                PROVE  RecordsFrom(s, i + 1)
    BY <1>1 DEF PostsAreRecorded
  <2>1. i - Len(d) \in DOMAIN c /\ c[i - Len(d)] = "post"
    BY <1>1, <1>4
  <2>2. RecordsFrom(c, (i - Len(d)) + 1)
    BY <1>8, <2>1 DEF Creates, PostsAreRecorded
  <2>3. PICK j \in ((i - Len(d)) + 1) .. Len(c) :
          /\ c[j] \in {"record", "save"}
          /\ \A k \in ((i - Len(d)) + 1) .. (j - 1) : c[k] = "attach"
    BY <2>2 DEF RecordsFrom
  <2>4. j \in 1 .. Len(c) /\ j + Len(d) \in (i + 1) .. Len(s)
    BY <1>1, <2>1
  <2>5. ASSUME NEW k \in (i + 1) .. ((j + Len(d)) - 1)
        PROVE  s[k] = "attach"
    <3>1. k - Len(d) \in ((i - Len(d)) + 1) .. (j - 1)
      BY <1>1, <2>1, <2>4
    <3>2. k - Len(d) \in 1 .. Len(c) /\ (k - Len(d)) + Len(d) = k
      BY <1>1, <2>1, <2>4, <3>1
    <3>. QED  BY <1>3, <2>3, <3>1, <3>2
  <2>6. s[j + Len(d)] \in {"record", "save"}
    BY <1>3, <2>3, <2>4
  <2>. QED  BY <2>4, <2>5, <2>6 DEF RecordsFrom
<1>. QED  BY <1>1, <1>5, <1>6, <1>7, <1>8 DEF s

\* The programs of a unit.
LEMMA HandlersTyped ==
    ASSUME unit \in UnitType, unit \in Units
    PROVE  /\ unit.creating \in Program_ /\ Creates(unit.creating)
           /\ unit.updating \in Program_ /\ Answered(unit.updating)
           /\ \A i \in DOMAIN unit.updating : unit.updating[i] # "post"
           /\ unit.deleting \in Seq({"get", "delete", "drop"}) /\ unit.deleting \in Program_
           /\ unit.deleting # <<>> /\ unit.deleting[Len(unit.deleting)] = "delete"
           /\ \A i \in DOMAIN unit.deleting : unit.deleting[i] \in {"get", "delete"}
<1>1. unit.creating \in Program_ /\ unit.updating \in Program_ /\ unit.deleting \in Program_
  BY UnitTyped DEF Program_
<1>2. /\ \A i \in DOMAIN unit.creating : unit.creating[i] = "post" =>
            i = 1 /\ (unit \notin Lossy => RecordsFrom(unit.creating, 2))
      /\ \A i \in DOMAIN unit.updating : unit.updating[i] # "post"
      /\ unit.deleting # <<>> /\ unit.deleting[Len(unit.deleting)] = "delete"
      /\ \A i \in DOMAIN unit.deleting : unit.deleting[i] \in {"get", "delete"}
      /\ Answered(unit.creating) /\ Answered(unit.updating)
  <2>. DEFINE writes == {"post", "put", "change"}
  <2>1. ASSUME NEW s \in Program_, NEW w \in SUBSET writes, NEW attaches, WritesFirst(s, w, attaches)
        PROVE  Answered(s) /\ \A i \in DOMAIN s : s[i] \in writes => i = 1 /\ s[i] \in w
    <3>1. Len(s) \in Nat /\ DOMAIN s = 1 .. Len(s)
      BY LenProperties DEF Program_
    <3>2. s[1] \in w /\ 1 \in DOMAIN s /\ \A i \in 2 .. Len(s) : s[i] \notin writes
      BY <2>1, <3>1 DEF WritesFirst, Answering
    <3>3. \A i \in DOMAIN s : i = 1 \/ (i \in 2 .. Len(s) /\ 1 \in 1 .. i - 1)
      BY <3>1
    <3>. QED  BY <3>2, <3>3 DEF Answered
  <2>2. WritesFirst(unit.creating, {"post"}, "attached" \in {unit.create, unit.update})
        /\ (unit \notin Lossy => RecordsFrom(unit.creating, 2))
    BY HandlersAssumption
  <2>3. Answered(unit.updating) /\ \A i \in DOMAIN unit.updating : unit.updating[i] # "post"
    <3>1. CASE unit.updating = <<"keep">>
      BY <3>1 DEF Answered
    <3>2. CASE WritesFirst(unit.updating, {"put", "change"}, unit.update = "attached")
      BY <1>1, <2>1, <3>2
    <3>. QED  BY <3>1, <3>2, HandlersAssumption
  <2>4. /\ unit.deleting # <<>>
        /\ \A i \in DOMAIN unit.deleting :
            unit.deleting[i] = IF i = Len(unit.deleting) THEN "delete" ELSE "get"
    BY HandlersAssumption
  <2>5. Len(unit.deleting) \in DOMAIN unit.deleting
    BY <1>1, <2>4, LenProperties, EmptySeq DEF Program_
  <2>6. Answered(unit.creating) /\ \A i \in DOMAIN unit.creating : unit.creating[i] = "post" => i = 1
    BY <1>1, <2>1, <2>2
  <2>. QED  BY <2>2, <2>3, <2>4, <2>5, <2>6
<1>3. Creates(unit.creating)
  BY <1>2 DEF Creates, PostsAreRecorded
<1>4. unit.deleting \in Seq({"get", "delete", "drop"})
  <2>1. Len(unit.deleting) \in Nat /\ DOMAIN unit.deleting = 1 .. Len(unit.deleting)
        /\ unit.deleting \in [1 .. Len(unit.deleting) -> Steps \cup {"reconcile"}]
    BY <1>1, LenProperties DEF Program_
  <2>2. unit.deleting \in [1 .. Len(unit.deleting) -> {"get", "delete", "drop"}]
    BY <1>2, <2>1
  <2>. QED  BY <2>1, <2>2, SeqDef
<1>. QED  BY <1>1, <1>2, <1>3, <1>4

\* The program of an operation, whatever the state knows.
LEMMA ProgramTyped ==
    ASSUME unit \in UnitType, unit \in Units, NEW known,
           NEW op \in {"none", "create", "update", "replace", "delete"}
    PROVE  /\ Program(op, known) \in Program_
           /\ PostsFollowRemovals(Program(op, known)) /\ Answered(Program(op, known))
           /\ unit \notin Lossy => PostsAreRecorded(Program(op, known))
           /\ Program(op, known) # <<>> /\ Program(op, known)[1] = "post" =>
                op = "create" /\ ~Nested(unit)
           /\ op \in {"none", "delete"} =>
                \A i \in DOMAIN Program(op, known) :
                    Program(op, known)[i] \in {"get", "delete", "reconcile"}
<1>. DEFINE Postless(s) == /\ s \in Program_ /\ Answered(s)
                        /\ \A i \in DOMAIN s : s[i] # "post"
            Fine(s) == /\ s \in Program_ /\ PostsFollowRemovals(s) /\ Answered(s)
                       /\ unit \notin Lossy => PostsAreRecorded(s)
<1>1. \A s : Postless(s) => Fine(s)
  BY DEF PostsFollowRemovals, PostsAreRecorded
<1>2. ASSUME NEW s \in Program_, s # <<>>
      PROVE  1 \in DOMAIN s
  BY <1>2, EmptySeq, LenProperties DEF Program_
<1>3. CASE op = "none"
  <2>1. Program(op, known) = <<>>
    BY <1>3 DEF Program
  <2>2. Postless(<<>>) /\ DOMAIN <<>> = {}
    BY EmptySeq DEF Program_, Answered
  <2>. HIDE DEF Postless, Fine
  <2>3. Fine(<<>>)
    BY <1>1, <2>2
  <2>. QED  BY <2>1, <2>2, <2>3 DEF Fine
<1>4. CASE op # "none" /\ Nested(unit)
  <2>1. Program(op, known) = <<"reconcile">>
    BY <1>4 DEF Program
  <2>2. /\ <<"reconcile">> \in Program_ /\ DOMAIN <<"reconcile">> = {1}
        /\ <<"reconcile">>[1] = "reconcile"
    BY DEF Program_
  <2>3. Postless(<<"reconcile">>)
    BY <2>2 DEF Answered
  <2>. HIDE DEF Postless, Fine
  <2>4. Fine(<<"reconcile">>)
    BY <1>1, <2>3
  <2>. QED  BY <2>1, <2>2, <2>4 DEF Fine
<1>5. CASE op = "create" /\ ~Nested(unit)
  <2>1. Program(op, known) = unit.creating
    BY <1>5 DEF Program
  <2>2. Fine(unit.creating)
    BY HandlersTyped DEF Creates, PostsFollowRemovals
  <2>. HIDE DEF Postless
  <2>. QED  BY <1>5, <2>1, <2>2
<1>6. CASE op = "update" /\ ~Nested(unit)
  <2>1. CASE Program(op, known) = <<"drop">> \o unit.creating
    <3>1. <<"drop">> \in Seq({"get", "delete", "drop"}) /\ <<"drop">> # <<>>
          /\ <<"drop">>[Len(<<"drop">>)] \in {"delete", "drop"}
      OBVIOUS
    <3>. QED  BY <1>6, <2>1, <3>1, HandlersTyped, RemovalThen
  <2>2. CASE Program(op, known) = unit.updating
    <3>1. Postless(unit.updating)
      BY HandlersTyped
    <3>2. unit.updating # <<>> => unit.updating[1] # "post"
      BY <1>2, HandlersTyped
    <3>. QED  BY <1>1, <1>6, <2>2, <3>1, <3>2
  <2>. QED  BY <1>6, <2>1, <2>2 DEF Program
<1>7. CASE op = "delete" /\ ~Nested(unit)
  <2>1. Program(op, known) = unit.deleting
    BY <1>7 DEF Program
  <2>2. Postless(unit.deleting) /\ unit.deleting[1] # "post"
    BY <1>2, HandlersTyped DEF Answered
  <2>. QED  BY <1>1, <2>1, <2>2, HandlersTyped
<1>8. CASE op = "replace" /\ ~Nested(unit)
  <2>1. Program(op, known) = unit.deleting \o unit.creating
    BY <1>8 DEF Program
  <2>. QED  BY <1>8, <2>1, HandlersTyped, RemovalThen
<1>. QED  BY <1>3, <1>4, <1>5, <1>6, <1>7, <1>8

---------------------------------------------------------------------------
(* The steps.                                                              *)

LEMMA StateTyped ==
    ASSUME TypeOK, state # None
    PROVE  state \in State /\ state.value \in Value \cup {Unknown} /\ state.tainted \in BOOLEAN
BY DEF TypeOK, State

\* What may be the next step.
LEMMA NextStep ==
    ASSUME IInv, todo # <<>>
    PROVE  /\ Head(todo) = todo[1] /\ Tail(todo) \in Program_ /\ todo \in Program_
           /\ planned = None => todo[1] \in {"get", "delete", "reconcile"}
           /\ todo[1] \in {"attach", "save"} => answer # None
           /\ todo[1] \notin {"delete", "drop"} =>
                (Tail(todo) # <<>> => Tail(todo)[1] # "post")
<1>1. /\ todo \in Program_ /\ Head(todo) = todo[1] /\ Tail(todo) \in Program_
      /\ Len(todo) \in Nat \ {0} /\ DOMAIN todo = 1 .. Len(todo) /\ Len(Tail(todo)) = Len(todo) - 1
      /\ \A i \in 1 .. (Len(todo) - 1) : Tail(todo)[i] = todo[i + 1]
  BY TailAt DEF IInv, TypeOK, Program_
<1>2. 1 \in DOMAIN todo
  BY <1>1
<1>3. planned = None => todo[1] \in {"get", "delete", "reconcile"}
  BY <1>2 DEF IInv, InHand, PlanIsAsked
<1>4. todo[1] \in {"attach", "save"} => answer # None
  <2>1. 1 .. (1 - 1) = {}
    OBVIOUS
  <2>. QED  BY <1>2, <2>1 DEF IInv, InHand, AnswerIsThere, Answered
<1>5. ASSUME todo[1] \notin {"delete", "drop"}, Tail(todo) # <<>>
      PROVE  Tail(todo)[1] # "post"
  <2>1. Len(Tail(todo)) \in Nat \ {0}
    BY <1>1, <1>5, EmptySeq DEF Program_
  <2>2. 2 \in DOMAIN todo /\ 1 \in 1 .. (Len(todo) - 1) /\ 2 > 1 /\ 2 - 1 = 1 /\ 1 + 1 = 2
    BY <1>1, <2>1
  <2>3. todo[2] # "post"
    BY <1>5, <2>2 DEF IInv, InHand, PostsFollowRemovals
  <2>. QED  BY <1>1, <2>2, <2>3
<1>. QED  BY <1>1, <1>3, <1>4, <1>5

\* A step that ends the program, with an error or not.
LEMMA EndsInHand ==
    ASSUME IInv, UNCHANGED <<unit, config, planned>>, todo' = <<>>, running' = running
    PROVE  /\ todo' \in Seq(Steps \cup {"reconcile"})
           /\ unit' \in Units /\ PlanIsAsked' /\ AnswerIsThere' /\ PostsFollowRemovals(todo')
           /\ unit' \notin Lossy => PostsAreRecorded(todo')
<1>1. DOMAIN <<>> = {} /\ <<>> \in Seq(Steps \cup {"reconcile"})
  BY EmptySeq
<1>2. PlanIsAsked'
  BY <1>1 DEF IInv, InHand, PlanIsAsked
<1>3. AnswerIsThere' /\ PostsFollowRemovals(todo') /\ PostsAreRecorded(todo')
  BY <1>1 DEF AnswerIsThere, Answered, PostsFollowRemovals, PostsAreRecorded
<1>. QED  BY <1>1, <1>2, <1>3 DEF IInv, InHand

\* A step that goes on to the next.
LEMMA GoesInHand ==
    ASSUME IInv, UNCHANGED <<unit, config, planned>>, running, running',
           todo # <<>>, todo' = Tail(todo),
           \/ answer' # None
           \/ answer' = answer /\ todo[1] \notin {"post", "get", "put", "change"}
    PROVE  /\ todo' \in Seq(Steps \cup {"reconcile"})
           /\ unit' \in Units /\ PlanIsAsked' /\ AnswerIsThere' /\ PostsFollowRemovals(todo')
           /\ unit' \notin Lossy => PostsAreRecorded(todo')
<1>1. todo \in Program_ /\ Tail(todo) \in Program_
  BY NextStep
<1>2. PlanIsAsked'
  <2>1. \A i \in DOMAIN Tail(todo) : i + 1 \in DOMAIN todo /\ Tail(todo)[i] = todo[i + 1]
    BY <1>1, TailAt DEF Program_
  <2>. QED  BY <2>1 DEF IInv, InHand, PlanIsAsked
<1>3. AnswerIsThere'
  BY <1>1, TailKeeps DEF IInv, InHand, AnswerIsThere
<1>4. PostsFollowRemovals(Tail(todo)) /\ (unit \notin Lossy => PostsAreRecorded(Tail(todo)))
  BY <1>1, TailKeeps DEF IInv, InHand
<1>. QED  BY <1>1, <1>2, <1>3, <1>4 DEF IInv, InHand, Program_

\* An object that is known and goes on being known.
LEMMA KnownIfRecorded ==
    ASSUME IInv, Heard, remote # None, todo # <<>>
    PROVE  /\ todo[1] # "post" /\ ~unknown
           /\ state # None \/ todo[1] \in {"record", "save"}
                \/ (todo[1] = "attach" /\ RecordsFrom(Tail(todo), 1))
<1>1. todo \in Program_
  BY NextStep
<1>2. state = None => RecordsFrom(todo, 1)
  BY DEF IInv, InHand, ObjectIsKnown
<1>. QED  BY <1>1, <1>2, TailKeeps DEF IInv, InHand, ObjectIsKnown

LEMMA StopsTyped ==
    ASSUME IInv, Stops
    PROVE  /\ todo' = <<>> /\ verdict' = "failed" /\ creating' = creating
           /\ state' \in State \cup {None} /\ (state # None => state' # None)
<1>1. todo' = <<>> /\ verdict' = "failed" /\ creating' = creating
  BY DEF Stops
<1>2. CASE creating /\ state # None
  <2>1. state \in State /\ state' = [state EXCEPT !.tainted = TRUE]
    BY <1>2, StateTyped DEF Stops, IInv
  <2>2. state' \in State
    BY <2>1 DEF State
  <2>. QED  BY <1>1, <2>2, Markers DEF State
<1>3. CASE ~(creating /\ state # None)
  BY <1>1, <1>3 DEF Stops, IInv, TypeOK
<1>. QED  BY <1>2, <1>3

\* A failed call ends the handler: what it knew of the object stays known, as
\* long as there was a call that the object is recorded after.
LEMMA StopsKnown ==
    ASSUME IInv, Stops, todo # <<>>,
           todo[1] \notin {"attach", "record", "save"} \/ remote = None,
           Heard' => Heard /\ unknown' = unknown
                            /\ (remote' = remote \/ remote' = None \/ state # None)
    PROVE  ObjectIsKnown'
<1>. SUFFICES ASSUME Heard'
              PROVE  /\ ~unknown' /\ todo' = <<>>
                     /\ remote' # None => state' # None
  BY DEF ObjectIsKnown
<1>1. ~unknown'
  BY DEF IInv, InHand, ObjectIsKnown
<1>2. remote # None => state # None
  BY KnownIfRecorded, Markers
<1>. QED  BY <1>1, <1>2, StopsTyped

\* What a step that has its turn leaves as it was.
LEMMA StandingTyped ==
    ASSUME IInv, UNCHANGED standing
    PROVE  /\ UNCHANGED <<unit, config, running, planned, applied, disturbed, edits, drifts>>
           /\ unit' \in UnitType /\ config' \in Value \cup {None}
           /\ planned' \in Value \cup {None, Unknown}
           /\ {running', applied', disturbed'} \subseteq BOOLEAN
           /\ edits' \in 0 .. MaxEdits /\ drifts' \in 0 .. MaxDrifts
           /\ unheard' \in {unheard, TRUE} /\ Heard' => Heard /\ unheard' = unheard
<1>1. UNCHANGED <<unit, config, running, planned, applied, disturbed, edits, drifts>>
  BY DEF standing
<1>2. unheard' \in {unheard, TRUE} /\ Heard' => Heard /\ unheard' = unheard
  <2>. SUFFICES ASSUME unheard' \in {unheard, TRUE}, Heard'
                PROVE  Heard /\ unheard' = unheard
    OBVIOUS
  <2>1. unheard' # TRUE
    BY DEF Heard
  <2>2. unheard' = unheard
    BY <2>1
  <2>. QED  BY <1>1, <2>2 DEF Heard
<1>. QED  BY <1>1, <1>2 DEF IInv, TypeOK

\* The value that is sent and read.
LEMMA PlanTyped ==
    ASSUME IInv, todo # <<>>, todo[1] \notin {"get", "delete", "reconcile"}
    PROVE  /\ planned \in Value \cup {Unknown} /\ unit \in UnitType /\ unit \in Units
           /\ CreateValue(unit, planned) \subseteq Value
           /\ remote # None => UpdateValue(unit, planned, remote) \subseteq Value
<1>1. planned \in Value \cup {Unknown} /\ unit \in UnitType /\ unit \in Units
  BY NextStep DEF IInv, TypeOK, InHand
<1>2. planned = Unknown => unit.schema \in Choosing
  BY DEF IInv, InHand, PlanIsAsked
<1>3. remote # None => remote \in Value
  BY DEF IInv, TypeOK
<1>. QED  BY <1>1, <1>2, <1>3, RequestTyped

LEMMA FaultTyped ==
    ASSUME IInv
    PROVE  /\ Fault => faults' \in 0 .. MaxFaults
           /\ faults' = faults => faults' \in 0 .. MaxFaults
BY Bounds DEF Fault, IInv, TypeOK

\* Any error.
LEMMA StopsInv ==
    ASSUME IInv, UNCHANGED standing, Stops, todo # <<>>, UNCHANGED answer,
           unheard' \in {unheard, TRUE}, unknown' \in BOOLEAN, Fault \/ faults' = faults,
           remote' \in Value \cup {None},
           todo[1] \notin {"attach", "record", "save"} \/ remote = None,
           unheard' = unheard =>
                unknown' = unknown /\ (remote' = remote \/ remote' = None \/ state # None)
    PROVE  IInv'
<1>1. todo' = <<>> /\ verdict' = "failed" /\ creating' = creating /\ state' \in State \cup {None}
  BY StopsTyped
<1>2. /\ todo' \in Seq(Steps \cup {"reconcile"})
      /\ unit' \in Units /\ PlanIsAsked' /\ AnswerIsThere' /\ PostsFollowRemovals(todo')
      /\ unit' \notin Lossy => PostsAreRecorded(todo')
  BY <1>1, EndsInHand, StandingTyped
<1>3. unheard \in BOOLEAN /\ creating \in BOOLEAN /\ answer \in Value \cup {None}
  BY DEF IInv, TypeOK
<1>4. unheard' \in BOOLEAN
  BY <1>3
<1>5. TypeOK'
  BY <1>1, <1>2, <1>3, <1>4, StandingTyped, FaultTyped DEF TypeOK
<1>6. ObjectIsKnown'
  BY StopsKnown, StandingTyped
<1>. QED  BY <1>2, <1>5, <1>6 DEF IInv, InHand

\* Any step that goes on.
LEMMA GoesInv ==
    ASSUME IInv, UNCHANGED standing, running, todo # <<>>, todo' = Tail(todo),
           UNCHANGED <<unheard, faults>>, unknown' \in BOOLEAN, creating' \in BOOLEAN,
           verdict' \in {"ok", "failed", "inconsistent"},
           remote' \in Value \cup {None}, answer' \in Value \cup {None},
           state' \in State \cup {None},
           \/ answer' # None
           \/ answer' = answer /\ todo[1] \notin {"post", "get", "put", "change"},
           Heard =>
                /\ ~unknown'
                /\ todo[1] \notin {"delete", "drop"} \/ remote' = None
                /\ remote' # None /\ state' = None => RecordsFrom(Tail(todo), 1)
    PROVE  IInv'
<1>1. /\ todo' \in Seq(Steps \cup {"reconcile"})
      /\ unit' \in Units /\ PlanIsAsked' /\ AnswerIsThere' /\ PostsFollowRemovals(todo')
      /\ unit' \notin Lossy => PostsAreRecorded(todo')
  BY GoesInHand, StandingTyped
<1>2. TypeOK'
  <2>1. unheard \in BOOLEAN
    BY DEF IInv, TypeOK
  <2>. QED  BY <1>1, <2>1, StandingTyped, FaultTyped DEF TypeOK
<1>3. ObjectIsKnown'
  <2>. SUFFICES ASSUME Heard'
                PROVE  /\ ~unknown'
                       /\ Tail(todo) # <<>> /\ Tail(todo)[1] = "post" => remote' = None
                       /\ remote' # None /\ state' = None => RecordsFrom(Tail(todo), 1)
    BY DEF ObjectIsKnown
  <2>1. Heard
    BY StandingTyped
  <2>. QED  BY <2>1, NextStep
<1>. QED  BY <1>1, <1>2, <1>3 DEF IInv, InHand

LEMMA CallFailsInv ==
    ASSUME IInv, CallFails
    PROVE  IInv'
<1>1. /\ UNCHANGED standing /\ UNCHANGED <<remote, answer, unknown>> /\ Stops /\ Fault
      /\ todo # <<>> /\ todo[1] \notin {"attach", "record", "save"}
      /\ unheard' \in {unheard, TRUE}
  <2>1. PICK step \in {"post", "get", "put", "change", "delete", "drop", "reconcile"} : At(step)
    BY DEF CallFails
  <2>2. unheard' = (unheard \/ (At("get") /\ Untold(unit))) /\ unheard \in BOOLEAN
    BY DEF CallFails, IInv, TypeOK
  <2>3. unheard' \in {unheard, TRUE}
    BY <2>2
  <2>4. todo # <<>> /\ todo[1] = step
    BY <2>1, NextStep DEF At
  <2>5. todo[1] \notin {"attach", "record", "save"}
    BY <2>4
  <2>. QED  BY <2>3, <2>4, <2>5 DEF CallFails
<1>2. remote \in Value \cup {None} /\ unknown \in BOOLEAN
  BY DEF IInv, TypeOK
<1>. QED  BY <1>1, <1>2, StopsInv

LEMMA Turn ==
    ASSUME IInv, NEW step, At(step)
    PROVE  running /\ todo # <<>> /\ todo[1] = step
BY NextStep DEF At

\* What every record and object is known to be.
LEMMA Standing ==
    ASSUME IInv
    PROVE  /\ remote \in Value \cup {None} /\ answer \in Value \cup {None}
           /\ state \in State \cup {None} /\ verdict \in {"ok", "failed", "inconsistent"}
           /\ unknown \in BOOLEAN /\ creating \in BOOLEAN /\ unheard \in BOOLEAN
           /\ Heard => ~unknown
BY DEF IInv, TypeOK, InHand, ObjectIsKnown

LEMMA PostInv ==
    ASSUME IInv, Post
    PROVE  IInv'
<1>1. /\ UNCHANGED standing /\ UNCHANGED <<state, verdict, unheard, faults>>
      /\ running /\ todo # <<>> /\ todo[1] = "post" /\ todo' = Tail(todo)
      /\ unknown' = (unknown \/ remote # None) /\ creating' = (creating \/ state = None)
  BY Turn DEF Post
<1>2. remote' \in Value /\ answer' = remote'
  <2>1. PICK r \in CreateValue(unit, planned) : remote' = r /\ answer' = r
    BY DEF Post
  <2>. QED  BY <1>1, <2>1, PlanTyped
<1>3. Heard => remote = None /\ RecordsFrom(Tail(todo), 1)
  <2>. SUFFICES ASSUME Heard
                PROVE  remote = None /\ RecordsFrom(Tail(todo), 1)
    OBVIOUS
  <2>1. remote = None
    BY <1>1 DEF IInv, InHand, ObjectIsKnown
  <2>2. PostsAreRecorded(todo) /\ todo \in Program_
    BY <1>1, NextStep DEF IInv, InHand, Heard
  <2>. QED  BY <1>1, <2>1, <2>2, TailKeeps
<1>4. unknown' \in BOOLEAN /\ creating' \in BOOLEAN /\ (Heard => ~unknown')
  BY <1>1, <1>3, Standing
<1>. QED  BY <1>1, <1>2, <1>3, <1>4, GoesInv, Standing, Markers

LEMMA PostFailsInv ==
    ASSUME IInv, PostConflicts \/ PostUnheard
    PROVE  IInv'
<1>1. CASE PostConflicts
  <2>1. /\ UNCHANGED standing /\ UNCHANGED <<remote, answer, unknown, unheard, faults>>
        /\ Stops /\ todo # <<>> /\ todo[1] = "post"
    BY <1>1, Turn DEF PostConflicts
  <2>. QED  BY <2>1, StopsInv, Standing
<1>2. CASE PostUnheard
  <2>1. /\ UNCHANGED standing /\ UNCHANGED answer
        /\ Stops /\ Fault /\ todo # <<>> /\ todo[1] = "post" /\ unheard' = TRUE
        /\ unknown' = (unknown \/ remote # None)
    BY <1>2, Turn DEF PostUnheard
  <2>2. remote' \in Value /\ unknown' \in BOOLEAN
    <3>1. PICK r \in CreateValue(unit, planned) : remote' = r
      BY <1>2 DEF PostUnheard
    <3>. QED  BY <2>1, <3>1, PlanTyped, Standing
  <2>3. CASE unheard = TRUE
    \* Nothing is claimed any more.
    <3>1. todo' = <<>> /\ verdict' = "failed" /\ creating' = creating /\ state' \in State \cup {None}
      BY <2>1, StopsTyped
    <3>2. /\ todo' \in Seq(Steps \cup {"reconcile"})
          /\ unit' \in Units /\ PlanIsAsked' /\ AnswerIsThere' /\ PostsFollowRemovals(todo')
          /\ unit' \notin Lossy => PostsAreRecorded(todo')
      BY <2>1, <3>1, EndsInHand, StandingTyped
    <3>3. TypeOK'
      BY <2>1, <2>2, <3>1, <3>2, StandingTyped, FaultTyped, Standing DEF TypeOK
    <3>4. ObjectIsKnown'
      BY <2>1 DEF ObjectIsKnown, Heard
    <3>. QED  BY <3>2, <3>3, <3>4 DEF IInv, InHand
  <2>4. CASE unheard # TRUE
    BY <2>1, <2>2, <2>4, StopsInv
  <2>. QED  BY <2>3, <2>4
<1>. QED  BY <1>1, <1>2

LEMMA PutInv ==
    ASSUME IInv, Put
    PROVE  IInv'
<1>1. /\ UNCHANGED standing /\ UNCHANGED <<state, unknown, unheard>> /\ Goes /\ remote # None
      /\ running /\ todo # <<>> /\ todo[1] \in {"put", "change"}
      /\ remote' \in UpdateValue(unit, planned, remote) /\ answer' = remote'
  BY Turn DEF Put, Writing
<1>2. remote' \in Value
  BY <1>1, PlanTyped
<1>3. Heard => state # None
  BY <1>1, KnownIfRecorded
<1>. QED  BY <1>1, <1>2, <1>3, GoesInv, Standing, Markers DEF Goes

LEMMA PutUnheardInv ==
    ASSUME IInv, PutUnheard
    PROVE  IInv'
<1>1. /\ UNCHANGED standing /\ UNCHANGED <<answer, unknown>> /\ Stops /\ Fault /\ remote # None
      /\ todo # <<>> /\ todo[1] \in {"put", "change"}
      /\ remote' \in UpdateValue(unit, planned, remote) /\ unheard' = (unheard \/ Untold(unit))
  BY Turn DEF PutUnheard, Writing
<1>2. remote' \in Value
  BY <1>1, PlanTyped
<1>3. unheard' \in {unheard, TRUE}
  BY <1>1, Standing
<1>4. Heard => state # None
  BY <1>1, KnownIfRecorded
<1>5. /\ todo' = <<>> /\ verdict' = "failed" /\ creating' = creating /\ state' \in State \cup {None}
      /\ state # None => state' # None
  BY <1>1, StopsTyped
<1>6. /\ todo' \in Seq(Steps \cup {"reconcile"})
      /\ unit' \in Units /\ PlanIsAsked' /\ AnswerIsThere' /\ PostsFollowRemovals(todo')
      /\ unit' \notin Lossy => PostsAreRecorded(todo')
  BY <1>1, <1>5, EndsInHand, StandingTyped
<1>7. unheard' \in BOOLEAN
  BY <1>3, Standing
<1>8. TypeOK'
  BY <1>1, <1>2, <1>5, <1>6, <1>7, StandingTyped, FaultTyped, Standing DEF TypeOK
<1>9. ObjectIsKnown'
  BY <1>1, <1>3, <1>4, <1>5, StandingTyped, Standing DEF ObjectIsKnown
<1>. QED  BY <1>6, <1>8, <1>9 DEF IInv, InHand

\* Any other end of a program.
LEMMA EndsInv ==
    ASSUME IInv, UNCHANGED standing, UNCHANGED <<creating, answer, unknown, unheard>>,
           todo' = <<>>, Fault \/ faults' = faults,
           verdict' \in {"ok", "failed", "inconsistent"},
           remote' \in Value \cup {None}, state' \in State \cup {None},
           remote' # None => state' # None
    PROVE  IInv'
<1>1. /\ todo' \in Seq(Steps \cup {"reconcile"})
      /\ unit' \in Units /\ PlanIsAsked' /\ AnswerIsThere' /\ PostsFollowRemovals(todo')
      /\ unit' \notin Lossy => PostsAreRecorded(todo')
  BY EndsInHand, StandingTyped
<1>2. TypeOK'
  BY <1>1, StandingTyped, FaultTyped, Standing DEF TypeOK
<1>3. ObjectIsKnown'
  BY StandingTyped, Standing DEF ObjectIsKnown
<1>. QED  BY <1>1, <1>2, <1>3 DEF IInv, InHand

\* What is attached is a value.
LEMMA AttachmentTyped ==
    ASSUME IInv, todo # <<>>, todo[1] = "attach", remote # None
    PROVE  Attachment(unit, planned, remote) \in Value
<1>1. planned \in Value \cup {Unknown} /\ unit \in Units /\ remote \in Value
  BY PlanTyped, Standing
<1>2. planned = Unknown => unit.schema \in Choosing
  BY DEF IInv, InHand, PlanIsAsked
<1>3. unit.update = "attached" => planned # Unknown
  BY <1>1, <1>2, HandlersAssumption
<1>. QED  BY <1>1, <1>3 DEF Attachment, Empty

LEMMA AttachInv ==
    ASSUME IInv, Attach
    PROVE  IInv'
<1>1. /\ UNCHANGED standing /\ UNCHANGED <<state, unknown, unheard>> /\ Goes /\ remote # None
      /\ running /\ todo # <<>> /\ todo[1] = "attach" /\ remote' = Attachment(unit, planned, remote)
      /\ answer' = remote'
  BY Turn DEF Attach
<1>2. remote' \in Value
  BY <1>1, AttachmentTyped
<1>3. Heard => state # None \/ RecordsFrom(Tail(todo), 1)
  BY <1>1, KnownIfRecorded
<1>. QED  BY <1>1, <1>2, <1>3, GoesInv, Standing, Markers DEF Goes

\* What is stored of an object, and of what is read of it.
LEMMA KeptTyped ==
    ASSUME NEW v \in Value \cup {Unknown}, NEW tainted \in BOOLEAN
    PROVE  [value |-> v, tainted |-> tainted] \in State /\ [value |-> v, tainted |-> tainted] # None
<1>1. [value |-> v, tainted |-> tainted] \in State
  BY DEF State
<1>. QED  BY <1>1, Markers DEF State

LEMMA StoredTyped ==
    ASSUME IInv, NEW r \in Value, NEW known \in Value \cup {Unknown}, NEW tainted \in BOOLEAN
    PROVE  /\ [value |-> Read(unit, r, known), tainted |-> tainted] \in State
           /\ [value |-> Read(unit, r, known), tainted |-> tainted] # None
<1>1. unit \in UnitType
  BY DEF IInv, TypeOK
<1>2. Read(unit, r, known) \in Value
  BY <1>1, ReadTyped
<1>. QED  BY <1>2, KeptTyped

LEMMA AttachFailsInv ==
    ASSUME IInv, AttachFails
    PROVE  IInv'
<1>1. /\ UNCHANGED standing /\ UNCHANGED <<creating, answer, unknown, unheard>> /\ Fault
      /\ remote # None /\ todo # <<>> /\ todo[1] = "attach" /\ verdict' = "failed" /\ todo' = <<>>
      /\ remote' \in {remote, Attachment(unit, planned, remote)}
  BY Turn DEF AttachFails
<1>2. remote \in Value /\ answer \in Value /\ creating \in BOOLEAN
  BY <1>1, NextStep, Standing
<1>3. remote' \in Value
  BY <1>1, <1>2, AttachmentTyped
<1>4. planned \in Value \cup {Unknown}
  BY <1>1, PlanTyped
<1>5. PICK r \in Value : state' = [value |-> Read(unit, r, planned), tainted |-> creating]
  BY <1>2, <1>3 DEF AttachFails
<1>6. state' \in State /\ state' # None
  BY <1>2, <1>4, <1>5, StoredTyped
<1>. QED  BY <1>1, <1>3, <1>6, EndsInv

LEMMA GetInv ==
    ASSUME IInv, Get
    PROVE  IInv'
<1>1. /\ UNCHANGED standing /\ UNCHANGED <<remote, state, unknown, unheard>> /\ Goes
      /\ remote # None /\ running /\ todo # <<>> /\ todo[1] = "get" /\ answer' = remote
  BY Turn DEF Get
<1>2. Heard => state # None
  BY <1>1, KnownIfRecorded
<1>. QED  BY <1>1, <1>2, GoesInv, Standing DEF Goes

LEMMA NotFoundInv ==
    ASSUME IInv, NotFound
    PROVE  IInv'
<1>1. /\ UNCHANGED standing /\ UNCHANGED <<remote, answer, unknown, unheard, faults>> /\ Stops
      /\ todo # <<>> /\ remote = None
  BY Turn DEF NotFound
<1>. QED  BY <1>1, StopsInv, Standing

LEMMA GoneInv ==
    ASSUME IInv, Gone
    PROVE  IInv'
<1>1. /\ UNCHANGED standing /\ UNCHANGED <<remote, creating, answer, unknown, unheard, faults>>
      /\ remote = None /\ state' = None /\ todo' = <<>> /\ verdict' = "failed"
  BY DEF Gone
<1>. QED  BY <1>1, EndsInv, Standing

LEMMA RemovalInv ==
    ASSUME IInv, Drop \/ Delete \/ DeleteUnheard
    PROVE  IInv'
<1>1. CASE Drop
  <2>1. /\ UNCHANGED standing /\ UNCHANGED <<state, answer, unknown, unheard>> /\ Goes
        /\ running /\ todo # <<>> /\ todo[1] = "drop" /\ remote' = None
    BY <1>1, Turn DEF Drop
  <2>. QED  BY <2>1, GoesInv, Standing DEF Goes
<1>2. CASE Delete
  <2>1. /\ UNCHANGED standing /\ UNCHANGED <<answer, unknown, unheard>> /\ Goes
        /\ running /\ todo # <<>> /\ todo[1] = "delete" /\ remote' = None /\ state' = None
    BY <1>2, Turn DEF Delete
  <2>. QED  BY <2>1, GoesInv, Standing DEF Goes
<1>3. CASE DeleteUnheard
  <2>1. /\ UNCHANGED standing /\ UNCHANGED <<answer, unknown, unheard>> /\ Stops /\ Fault
        /\ todo # <<>> /\ todo[1] \in {"delete", "drop"} /\ remote' = None
    BY <1>3, Turn DEF DeleteUnheard
  <2>. QED  BY <2>1, StopsInv, Standing
<1>. QED  BY <1>1, <1>2, <1>3

\* What the handlers store.
LEMMA StoringInv ==
    ASSUME IInv, Record \/ Save \/ Keep
    PROVE  IInv'
<1>1. CASE Record
  <2>1. /\ UNCHANGED standing /\ UNCHANGED <<remote, answer, unknown, unheard>> /\ Goes
        /\ running /\ todo # <<>> /\ todo[1] = "record"
        /\ state' = [value |-> Null, tainted |-> FALSE]
    BY <1>1, Turn DEF Record
  <2>2. state' \in State /\ state' # None
    <3>1. Null \in Value \cup {Unknown}
      BY DEF Value
    <3>. QED  BY <2>1, <3>1, KeptTyped
  <2>. QED  BY <2>1, <2>2, GoesInv, Standing DEF Goes
<1>2. CASE Save
  <2>1. /\ UNCHANGED standing /\ UNCHANGED <<remote, creating, answer, unknown, unheard, faults>>
        /\ running /\ todo # <<>> /\ todo[1] = "save" /\ todo' = Tail(todo)
        /\ verdict' = Judge(Read(unit, answer, planned))
        /\ state' = [value |-> Read(unit, answer, planned),
                     tainted |-> creating /\ verdict' = "inconsistent"]
    BY <1>2, Turn DEF Save
  <2>2. answer \in Value /\ planned \in Value \cup {Unknown}
    BY <2>1, NextStep, Standing, PlanTyped
  <2>3. (creating /\ verdict' = "inconsistent") \in BOOLEAN
    BY Standing
  <2>4. state' \in State /\ state' # None
    BY <2>1, <2>2, <2>3, StoredTyped
  <2>5. verdict' \in {"ok", "failed", "inconsistent"}
    BY <2>1, Standing DEF Judge
  <2>. QED  BY <2>1, <2>4, <2>5, GoesInv, Standing
<1>3. CASE Keep
  <2>1. /\ UNCHANGED standing /\ UNCHANGED <<remote, answer, unknown, unheard>> /\ Goes
        /\ running /\ todo # <<>> /\ todo[1] = "keep"
        /\ state' = [value |-> planned, tainted |-> FALSE]
    BY <1>3, Turn DEF Keep
  <2>2. planned \in Value \cup {Unknown}
    BY <2>1, PlanTyped
  <2>3. state' \in State /\ state' # None
    BY <2>1, <2>2, KeptTyped
  <2>. QED  BY <2>1, <2>3, GoesInv, Standing DEF Goes
<1>. QED  BY <1>1, <1>2, <1>3

LEMMA ReconcileInv ==
    ASSUME IInv, Reconcile
    PROVE  IInv'
<1>1. /\ UNCHANGED standing /\ UNCHANGED <<creating, answer, unknown, unheard, faults>>
      /\ todo' = <<>> /\ running
  BY Turn DEF Reconcile
<1>2. CASE config = None
  <2>1. remote' = None /\ state' = None /\ verdict' = verdict
    BY <1>2 DEF Reconcile
  <2>. QED  BY <1>1, <2>1, EndsInv, Standing
<1>3. CASE config # None
  <2>1. /\ planned \in Value \cup {Unknown} /\ unit \in UnitType /\ unit \in Units
        /\ planned = Unknown => unit.schema \in Choosing
    BY <1>1, <1>3 DEF IInv, TypeOK, InHand, PlanIsAsked
  <2>2. CASE AsWanted
    <3>1. /\ state' = [value |-> IF planned = Unknown THEN state.value ELSE planned,
                       tainted |-> FALSE]
          /\ remote' = remote /\ verdict' = verdict
      BY <1>3, <2>2 DEF Reconcile
    <3>2. state.value \in Value \cup {Unknown}
      BY <2>2, StateTyped DEF IInv, AsWanted
    <3>3. state' \in State /\ state' # None
      BY <2>1, <3>1, <3>2, KeptTyped
    <3>. QED  BY <1>1, <3>1, <3>3, EndsInv, Standing
  <2>3. CASE ~AsWanted
    <3>. DEFINE previous == IF state = None THEN Unknown ELSE state.value
    <3>1. /\ remote' \in Rewritten(unit, planned, remote, previous)
          /\ state' = [value |-> Read(unit, remote', Taken(unit, planned)), tainted |-> FALSE]
          /\ verdict' = Judge(state'.value)
      BY <1>3, <2>3 DEF Reconcile
    <3>2. Rewritten(unit, planned, remote, previous) \subseteq Value
      <4>1. unit.update = "attached" => planned # Unknown
        BY <2>1, HandlersAssumption
      <4>2. CreateValue(unit, planned) \subseteq Value
            /\ \A old \in Value : UpdateValue(unit, planned, old) \subseteq Value
        BY <2>1, RequestTyped
      <4>3. remote \in Value \cup {None}
        BY Standing
      <4>. QED  BY <2>1, <4>1, <4>2, <4>3 DEF Rewritten
    <3>. HIDE DEF previous
    <3>3. Taken(unit, planned) \in Value \cup {Unknown}
      BY <2>1 DEF Taken
    <3>4. state' \in State /\ state' # None
      BY <3>1, <3>2, <3>3, StoredTyped
    <3>5. verdict' \in {"ok", "failed", "inconsistent"}
      BY <3>1, Standing DEF Judge
    <3>. QED  BY <1>1, <3>1, <3>2, <3>4, <3>5, EndsInv
  <2>. QED  BY <2>2, <2>3
<1>. QED  BY <1>2, <1>3

---------------------------------------------------------------------------
(* An apply, and what is done around it.                                   *)

\* What a refresh finds.  Without others and lost answers, it is all there is.
LEMMA RefreshedTyped ==
    ASSUME IInv, ~running
    PROVE  /\ Refreshed \in State \cup {None} /\ todo = <<>>
           /\ Heard /\ Refreshed = None => remote = None
<1>1. todo = <<>>
  BY DEF IInv, InHand, PlanIsAsked
<1>2. Heard => (remote # None => state # None)
  <2>1. ~RecordsFrom(<<>>, 1)
    BY EmptySeq DEF RecordsFrom
  <2>. QED  BY <1>1, <2>1 DEF IInv, InHand, ObjectIsKnown
<1>3. CASE remote = None
  BY <1>1, <1>3 DEF Refreshed
<1>4. CASE remote # None /\ Nested(unit)
  <2>1. remote \in Value /\ (IF state = None THEN Unknown ELSE state.value) \in Value \cup {Unknown}
    BY <1>4, Standing, StateTyped DEF IInv
  <2>2. Refreshed = [value |-> Read(unit, remote, IF state = None THEN Unknown ELSE state.value),
                     tainted |-> FALSE]
    BY <1>4 DEF Refreshed
  <2>. QED  BY <1>1, <2>1, <2>2, StoredTyped
<1>5. CASE remote # None /\ ~Nested(unit) /\ state = None
  BY <1>1, <1>2, <1>5 DEF Refreshed
<1>6. CASE remote # None /\ ~Nested(unit) /\ state # None
  <2>1. remote \in Value /\ state \in State /\ state.value \in Value \cup {Unknown}
        /\ state.tainted \in BOOLEAN
    BY <1>6, Standing, StateTyped DEF IInv
  <2>2. Refreshed = [state EXCEPT !.value = Read(unit, remote, state.value)]
    BY <1>6 DEF Refreshed
  <2>3. Refreshed = [value |-> Read(unit, remote, state.value), tainted |-> state.tainted]
    BY <2>1, <2>2 DEF State
  <2>. QED  BY <1>1, <2>1, <2>3, StoredTyped
<1>. QED  BY <1>3, <1>4, <1>5, <1>6

LEMMA OperationTyped ==
    ASSUME NEW known
    PROVE  /\ Operation(known) \in {"none", "create", "update", "replace", "delete"}
           /\ config = None => Operation(known) \in {"none", "delete"}
           /\ Operation(known) = "create" => known = None
BY DEF Operation

LEMMA WantedTyped ==
    ASSUME TypeOK, config # None, NEW known \in State \cup {None}
    PROVE  /\ Wanted(known) \in Value \cup {Unknown}
           /\ Wanted(known) = Unknown => unit.schema \in Choosing
<1>1. (IF known = None THEN Unknown ELSE known.value) \in Value \cup {Unknown}
  BY DEF State
<1>2. config \in Value /\ unit.schema \in Schemas
  BY UnitTyped DEF TypeOK
<1>. QED  BY <1>1, <1>2, PlannedTyped DEF Wanted

LEMMA BeginInv ==
    ASSUME IInv, Begin
    PROVE  IInv'
<1>. DEFINE op == Operation(Refreshed)
            refused == Refused /\ op \in {"create", "update", "replace"}
<1>1. /\ ~running /\ running' /\ state' = Refreshed /\ answer' = None
      /\ todo' = IF ~refused THEN Program(op, Refreshed)
                  ELSE IF op = "replace" THEN unit.deleting ELSE <<>>
      /\ planned' = IF config = None THEN None
                    ELSE Wanted(IF op = "replace" THEN None ELSE Refreshed)
      /\ creating' = (op = "create") /\ verdict' = (IF refused THEN "failed" ELSE "ok")
      /\ running' = TRUE /\ applied' = FALSE /\ disturbed' = FALSE
      /\ UNCHANGED <<unit, config, remote, unknown, unheard, faults, edits, drifts>>
  BY DEF Begin
<1>2. Refreshed \in State \cup {None} /\ (Heard /\ Refreshed = None => remote = None)
  BY <1>1, RefreshedTyped
<1>3. /\ op \in {"none", "create", "update", "replace", "delete"}
      /\ config = None => op \in {"none", "delete"}
      /\ op = "create" => Refreshed = None
  BY OperationTyped
<1>4. /\ todo' \in Program_ /\ PostsFollowRemovals(todo') /\ Answered(todo')
      /\ unit \notin Lossy => PostsAreRecorded(todo')
      /\ todo' # <<>> /\ todo'[1] = "post" => op = "create"
      /\ config = None => \A i \in DOMAIN todo' : todo'[i] \in {"get", "delete", "reconcile"}
  <2>1. CASE refused /\ op # "replace"
    <3>1. todo' = <<>> /\ <<>> \in Program_ /\ DOMAIN <<>> = {}
      BY <1>1, <2>1, EmptySeq DEF Program_
    <3>. QED  BY <3>1 DEF PostsFollowRemovals, Answered, PostsAreRecorded
  <2>2. CASE ~refused
    <3>1. todo' = Program(op, Refreshed)
      BY <1>1, <2>2
    <3>2. unit \in UnitType /\ unit \in Units
      BY DEF IInv, TypeOK, InHand
    <3>. HIDE DEF op
    <3>. QED  BY <1>3, <3>1, <3>2, ProgramTyped
  <2>3. CASE refused /\ op = "replace"
    <3>1. todo' = unit.deleting
      BY <1>1, <2>3
    <3>2. /\ unit.deleting \in Program_ /\ unit.deleting # <<>>
          /\ \A i \in DOMAIN unit.deleting : unit.deleting[i] \in {"get", "delete"}
      BY HandlersTyped DEF IInv, TypeOK, InHand
    <3>3. 1 \in DOMAIN unit.deleting
      BY <3>2, EmptySeq, LenProperties DEF Program_
    <3>. HIDE DEF op, refused
    <3>. QED  BY <3>1, <3>2, <3>3 DEF PostsFollowRemovals, Answered, PostsAreRecorded
  <2>. QED  BY <2>1, <2>2, <2>3
<1>5. /\ planned' \in Value \cup {None, Unknown}
      /\ planned' = None <=> config = None
      /\ planned' = Unknown => unit.schema \in Choosing
  <2>1. (IF op = "replace" THEN None ELSE Refreshed) \in State \cup {None}
    BY <1>2
  <2>2. config # None => /\ planned' \in Value \cup {Unknown}
                         /\ planned' = Unknown => unit.schema \in Choosing
    BY <1>1, <2>1, WantedTyped DEF IInv
  <2>. QED  BY <1>1, <2>2, Markers
<1>. HIDE DEF op, refused
<1>6. creating' \in BOOLEAN /\ verdict' \in {"ok", "failed", "inconsistent"}
  BY <1>1
<1>7. TypeOK'
  BY <1>1, <1>2, <1>4, <1>5, <1>6, Standing, Bounds DEF IInv, TypeOK, Program_
<1>8. PlanIsAsked'
  BY <1>1, <1>4, <1>5 DEF PlanIsAsked
<1>9. ObjectIsKnown'
  <2>. SUFFICES ASSUME Heard'
                PROVE  /\ ~unknown
                       /\ todo' # <<>> /\ todo'[1] = "post" => remote = None
                       /\ remote # None => state' # None
    BY <1>1 DEF ObjectIsKnown
  <2>1. Heard
    BY <1>1 DEF Heard
  <2>. QED  BY <1>1, <1>2, <1>3, <1>4, <2>1, Standing
<1>10. unit' \in Units /\ AnswerIsThere' /\ PostsFollowRemovals(todo')
       /\ (unit' \notin Lossy => PostsAreRecorded(todo'))
  BY <1>1, <1>4 DEF IInv, InHand, AnswerIsThere
<1>. QED  BY <1>7, <1>8, <1>9, <1>10 DEF IInv, InHand

\* A step that leaves the program and its plan alone, or between two applies.
LEMMA SameInHand ==
    ASSUME IInv, UNCHANGED <<unit, planned, answer, todo>>,
           \/ UNCHANGED <<running, config>>
           \/ todo = <<>> /\ running' = FALSE
    PROVE  /\ todo' \in Seq(Steps \cup {"reconcile"})
           /\ unit' \in Units /\ PlanIsAsked' /\ AnswerIsThere' /\ PostsFollowRemovals(todo')
           /\ unit' \notin Lossy => PostsAreRecorded(todo')
<1>1. PlanIsAsked'
  BY DEF IInv, InHand, PlanIsAsked
<1>2. AnswerIsThere'
  BY DEF IInv, InHand, AnswerIsThere
<1>. QED  BY <1>1, <1>2 DEF IInv, TypeOK, InHand

LEMMA EndInv ==
    ASSUME IInv, End
    PROVE  IInv'
<1>1. /\ todo = <<>> /\ running' = FALSE /\ applied' = (verdict = "ok" /\ ~disturbed)
      /\ UNCHANGED <<unit, config, remote, state, todo, creating, planned, answer, verdict,
                     unknown, unheard, disturbed, faults, edits, drifts>>
  BY DEF End
<1>2. /\ unit' \in Units /\ PlanIsAsked' /\ AnswerIsThere' /\ PostsFollowRemovals(todo')
      /\ unit' \notin Lossy => PostsAreRecorded(todo')
  BY <1>1, SameInHand
<1>3. applied' \in BOOLEAN
  BY <1>1
<1>4. TypeOK'
  BY <1>1, <1>3 DEF IInv, TypeOK
<1>5. ObjectIsKnown'
  BY <1>1 DEF IInv, InHand, ObjectIsKnown, Heard
<1>. QED  BY <1>2, <1>4, <1>5 DEF IInv, InHand

LEMMA EditConfigInv ==
    ASSUME IInv, EditConfig
    PROVE  IInv'
<1>1. /\ ~running /\ edits < MaxEdits /\ edits' = edits + 1 /\ applied' = FALSE
      /\ config' \in Configurable(unit.schema) \cup {None}
      /\ UNCHANGED <<unit, remote, state, running, todo, creating, planned, answer, verdict,
                     unknown, unheard, disturbed, faults, drifts>>
  BY DEF EditConfig
<1>2. todo = <<>> /\ running' = FALSE
  BY <1>1 DEF IInv, TypeOK, InHand, PlanIsAsked
<1>3. /\ unit' \in Units /\ PlanIsAsked' /\ AnswerIsThere' /\ PostsFollowRemovals(todo')
      /\ unit' \notin Lossy => PostsAreRecorded(todo')
  BY <1>1, <1>2, SameInHand
<1>4. config' \in Value \cup {None}
  <2>1. unit.schema \in Schemas
    BY UnitTyped DEF IInv, TypeOK
  <2>. QED  BY <1>1, <2>1, ConfigurableTyped
<1>5. edits' \in 0 .. MaxEdits
  BY <1>1, Bounds DEF IInv, TypeOK
<1>6. TypeOK'
  BY <1>1, <1>4, <1>5 DEF IInv, TypeOK
<1>7. ObjectIsKnown'
  BY <1>1 DEF IInv, InHand, ObjectIsKnown, Heard
<1>. QED  BY <1>3, <1>6, <1>7 DEF IInv, InHand

LEMMA DriftInv ==
    ASSUME IInv, Drift
    PROVE  IInv'
<1>1. /\ drifts < MaxDrifts /\ drifts' = drifts + 1 /\ applied' = FALSE /\ disturbed' = running
      /\ remote' \in (Configurable(unit.schema) \ {remote}) \cup {None}
      /\ UNCHANGED <<unit, config, state, running, todo, creating, planned, answer, verdict,
                     unknown, unheard, faults, edits>>
  BY DEF Drift
<1>2. /\ unit' \in Units /\ PlanIsAsked' /\ AnswerIsThere' /\ PostsFollowRemovals(todo')
      /\ unit' \notin Lossy => PostsAreRecorded(todo')
  BY <1>1, SameInHand
<1>3. remote' \in Value \cup {None}
  <2>1. unit.schema \in Schemas
    BY UnitTyped DEF IInv, TypeOK
  <2>. QED  BY <1>1, <2>1, ConfigurableTyped
<1>4. drifts' \in 0 .. MaxDrifts
  BY <1>1, Bounds DEF IInv, TypeOK
<1>5. TypeOK'
  BY <1>1, <1>3, <1>4 DEF IInv, TypeOK
<1>6. ObjectIsKnown'
  <2>1. remote # None
    BY DEF Drift
  <2>. QED  BY <1>1, <2>1 DEF IInv, InHand, ObjectIsKnown, Heard
<1>. QED  BY <1>2, <1>5, <1>6 DEF IInv, InHand

LEMMA ImportInv ==
    ASSUME IInv, Import
    PROVE  IInv'
<1>1. /\ ~running /\ remote # None /\ applied' = FALSE
      /\ state' = [value |-> Read(unit, remote, Unknown), tainted |-> FALSE]
      /\ UNCHANGED <<unit, config, remote, running, todo, creating, planned, answer, verdict,
                     unknown, unheard, disturbed, faults, edits, drifts>>
  BY DEF Import
<1>2. /\ unit' \in Units /\ PlanIsAsked' /\ AnswerIsThere' /\ PostsFollowRemovals(todo')
      /\ unit' \notin Lossy => PostsAreRecorded(todo')
  BY <1>1, SameInHand
<1>3. remote \in Value
  BY <1>1, Standing
<1>4. state' \in State /\ state' # None
  BY <1>1, <1>3, StoredTyped
<1>5. TypeOK'
  BY <1>1, <1>4 DEF IInv, TypeOK
<1>6. ObjectIsKnown'
  BY <1>1, <1>4 DEF IInv, InHand, ObjectIsKnown, Heard
<1>. QED  BY <1>2, <1>5, <1>6 DEF IInv, InHand

---------------------------------------------------------------------------
(* The specification.                                                      *)

LEMMA InitInv == Init => IInv
<1>. SUFFICES ASSUME Init
              PROVE  IInv
  OBVIOUS
<1>1. /\ unit \in Units /\ unit \in UnitType /\ config \in Configurable(unit.schema)
      /\ remote = None /\ state = None /\ answer = None /\ planned = None
      /\ running = FALSE /\ todo = <<>> /\ creating = FALSE
      /\ verdict = "ok" /\ applied = FALSE /\ unknown = FALSE /\ unheard = FALSE
      /\ disturbed = FALSE /\ faults = 0 /\ edits = 0 /\ drifts = 0
  BY UnitsAssumption DEF Init
<1>2. config \in Value
  BY <1>1, UnitTyped, ConfigurableTyped
<1>3. todo \in Seq(Steps \cup {"reconcile"}) /\ DOMAIN todo = {}
  BY <1>1, EmptySeq
<1>4. TypeOK
  <2>1. faults \in 0 .. MaxFaults /\ edits \in 0 .. MaxEdits /\ drifts \in 0 .. MaxDrifts
    BY <1>1, Bounds
  <2>2. {running, creating, applied, unknown, unheard, disturbed} \subseteq BOOLEAN
    BY <1>1
  <2>3. verdict \in {"ok", "failed", "inconsistent"}
    BY <1>1
  <2>4. remote \in Value \cup {None} /\ answer \in Value \cup {None} /\ state \in State \cup {None}
        /\ planned \in Value \cup {None, Unknown} /\ config \in Value \cup {None}
    BY <1>1, <1>2
  <2>. QED  BY <1>1, <1>3, <2>1, <2>2, <2>3, <2>4 DEF TypeOK
<1>5. PlanIsAsked
  BY <1>1, <1>3, Markers DEF PlanIsAsked
<1>6. AnswerIsThere /\ PostsFollowRemovals(todo) /\ PostsAreRecorded(todo)
  BY <1>3 DEF AnswerIsThere, Answered, PostsFollowRemovals, PostsAreRecorded
<1>7. ObjectIsKnown
  BY <1>1 DEF ObjectIsKnown
<1>. QED  BY <1>1, <1>4, <1>5, <1>6, <1>7 DEF IInv, InHand

LEMMA NextInv == IInv /\ [Next]_vars => IInv'
<1>. SUFFICES ASSUME IInv, [Next]_vars
              PROVE  IInv'
  OBVIOUS
<1>1. CASE Begin
  BY <1>1, BeginInv
<1>2. CASE Handlers
  BY <1>2, PostInv, PostFailsInv, AttachInv, PutInv, GetInv, NotFoundInv, GoneInv, RemovalInv,
     StoringInv, ReconcileInv, EndInv DEF Handlers
<1>3. CASE Faults
  BY <1>3, CallFailsInv, AttachFailsInv, PostFailsInv, PutUnheardInv, RemovalInv DEF Faults
<1>4. CASE EditConfig \/ Drift \/ Import
  BY <1>4, EditConfigInv, DriftInv, ImportInv
<1>5. CASE UNCHANGED vars
  <2>1. /\ unit' \in Units /\ PlanIsAsked' /\ AnswerIsThere' /\ PostsFollowRemovals(todo')
        /\ unit' \notin Lossy => PostsAreRecorded(todo')
    BY <1>5, SameInHand DEF vars
  <2>2. TypeOK'
    BY <1>5 DEF IInv, TypeOK, vars
  <2>3. ObjectIsKnown'
    BY <1>5 DEF IInv, InHand, ObjectIsKnown, Heard, vars
  <2>. QED  BY <2>1, <2>2, <2>3 DEF IInv, InHand
<1>. QED  BY <1>1, <1>2, <1>3, <1>4, <1>5 DEF Next

\* Whatever fails, is lost or is edited, the steps a handler has before it fit what
\* is known of the object and of the plan.
THEOREM LifeInvariance == Spec => []IInv
BY InitInv, NextInv, PTL DEF Spec

\* Every value that is planned, sent, answered and stored is one of its attribute, for
\* each combination of classes that HandlersAssumption allows.
THEOREM LifeTypeCorrect == Spec => []TypeOK
<1>1. IInv => TypeOK
  BY DEF IInv
<1>. QED  BY <1>1, LifeInvariance, PTL

\* An object whose creation was answered is in the state when the apply ends, whichever
\* call fails after the answer, if it is of a kind whose Create and Update store it before
\* anything else can fail (HandlersAssumption): of any but a Lossy one.
THEOREM RecordsObjects == Spec => []NothingIsOrphaned
<1>1. IInv => NothingIsOrphaned
  <2>. SUFFICES ASSUME IInv, ~running, Heard
                PROVE  ~unknown /\ (remote # None => state # None)
    BY DEF NothingIsOrphaned, Heard
  <2>1. todo = <<>>
    BY DEF IInv, InHand, PlanIsAsked
  <2>2. ~RecordsFrom(<<>>, 1)
    BY EmptySeq DEF RecordsFrom
  <2>. QED  BY <2>1, <2>2 DEF IInv, InHand, ObjectIsKnown
<1>. QED  BY <1>1, LifeInvariance, PTL
=============================================================================
