------------------------ MODULE ResourceValues_proofs ------------------------
(***************************************************************************)
(* Proofs about the values of ResourceLife: what an apply leaves in the    *)
(* state and at the API, for any units whose tables fit together as the    *)
(* assumptions of AttributeUnits say.                                      *)
(***************************************************************************)
EXTENDS ResourceLife_proofs

---------------------------------------------------------------------------
(* The shape of a program.                                                 *)

LEMMA EmptyShape == Shape(<<>>) /\ ~Taking(<<>>)
BY EmptySeq DEF Shape, Taking

LEMMA TailShape ==
    ASSUME NEW s \in Program_, s # <<>>, Shape(s)
    PROVE  /\ Shape(Tail(s))
           /\ Tail(s) # <<>> => /\ 1 \in DOMAIN Tail(s) /\ Tail(s)[1] = s[2] /\ Tail(s)[1] \notin Opening
                                /\ Tail(s)[Len(Tail(s))] = s[Len(s)]
           /\ Tail(s) = <<>> => s[1] \in Closing
           /\ \A i \in DOMAIN Tail(s) : i + 1 \in DOMAIN s /\ Tail(s)[i] = s[i + 1]
<1>1. /\ Len(s) \in Nat \ {0} /\ DOMAIN s = 1 .. Len(s) /\ DOMAIN Tail(s) = 1 .. (Len(s) - 1)
      /\ \A i \in 1 .. (Len(s) - 1) : Tail(s)[i] = s[i + 1]
      /\ Len(Tail(s)) = Len(s) - 1 /\ Tail(s) \in Program_
  <2>1. s \in Seq(Steps \cup {"reconcile"})
    BY DEF Program_
  <2>. QED  BY <2>1, TailAt DEF Program_
<1>2. \A i \in DOMAIN Tail(s) : i + 1 \in DOMAIN s /\ Tail(s)[i] = s[i + 1]
  BY <1>1
<1>3. Tail(s) # <<>> <=> Len(s) > 1
  <2>1. Tail(s) = <<>> <=> Len(Tail(s)) = 0
    BY <1>1, EmptySeq DEF Program_
  <2>. QED  BY <1>1, <2>1
<1>4. ASSUME Tail(s) # <<>>
      PROVE  /\ 1 \in DOMAIN Tail(s) /\ Tail(s)[1] = s[2] /\ Tail(s)[1] \notin Opening
             /\ Tail(s)[Len(Tail(s))] = s[Len(s)]
  <2>1. 1 \in 1 .. (Len(s) - 1) /\ 1 + 1 = 2 /\ 2 \in DOMAIN s /\ 2 > 1
    BY <1>1, <1>3, <1>4
  <2>2. Len(s) - 1 \in 1 .. (Len(s) - 1) /\ (Len(s) - 1) + 1 = Len(s)
    BY <1>1, <1>3, <1>4
  <2>3. s[2] \notin Opening
    BY <2>1 DEF Shape, ShapeAt
  <2>. QED  BY <1>1, <2>1, <2>2, <2>3
<1>5. Tail(s) = <<>> => s[1] \in Closing
  <2>1. Tail(s) = <<>> => Len(s) = 1
    BY <1>1, <1>3
  <2>. QED  BY <2>1 DEF Shape
<1>6. ASSUME NEW i \in DOMAIN Tail(s)
      PROVE  ShapeAt(Tail(s), i)
  <2>1. /\ i \in 1 .. (Len(s) - 1) /\ i + 1 \in DOMAIN s /\ Tail(s)[i] = s[i + 1] /\ i + 1 > 1
        /\ i + 1 = Len(s) <=> i = Len(Tail(s))
    BY <1>1, <1>6
  <2>2. ShapeAt(s, i + 1)
    BY <2>1 DEF Shape
  <2>3. Tail(s)[i] \in {"post", "put", "change", "attach", "record", "save"} =>
            \A j \in i + 1 .. Len(Tail(s)) : Tail(s)[j] \in Answering
    <3>. SUFFICES ASSUME Tail(s)[i] \in {"post", "put", "change", "attach", "record", "save"},
                         NEW j \in i + 1 .. Len(Tail(s))
                  PROVE  Tail(s)[j] \in Answering
      OBVIOUS
    <3>1. j \in 1 .. (Len(s) - 1) /\ j + 1 \in (i + 1) + 1 .. Len(s)
      BY <1>1, <2>1
    <3>2. s[j + 1] \in Answering
      BY <2>1, <2>2, <3>1 DEF ShapeAt
    <3>. QED  BY <1>1, <3>1, <3>2
  <2>4. (i + 1) + 1 \in DOMAIN s => /\ i + 1 \in 1 .. (Len(s) - 1) /\ i + 1 \in DOMAIN Tail(s)
                                     /\ Tail(s)[i + 1] = s[(i + 1) + 1]
    BY <1>1, <2>1
  <2>5. i + 1 # Len(s) => (i + 1) + 1 \in DOMAIN s
    BY <1>1, <2>1
  <2>6. /\ Tail(s)[i] \in {"post", "put", "change"} /\ unit.update = "attached" =>
            i + 1 \in DOMAIN Tail(s) /\ Tail(s)[i + 1] = "attach"
        /\ Tail(s)[i] = "post" /\ unit.create = "attached" =>
            i + 1 \in DOMAIN Tail(s) /\ Tail(s)[i + 1] = "attach"
    BY <2>1, <2>2, <2>4 DEF ShapeAt
  <2>7. /\ Tail(s)[i] \notin Opening
        /\ Tail(s)[i] \in {"keep", "reconcile"} => i = Len(Tail(s))
        /\ Tail(s)[i] = "reconcile" <=> Nested(unit)
    BY <2>1, <2>2 DEF ShapeAt
  <2>8. Tail(s)[i] \in {"delete", "drop"} /\ i # Len(Tail(s)) => Tail(s)[i + 1] = "post"
    BY <2>1, <2>2, <2>4, <2>5 DEF ShapeAt
  <2>. QED  BY <2>3, <2>6, <2>7, <2>8 DEF ShapeAt
<1>7. Tail(s) # <<>> => Tail(s)[Len(Tail(s))] \in Closing
  BY <1>4 DEF Shape
<1>. QED  BY <1>2, <1>4, <1>5, <1>6, <1>7 DEF Shape

\* When what is left begins to be the taking of an answer.
LEMMA TailTakes ==
    ASSUME NEW s \in Program_, s # <<>>, Shape(s)
    PROVE  /\ s[1] \in {"post", "put", "change"} => Tail(s) # <<>> /\ Taking(Tail(s))
           /\ s[1] \in {"attach", "record", "save"} => Taking(s)
           /\ s[1] = "get" => Tail(s) # <<>> /\ (Taking(Tail(s)) <=> Taking(s))
           /\ Taking(s) /\ Tail(s) # <<>> => Taking(Tail(s))
           /\ Taking(s) => s[1] \in Answering
           /\ s[1] \in {"delete", "drop", "keep", "reconcile"} => ~Taking(Tail(s))
<1>1. /\ Len(s) \in Nat \ {0} /\ DOMAIN s = 1 .. Len(s) /\ 1 \in DOMAIN s
      /\ \A i \in DOMAIN Tail(s) : i + 1 \in 2 .. Len(s) /\ Tail(s)[i] = s[i + 1]
      /\ \A i \in DOMAIN s : i = 1 \/ (i \in 2 .. Len(s) /\ i - 1 \in DOMAIN Tail(s) /\ Tail(s)[i - 1] = s[i])
  <2>1. /\ Len(s) \in Nat \ {0} /\ DOMAIN s = 1 .. Len(s) /\ DOMAIN Tail(s) = 1 .. (Len(s) - 1)
        /\ \A i \in 1 .. (Len(s) - 1) : Tail(s)[i] = s[i + 1]
    BY TailAt DEF Program_
  <2>2. \A i \in DOMAIN s : i = 1 \/ (i \in 2 .. Len(s) /\ i - 1 \in 1 .. (Len(s) - 1) /\ (i - 1) + 1 = i)
    BY <2>1
  <2>. QED  BY <2>1, <2>2
<1>2. Tail(s) = <<>> => s[1] \in Closing
  BY TailShape
<1>3. ShapeAt(s, 1)
  BY <1>1 DEF Shape
<1>4. s[1] \in {"post", "put", "change"} => Tail(s) # <<>> /\ Taking(Tail(s))
  <2>. SUFFICES ASSUME s[1] \in {"post", "put", "change"}
                PROVE  Tail(s) # <<>> /\ Taking(Tail(s))
    OBVIOUS
  <2>1. \A j \in 2 .. Len(s) : s[j] \in Answering
    BY <1>3 DEF ShapeAt
  <2>. QED  BY <1>1, <1>2, <2>1 DEF Taking, Closing
<1>5. s[1] \in {"attach", "record", "save"} => Taking(s)
  <2>. SUFFICES ASSUME s[1] \in {"attach", "record", "save"}
                PROVE  Taking(s)
    OBVIOUS
  <2>1. \A j \in 2 .. Len(s) : s[j] \in Answering
    BY <1>3 DEF ShapeAt
  <2>2. s[1] \in Answering
    BY DEF Answering
  <2>. QED  BY <1>1, <2>1, <2>2 DEF Taking
<1>6. s[1] = "get" => Tail(s) # <<>> /\ (Taking(Tail(s)) <=> Taking(s))
  <2>. SUFFICES ASSUME s[1] = "get"
                PROVE  Tail(s) # <<>> /\ (Taking(Tail(s)) <=> Taking(s))
    OBVIOUS
  <2>1. Tail(s) # <<>> /\ s[1] \in Answering
    BY <1>2 DEF Closing, Answering
  <2>2. (\A i \in DOMAIN s : s[i] \in Answering) => \A i \in DOMAIN Tail(s) : Tail(s)[i] \in Answering
    BY <1>1
  <2>3. (\A i \in DOMAIN Tail(s) : Tail(s)[i] \in Answering) => \A i \in DOMAIN s : s[i] \in Answering
    BY <1>1, <2>1
  <2>. QED  BY <2>1, <2>2, <2>3 DEF Taking
<1>7. Taking(s) /\ Tail(s) # <<>> => Taking(Tail(s))
  <2>. SUFFICES ASSUME Taking(s), Tail(s) # <<>>, NEW i \in DOMAIN Tail(s)
                PROVE  Tail(s)[i] \in Answering
    BY DEF Taking
  <2>1. i + 1 \in DOMAIN s /\ Tail(s)[i] = s[i + 1]
    BY <1>1
  <2>. QED  BY <2>1 DEF Taking
<1>8. s[1] \in {"delete", "drop", "keep", "reconcile"} => ~Taking(Tail(s))
  <2>. SUFFICES ASSUME s[1] \in {"delete", "drop", "keep", "reconcile"}, Tail(s) # <<>>
                PROVE  ~Taking(Tail(s))
    BY DEF Taking
  <2>1. 1 \in DOMAIN Tail(s) /\ Tail(s)[1] = s[2] /\ 1 # Len(s) /\ 1 + 1 = 2
    <3>1. 1 \in DOMAIN Tail(s) /\ Tail(s)[1] = s[2]
      BY TailShape
    <3>. QED  BY <1>1, <3>1
  <2>2. s[2] = "post"
    BY <1>3, <2>1 DEF ShapeAt
  <2>. QED  BY <2>1, <2>2 DEF Taking, Answering
<1>. QED  BY <1>1, <1>4, <1>5, <1>6, <1>7, <1>8 DEF Taking

\* The shapes of the handlers' programs.
LEMMA WritesShape ==
    ASSUME ~Nested(unit), NEW s \in Program_, NEW w, NEW attaches, WritesFirst(s, w, attaches),
           w \in {{"post"}, {"put", "change"}},
           unit.update = "attached" => attaches,
           w = {"post"} /\ unit.create = "attached" => attaches
    PROVE  Shape(s) /\ s # <<>> /\ s[1] \in w /\ s[Len(s)] = "save" /\ ~Taking(s)
<1>1. /\ Len(s) \in Nat /\ Len(s) > 1 /\ DOMAIN s = 1 .. Len(s)
      /\ s[1] \in w /\ s[Len(s)] = "save"
      /\ \A i \in 2 .. Len(s) : s[i] \in Answering /\ (s[i] = "attach" => i = 2)
      /\ attaches => s[2] = "attach"
  BY LenProperties DEF Program_, WritesFirst
<1>2. s # <<>>
  BY <1>1, EmptySeq
<1>3. 1 \in DOMAIN s /\ s[1] \in {"post", "put", "change"}
  BY <1>1
<1>4. ~Taking(s)
  BY <1>3 DEF Taking, Answering
<1>5. ShapeAt(s, 1)
  <2>1. 1 + 1 = 2 /\ 2 \in DOMAIN s
    BY <1>1
  <2>2. s[1] = "post" => w = {"post"}
    BY <1>1
  <2>. QED  BY <1>1, <1>3, <2>1, <2>2 DEF ShapeAt
<1>6. ASSUME NEW i \in 2 .. Len(s)
      PROVE  ShapeAt(s, i)
  <2>1. s[i] \in Answering /\ \A j \in i + 1 .. Len(s) : j \in 2 .. Len(s)
    BY <1>1, <1>6
  <2>2. \A j \in i + 1 .. Len(s) : s[j] \in Answering
    BY <1>1, <2>1
  <2>. QED  BY <2>1, <2>2 DEF ShapeAt, Answering, Opening
<1>7. \A i \in DOMAIN s : i = 1 \/ i \in 2 .. Len(s)
  BY <1>1
<1>8. \A i \in DOMAIN s : ShapeAt(s, i)
  BY <1>5, <1>6, <1>7
<1>. QED  BY <1>1, <1>2, <1>4, <1>8 DEF Shape, Closing

LEMMA Joined ==
    ASSUME NEW d \in Program_, NEW c \in Program_
    PROVE  /\ Len(d) \in Nat /\ Len(c) \in Nat /\ Len(d \o c) = Len(d) + Len(c)
           /\ DOMAIN d = 1 .. Len(d) /\ DOMAIN c = 1 .. Len(c) /\ DOMAIN (d \o c) = 1 .. (Len(d) + Len(c))
           /\ \A i \in 1 .. Len(d) : i \in DOMAIN (d \o c) /\ (d \o c)[i] = d[i]
           /\ \A i \in 1 .. Len(c) : Len(d) + i \in DOMAIN (d \o c) /\ (d \o c)[Len(d) + i] = c[i]
<1>. DEFINE s == d \o c
<1>1. Len(d) \in Nat /\ Len(c) \in Nat /\ DOMAIN d = 1 .. Len(d) /\ DOMAIN c = 1 .. Len(c)
  BY LenProperties DEF Program_
<1>2. s \in Program_ /\ Len(s) = Len(d) + Len(c)
      /\ \A i \in 1 .. Len(s) : s[i] = IF i <= Len(d) THEN d[i] ELSE c[i - Len(d)]
  BY ConcatProperties DEF Program_
<1>3. DOMAIN s = 1 .. Len(s)
  BY <1>2, LenProperties DEF Program_
<1>. HIDE DEF s
<1>4. ASSUME NEW i \in 1 .. Len(d)
      PROVE  i \in DOMAIN s /\ s[i] = d[i]
  <2>1. i \in 1 .. Len(s) /\ i <= Len(d)
    BY <1>1, <1>2
  <2>. QED  BY <1>2, <1>3, <2>1
<1>5. ASSUME NEW i \in 1 .. Len(c)
      PROVE  Len(d) + i \in DOMAIN s /\ s[Len(d) + i] = c[i]
  <2>1. Len(d) + i \in 1 .. Len(s) /\ ~(Len(d) + i <= Len(d)) /\ (Len(d) + i) - Len(d) = i
    BY <1>1, <1>2
  <2>. QED  BY <1>2, <1>3, <2>1
<1>. QED  BY <1>1, <1>2, <1>3, <1>4, <1>5 DEF s

LEMMA RemovalShape ==
    ASSUME ~Nested(unit), NEW d \in Program_, d # <<>>, NEW last \in {"delete", "drop"},
           \A i \in DOMAIN d : d[i] = IF i = Len(d) THEN last ELSE "get",
           NEW c \in Program_, c # <<>>, Shape(c), c[1] = "post"
    PROVE  /\ Shape(d \o c) /\ d \o c # <<>> /\ ~Taking(d \o c)
           /\ (d \o c)[1] \in {"get", "delete", "drop"}
           /\ (d \o c)[Len(d \o c)] = c[Len(c)]
<1>. DEFINE s == d \o c
<1>1. /\ Len(d) \in Nat \ {0} /\ Len(c) \in Nat \ {0} /\ Len(s) = Len(d) + Len(c)
      /\ DOMAIN d = 1 .. Len(d) /\ DOMAIN c = 1 .. Len(c) /\ DOMAIN s = 1 .. Len(s)
  BY Joined, EmptySeq DEF Program_
<1>0. /\ \A i \in 1 .. Len(d) : i \in DOMAIN s /\ s[i] = d[i]
      /\ \A i \in 1 .. Len(c) : Len(d) + i \in DOMAIN s /\ s[Len(d) + i] = c[i]
  BY Joined
<1>. HIDE DEF s
<1>2. ASSUME NEW i \in 1 .. Len(c)
      PROVE  Len(d) + i \in 1 .. Len(s) /\ s[Len(d) + i] = c[i] /\ (Len(d) + i = Len(s) <=> i = Len(c))
  <2>1. Len(d) + i \in 1 .. Len(s)
    BY <1>1
  <2>2. i = Len(c) => Len(d) + i = Len(s)
    BY <1>1
  <2>4. Len(d) + i = Len(s) => i = Len(c)
    <3>1. i \in Nat /\ Len(d) \in Nat /\ Len(c) \in Nat /\ Len(s) = Len(d) + Len(c)
      BY <1>1
    <3>. QED  BY <3>1
  <2>3. s[Len(d) + i] = c[i]
    BY <1>0
  <2>. QED  BY <2>1, <2>2, <2>3, <2>4
<1>3. ASSUME NEW i \in 1 .. Len(d)
      PROVE  i \in 1 .. Len(s) /\ i # Len(s) /\ s[i] = d[i]
  <2>1. i \in 1 .. Len(s) /\ i # Len(s)
    BY <1>1
  <2>. QED  BY <1>0, <2>1
<1>4. s # <<>> /\ s[Len(s)] = c[Len(c)]
  <2>1. Len(c) \in 1 .. Len(c) /\ Len(s) # 0 /\ Len(d) + Len(c) = Len(s)
    BY <1>1
  <2>2. s[Len(s)] = c[Len(c)]
    BY <1>2, <2>1
  <2>3. Len(<<>>) = 0
    BY EmptySeq
  <2>. QED  BY <2>1, <2>2, <2>3
<1>5. s[1] \in {"get", "delete", "drop"}
  <2>1. 1 \in 1 .. Len(d)
    BY <1>1
  <2>. QED  BY <1>1, <1>3, <2>1
<1>6. ~Taking(s)
  <2>1. Len(d) \in 1 .. Len(d)
    BY <1>1
  <2>2. Len(d) \in DOMAIN s /\ s[Len(d)] = last
    BY <1>1, <1>3, <2>1
  <2>. QED  BY <2>2 DEF Taking, Answering
<1>7. ASSUME NEW i \in 1 .. Len(d)
      PROVE  ShapeAt(s, i)
  <2>1. s[i] \in {"get", "delete", "drop"} /\ (s[i] \in {"delete", "drop"} => i = Len(d))
    <3>1. i \in DOMAIN d /\ s[i] = d[i]
      BY <1>1, <1>3
    <3>. QED  BY <3>1
  <2>2. s[Len(d) + 1] = "post"
    <3>1. 1 \in 1 .. Len(c)
      BY <1>1
    <3>. QED  BY <1>2, <3>1
  <2>. QED  BY <2>1, <2>2 DEF ShapeAt, Opening
<1>8. ASSUME NEW k \in 1 .. Len(c)
      PROVE  ShapeAt(s, Len(d) + k)
  <2>. DEFINE i == Len(d) + k
  <2>1. s[i] = c[k] /\ (i = Len(s) <=> k = Len(c)) /\ ShapeAt(c, k) /\ i \in Nat
    <3>1. ShapeAt(c, k)
      BY <1>1, <1>8 DEF Shape
    <3>2. i \in Nat
      BY <1>1
    <3>. QED  BY <1>2, <3>1, <3>2
  <2>2. \A j \in i + 1 .. Len(s) : j - Len(d) \in k + 1 .. Len(c) /\ j - Len(d) \in 1 .. Len(c)
                                   /\ Len(d) + (j - Len(d)) = j
    BY <1>1
  <2>3. \A j \in i + 1 .. Len(s) : s[j] = c[j - Len(d)]
    BY <1>2, <2>2
  <2>4. k + 1 \in DOMAIN c => i + 1 \in DOMAIN s /\ s[i + 1] = c[k + 1]
    <3>1. Len(d) + (k + 1) = i + 1
      BY <1>1
    <3>2. k + 1 \in 1 .. Len(c) => Len(d) + (k + 1) \in 1 .. Len(s) /\ s[Len(d) + (k + 1)] = c[k + 1]
      BY <1>2
    <3>. QED  BY <1>1, <3>1, <3>2
  <2>5. k # Len(c) => k + 1 \in DOMAIN c
    <3>0. k \in Nat /\ k >= 1 /\ k <= Len(c) /\ Len(c) \in Nat
      BY <1>1
    <3>1. k # Len(c) => k + 1 \in 1 .. Len(c)
      BY <3>0
    <3>. QED  BY <1>1, <3>1
  <2>6. s[i] \notin Opening
    <3>1. k = 1 \/ k > 1
      BY <1>1
    <3>. QED  BY <2>1, <3>1 DEF ShapeAt, Opening
  <2>. HIDE DEF i
  <2>7. s[i] \in {"post", "put", "change", "attach", "record", "save"} =>
            \A j \in i + 1 .. Len(s) : s[j] \in Answering
    BY <2>1, <2>2, <2>3 DEF ShapeAt
  <2>8. ShapeAt(s, i)
    BY <2>1, <2>4, <2>5, <2>6, <2>7 DEF ShapeAt
  <2>. QED  BY <2>8 DEF i
<1>9. \A i \in DOMAIN s : i \in 1 .. Len(d) \/ (i - Len(d) \in 1 .. Len(c) /\ Len(d) + (i - Len(d)) = i)
  BY <1>1
<1>10. \A i \in DOMAIN s : ShapeAt(s, i)
  BY <1>7, <1>8, <1>9
<1>11. s[Len(s)] \in Closing
  BY <1>4 DEF Shape
<1>12. Shape(s)
  BY <1>10, <1>11 DEF Shape
<1>. QED  BY <1>4, <1>5, <1>6, <1>12 DEF s

LEMMA HandlersShape ==
    ASSUME unit \in UnitType, unit \in Units, ~Nested(unit)
    PROVE  /\ unit.creating \in Program_ /\ Shape(unit.creating) /\ unit.creating # <<>>
           /\ unit.creating[1] = "post" /\ unit.creating[Len(unit.creating)] = "save"
           /\ ~Taking(unit.creating)
           /\ unit.updating \in Program_ /\ Shape(unit.updating) /\ unit.updating # <<>>
           /\ unit.updating[1] \in {"put", "change", "keep"}
           /\ unit.updating[Len(unit.updating)] # "delete" /\ ~Taking(unit.updating)
           /\ unit.updating[1] = "keep" <=> unit.updating = <<"keep">>
           /\ unit.deleting \in Program_ /\ Shape(unit.deleting) /\ unit.deleting # <<>>
           /\ unit.deleting[1] \in {"get", "delete"} /\ ~Taking(unit.deleting)
           /\ \A i \in DOMAIN unit.deleting :
                unit.deleting[i] = IF i = Len(unit.deleting) THEN "delete" ELSE "get"
<1>1. unit.creating \in Program_ /\ unit.updating \in Program_ /\ unit.deleting \in Program_
  BY HandlersTyped
<1>2. /\ Shape(unit.creating) /\ unit.creating # <<>> /\ ~Taking(unit.creating)
      /\ unit.creating[1] \in {"post"} /\ unit.creating[Len(unit.creating)] = "save"
  <2>1. WritesFirst(unit.creating, {"post"}, "attached" \in {unit.create, unit.update})
    BY HandlersAssumption
  <2>. QED  BY <1>1, <2>1, WritesShape
<1>3. /\ Shape(unit.updating) /\ unit.updating # <<>> /\ ~Taking(unit.updating)
      /\ unit.updating[1] \in {"put", "change", "keep"}
      /\ unit.updating[Len(unit.updating)] # "delete"
      /\ unit.updating[1] = "keep" <=> unit.updating = <<"keep">>
  <2>1. CASE unit.updating = <<"keep">>
    <3>1. Shape(<<"keep">>) /\ ~Taking(<<"keep">>)
      BY DEF Shape, ShapeAt, Taking, Opening, Closing, Answering
    <3>. QED  BY <2>1, <3>1
  <2>2. CASE WritesFirst(unit.updating, {"put", "change"}, unit.update = "attached")
    <3>1. /\ Shape(unit.updating) /\ unit.updating # <<>> /\ ~Taking(unit.updating)
          /\ unit.updating[1] \in {"put", "change"} /\ unit.updating[Len(unit.updating)] = "save"
      BY <1>1, <2>2, WritesShape
    <3>2. unit.updating # <<"keep">>
      BY <3>1
    <3>. QED  BY <3>1, <3>2
  <2>. QED  BY <2>1, <2>2, HandlersAssumption
<1>4. /\ unit.deleting # <<>>
      /\ \A i \in DOMAIN unit.deleting :
            unit.deleting[i] = IF i = Len(unit.deleting) THEN "delete" ELSE "get"
  BY HandlersAssumption
<1>5. Len(unit.deleting) \in Nat \ {0} /\ DOMAIN unit.deleting = 1 .. Len(unit.deleting)
  BY <1>1, <1>4, EmptySeq, LenProperties DEF Program_
<1>6. Len(unit.deleting) \in DOMAIN unit.deleting /\ 1 \in DOMAIN unit.deleting
  BY <1>5
<1>7. Shape(unit.deleting)
  <2>1. \A i \in DOMAIN unit.deleting : ShapeAt(unit.deleting, i)
    BY <1>4 DEF ShapeAt, Opening
  <2>. QED  BY <1>4, <1>6, <2>1 DEF Shape, Closing
<1>8. ~Taking(unit.deleting)
  BY <1>4, <1>6 DEF Taking, Answering
<1>. QED  BY <1>1, <1>2, <1>3, <1>4, <1>6, <1>7, <1>8

\* The program of an operation: what it begins with, and what it leads to.
LEMMA ProgramShape ==
    ASSUME unit \in UnitType, unit \in Units, NEW known, NEW s,
           NEW op \in {"none", "create", "update", "replace", "delete"}, s = Program(op, known)
    PROVE  /\ Shape(s) /\ ~Taking(s) /\ (s = <<>> <=> op = "none")
           /\ s # <<>> /\ op # "delete" => s[Len(s)] # "delete"
           /\ s # <<>> /\ s[1] \in {"put", "change", "keep"} =>
                /\ op = "update" /\ ~Nested(unit)
                /\ ~Recreates(unit, Wanted(known), known.value)
                /\ s[1] = "keep" <=> unit.updating = <<"keep">>
           /\ s # <<>> => (s[1] = "reconcile" <=> Nested(unit))
<1>1. CASE op = "none"
  <2>1. s = <<>>
    BY <1>1 DEF Program
  <2>. QED  BY <1>1, <2>1, EmptyShape
<1>2. CASE op # "none" /\ Nested(unit)
  <2>1. s = <<"reconcile">>
    BY <1>2 DEF Program
  <2>2. Shape(<<"reconcile">>) /\ ~Taking(<<"reconcile">>)
    BY <1>2 DEF Shape, ShapeAt, Taking, Opening, Closing, Answering
  <2>. QED  BY <1>2, <2>1, <2>2
<1>3. CASE op = "create" /\ ~Nested(unit)
  <2>1. s = unit.creating
    BY <1>3 DEF Program
  <2>. QED  BY <1>3, <2>1, HandlersShape
<1>4. CASE op = "update" /\ ~Nested(unit)
  <2>1. CASE Recreates(unit, Wanted(known), known.value)
    <3>1. s = <<"drop">> \o unit.creating
      BY <1>4, <2>1 DEF Program
    <3>2. <<"drop">> \in Program_ /\ <<"drop">> # <<>>
          /\ \A i \in DOMAIN <<"drop">> : <<"drop">>[i] = IF i = Len(<<"drop">>) THEN "drop" ELSE "get"
      BY DEF Program_, Steps
    <3>. DEFINE d == <<"drop">>
    <3>4. s = d \o unit.creating /\ d \in Program_ /\ d # <<>>
          /\ \A i \in DOMAIN d : d[i] = IF i = Len(d) THEN "drop" ELSE "get"
      BY <3>1, <3>2
    <3>. HIDE DEF d
    <3>3. /\ Shape(s) /\ s # <<>> /\ ~Taking(s) /\ s[1] \in {"get", "delete", "drop"}
          /\ s[Len(s)] = unit.creating[Len(unit.creating)]
      <4>. DEFINE last == "drop"
      <4>1. last \in {"delete", "drop"} /\ \A i \in DOMAIN d : d[i] = IF i = Len(d) THEN last ELSE "get"
        BY <3>4
      <4>2. /\ unit.creating \in Program_ /\ unit.creating # <<>> /\ Shape(unit.creating)
            /\ unit.creating[1] = "post" /\ ~Nested(unit)
        BY <1>4, HandlersShape
      <4>. HIDE DEF last
      <4>. QED  BY <3>4, <4>1, <4>2, RemovalShape
    <3>. QED  BY <1>4, <3>3, HandlersShape
  <2>2. CASE ~Recreates(unit, Wanted(known), known.value)
    <3>1. s = unit.updating
      BY <1>4, <2>2 DEF Program
    <3>. QED  BY <1>4, <2>2, <3>1, HandlersShape
  <2>. QED  BY <2>1, <2>2
<1>5. CASE op = "delete" /\ ~Nested(unit)
  <2>1. s = unit.deleting
    BY <1>5 DEF Program
  <2>. QED  BY <1>5, <2>1, HandlersShape
<1>6. CASE op = "replace" /\ ~Nested(unit)
  <2>1. s = unit.deleting \o unit.creating
    BY <1>6 DEF Program
  <2>2. /\ Shape(s) /\ s # <<>> /\ ~Taking(s) /\ s[1] \in {"get", "delete", "drop"}
        /\ s[Len(s)] = unit.creating[Len(unit.creating)]
    BY <1>6, <2>1, HandlersShape, RemovalShape
  <2>. QED  BY <1>6, <2>2, HandlersShape
<1>. QED  BY <1>1, <1>2, <1>3, <1>4, <1>5, <1>6

---------------------------------------------------------------------------
(* What is planned, and what a refresh finds.                              *)

LEMMA UnknownIsNoValue == Unknown \notin Value /\ Null \in Value
BY DEF Unknown, Value, Zero, Default, Unset, Null, Other

\* A plan that is not what is known does not depend on it.
LEMMA PlanOf ==
    ASSUME NEW u \in UnitType, NEW c \in Configurable(u.schema), NEW known \in Value,
           Planned(u.schema, c, known) # known
    PROVE  /\ Planned(u.schema, c, known) = Plan(u, c)
           /\ Plan(u, c) \in Value /\ Plan(u, c) \notin {known, Unknown}
<1>1. u.schema \in Schemas /\ c \in Value /\ DefaultOf(u.schema) \in Value
  BY UnitTyped, ConfigurableTyped, DefaultTyped
<1>2. Planned(u.schema, c, known) = Plan(u, c) /\ Plan(u, c) \in Value
  BY <1>1 DEF Planned, Plan
<1>. QED  BY <1>2, UnknownIsNoValue

LEMMA Basics ==
    ASSUME VInv
    PROVE  /\ IInv /\ InPlan /\ TypeOK /\ unit \in UnitType /\ unit \in Units /\ todo \in Program_
           /\ remote \in Objects(unit) \cup {None} /\ remote \in Value \cup {None}
           /\ running \in BOOLEAN /\ disturbed \in BOOLEAN
           /\ Shape(todo)
           /\ ~running => todo = <<>>
           /\ remote # None => remote \in Objects(unit) /\ remote \in Value
BY DEF VInv, InPlan, ObjectsAreKnown, IInv, InHand, PlanIsAsked, TypeOK, Program_

\* What is known is a value of the object that is there.
LEMMA RefreshFinds ==
    ASSUME VInv, Refreshed # None
    PROVE  /\ remote # None /\ Refreshed.value \in Value /\ Found(unit, remote, Refreshed.value)
           /\ Refreshed.value = Read(unit, remote, IF state = None THEN Unknown ELSE state.value)
           /\ Nested(unit) => ~Refreshed.tainted
           /\ state = None => Nested(unit)
           /\ state # None /\ ~state.tainted => ~Refreshed.tainted
<1>. DEFINE known == IF state = None THEN Unknown ELSE state.value
<1>1. remote # None /\ remote \in Objects(unit) /\ remote \in Value
  BY Basics DEF Refreshed
<1>2. known \in Value \cup {Unknown} /\ (state # None => state \in State)
  BY StateTyped, Basics
<1>3. Nested(unit) \/ state # None
  BY DEF Refreshed
<1>4. CASE Nested(unit)
  <2>1. Refreshed = [value |-> Read(unit, remote, known), tainted |-> FALSE]
    BY <1>1, <1>4 DEF Refreshed
  <2>. HIDE DEF known
  <2>2. Read(unit, remote, known) \in Value
    BY <1>1, <1>2, Basics, ReadTyped
  <2>3. Found(unit, remote, Read(unit, remote, known))
    BY <1>1, <1>2 DEF Found
  <2>. QED  BY <1>1, <1>4, <2>1, <2>2, <2>3 DEF known
<1>5. CASE ~Nested(unit)
  <2>1. Refreshed = [state EXCEPT !.value = Read(unit, remote, state.value)] /\ state \in State
        /\ known = state.value
    BY <1>1, <1>2, <1>3, <1>5 DEF Refreshed
  <2>2. Refreshed.value = Read(unit, remote, known) /\ Refreshed.tainted = state.tainted
    BY <2>1 DEF State
  <2>. HIDE DEF known
  <2>3. Read(unit, remote, known) \in Value
    BY <1>1, <1>2, Basics, ReadTyped
  <2>4. Found(unit, remote, Read(unit, remote, known))
    BY <1>1, <1>2 DEF Found
  <2>. QED  BY <1>1, <1>3, <1>5, <2>2, <2>3, <2>4 DEF known
<1>. QED  BY <1>4, <1>5

\* A block that is there is found.
LEMMA RefreshMisses ==
    ASSUME VInv, Refreshed = None, Nested(unit)
    PROVE  remote = None
<1>. DEFINE known == IF state = None THEN Unknown ELSE state.value
<1>1. remote # None => Refreshed = [value |-> Read(unit, remote, known), tainted |-> FALSE]
  BY DEF Refreshed
<1>2. known \in Value \cup {Unknown}
  BY StateTyped, Basics
<1>. HIDE DEF known
<1>3. remote # None => [value |-> Read(unit, remote, known), tainted |-> FALSE] # None
  BY <1>2, StoredTyped, Basics
<1>. QED  BY <1>1, <1>3

\* What the handlers are asked for is what they can be asked for.
LEMMA WishIsHeard ==
    ASSUME VInv, config # None, ~Refused
    PROVE  config \in Wishes(unit)
<1>1. config \in Configurable(unit.schema) /\ (Nested(unit) /\ Mute(unit) => config = Null)
  BY DEF VInv, InPlan, ObjectsAreKnown
<1>2. Mute(unit) => config = Null
  BY <1>1 DEF Mute, Refused, Nested
<1>. QED  BY <1>1, <1>2 DEF Wishes

\* An operation and what is known and planned then.
LEMMA OperationPlans ==
    ASSUME VInv, config # None
    PROVE  /\ Operation(Refreshed) \in {"none", "create", "update", "replace"}
           /\ Operation(Refreshed) = "create" <=> Refreshed = None
           /\ Refreshed # None /\ (Operation(Refreshed) = "update" \/ Nested(unit))
              /\ Operation(Refreshed) # "none" =>
                /\ Due(unit, config, remote, Refreshed.value)
                /\ Wanted(Refreshed) = Plan(unit, config)
           /\ Operation(Refreshed) = "update" =>
                ~Replaces(unit, Wanted(Refreshed), Refreshed.value)
           /\ Operation(Refreshed) = "none" =>
                Wanted(Refreshed) = Refreshed.value /\ ~Refreshed.tainted
           /\ Wanted(None) = Plan(unit, config)
<1>1. config \in Configurable(unit.schema) /\ unit \in UnitType
  BY Basics DEF VInv, InPlan, ObjectsAreKnown
<1>2. Wanted(None) = Plan(unit, config)
  BY DEF Wanted, Plan
<1>3. CASE Refreshed = None
  BY <1>2, <1>3 DEF Operation
<1>4. CASE Refreshed # None
  <2>. DEFINE k == Refreshed.value
  <2>1. k \in Value /\ Found(unit, remote, k) /\ (Nested(unit) => ~Refreshed.tainted)
    BY <1>4, RefreshFinds
  <2>2. Wanted(Refreshed) = Planned(unit.schema, config, k)
    BY <1>4 DEF Wanted
  <2>3. Operation(Refreshed) = IF Refreshed.tainted \/ Replaces(unit, Wanted(Refreshed), k) THEN "replace"
                               ELSE IF Wanted(Refreshed) # k THEN "update" ELSE "none"
    BY <1>4 DEF Operation
  <2>4. Replaces(unit, Wanted(Refreshed), k) => Wanted(Refreshed) # k
    BY DEF Replaces
  <2>. HIDE DEF k
  <2>5. Wanted(Refreshed) # k => Wanted(Refreshed) = Plan(unit, config) /\ Due(unit, config, remote, k)
    BY <1>1, <2>1, <2>2, PlanOf DEF Due
  <2>6. (Operation(Refreshed) = "update" \/ Nested(unit)) /\ Operation(Refreshed) # "none" =>
            Wanted(Refreshed) # k
    BY <2>1, <2>3, <2>4
  <2>7. Operation(Refreshed) = "none" => Wanted(Refreshed) = k /\ ~Refreshed.tainted
    BY <2>3
  <2>8. Operation(Refreshed) = "update" => ~Replaces(unit, Wanted(Refreshed), k)
    BY <2>3
  <2>9. Operation(Refreshed) \in {"none", "update", "replace"}
    BY <2>3
  <2>. QED  BY <1>2, <1>4, <2>5, <2>6, <2>7, <2>8, <2>9 DEF k
<1>. QED  BY <1>3, <1>4

\* A refresh leaves what Read keeps as it was.
LEMMA RefreshKeeps ==
    ASSUME VInv, ~running, Refreshed # None, Untold(unit), ~unheard
    PROVE  Meets(unit, remote, Refreshed.value)
<1>1. /\ remote # None /\ remote \in Objects(unit)
      /\ Refreshed.value = Read(unit, remote, IF state = None THEN Unknown ELSE state.value)
  BY RefreshFinds, Basics
<1>2. /\ Meets(unit, remote, Read(unit, remote, Unknown))
      /\ \A v \in Value : Meets(unit, remote, v) => Meets(unit, remote, Read(unit, remote, v))
  BY <1>1, Basics, RefreshesAssumption
<1>3. ~Taking(todo)
  BY Basics, EmptyShape
<1>4. state # None => state.value \in Value \cup {Unknown} /\ Meets(unit, remote, state.value)
  BY <1>1, <1>3, StateTyped, Basics DEF VInv, InPlan, KeptIsMet
<1>. QED  BY <1>1, <1>2, <1>4

\* When a refresh finds nothing to do, nothing is.
LEMMA NothingToDo ==
    ASSUME VInv, ~running, Operation(Refreshed) = "none"
    PROVE  IF config = None
           THEN Refreshed = None /\ (remote # None => ~Nested(unit) /\ (unheard \/ unit \in Lossy))
           ELSE /\ remote # None /\ Refreshed # None /\ ~Refreshed.tainted
                /\ Settled(unit, config, remote, Refreshed.value)
<1>1. CASE config = None
  <2>1. Refreshed = None
    BY <1>1 DEF Operation
  <2>2. remote # None => ~Nested(unit) /\ ~Heard
    BY <2>1, RefreshMisses, RefreshedTyped, Basics
  <2>3. ~Heard => unheard \/ unit \in Lossy
    BY Zenon DEF Heard
  <2>. QED  BY <1>1, <2>1, <2>2, <2>3
<1>2. CASE config # None
  <2>1. Refreshed # None /\ Wanted(Refreshed) = Refreshed.value /\ ~Refreshed.tainted
    BY <1>2, OperationPlans
  <2>2. remote # None /\ Refreshed.value \in Value /\ Found(unit, remote, Refreshed.value)
    BY <2>1, RefreshFinds
  <2>6. config \in Configurable(unit.schema)
    BY <1>2 DEF VInv, InPlan, ObjectsAreKnown
  <2>3. config \in Configurable(unit.schema) /\ remote \in Objects(unit) /\ unit \in Units
    BY <2>2, <2>6, Basics
  <2>4. Planned(unit.schema, config, Refreshed.value) = Refreshed.value
    BY <2>1 DEF Wanted
  <2>5. Settled(unit, config, remote, Refreshed.value)
    BY <2>2, <2>3, <2>4, RefreshesAssumption
  <2>. QED  BY <1>2, <2>1, <2>2, <2>5
<1>. QED  BY <1>1, <1>2

LEMMA BeginPlan ==
    ASSUME VInv, Begin
    PROVE  InPlan'
<1>. DEFINE op == Operation(Refreshed)
            refused == Refused /\ op \in {"create", "update", "replace"}
<1>1. /\ ~running /\ running' /\ state' = Refreshed
      /\ ~refused => todo' = Program(op, Refreshed)
      /\ refused => todo' = IF op = "replace" THEN unit.deleting ELSE <<>>
      /\ planned' = IF config = None THEN None
                    ELSE Wanted(IF op = "replace" THEN None ELSE Refreshed)
      /\ verdict' = (IF refused THEN "failed" ELSE "ok")
      /\ applied' = FALSE /\ disturbed' = FALSE
      /\ UNCHANGED <<unit, config, remote, unheard>>
  BY DEF Begin
<1>2. op \in {"none", "create", "update", "replace", "delete"} /\ (config = None => op \in {"none", "delete"})
  BY OperationTyped
<1>3. config # None =>
        /\ op \in {"none", "create", "update", "replace"}
        /\ op = "create" <=> Refreshed = None
        /\ Refreshed # None /\ (op = "update" \/ Nested(unit)) /\ op # "none" =>
            Due(unit, config, remote, Refreshed.value) /\ Wanted(Refreshed) = Plan(unit, config)
        /\ op = "update" => ~Replaces(unit, Wanted(Refreshed), Refreshed.value)
        /\ Wanted(None) = Plan(unit, config)
  BY OperationPlans
<1>4. op = "none" =>
        IF config = None
        THEN Refreshed = None /\ (remote # None => ~Nested(unit) /\ (unheard \/ unit \in Lossy))
        ELSE /\ remote # None /\ Refreshed # None /\ ~Refreshed.tainted
             /\ Settled(unit, config, remote, Refreshed.value)
  BY <1>1, NothingToDo
<1>5. Refused => ~Nested(unit)
  BY DEF Refused, Nested
<1>. HIDE DEF op
<1>6. ~refused =>
        /\ Shape(todo') /\ ~Taking(todo') /\ (todo' = <<>> <=> op = "none")
        /\ todo' # <<>> /\ op # "delete" => todo'[Len(todo')] # "delete"
        /\ todo' # <<>> /\ todo'[1] \in {"put", "change", "keep"} =>
             /\ op = "update" /\ ~Nested(unit)
             /\ ~Recreates(unit, Wanted(Refreshed), Refreshed.value)
             /\ todo'[1] = "keep" <=> unit.updating = <<"keep">>
        /\ todo' # <<>> => (todo'[1] = "reconcile" <=> Nested(unit))
  BY <1>1, <1>2, Basics, ProgramShape
<1>7. refused => /\ Shape(todo') /\ ~Taking(todo') /\ ~Nested(unit)
                 /\ \A i \in DOMAIN todo' : todo'[i] \in {"get", "delete"}
                 /\ todo' # <<>> => todo'[1] \in {"get", "delete"}
  <2>. SUFFICES ASSUME refused
                PROVE  /\ Shape(todo') /\ ~Taking(todo') /\ ~Nested(unit)
                       /\ \A i \in DOMAIN todo' : todo'[i] \in {"get", "delete"}
                       /\ todo' # <<>> => todo'[1] \in {"get", "delete"}
    OBVIOUS
  <2>1. CASE op = "replace"
    <3>1. todo' = unit.deleting
      BY <1>1, <2>1
    <3>2. /\ Shape(unit.deleting) /\ ~Taking(unit.deleting)
          /\ \A i \in DOMAIN unit.deleting :
                unit.deleting[i] = IF i = Len(unit.deleting) THEN "delete" ELSE "get"
          /\ unit.deleting[1] \in {"get", "delete"}
      BY <1>5, Basics, HandlersShape
    <3>. QED  BY <1>5, <3>1, <3>2
  <2>2. CASE op # "replace"
    <3>1. todo' = <<>> /\ DOMAIN <<>> = {}
      BY <1>1, <2>2
    <3>. QED  BY <1>5, <3>1, EmptyShape
  <2>. QED  BY <2>1, <2>2
<1>8. ~refused /\ config # None /\ todo' # <<>> =>
        config \in Wishes(unit) /\ op \in {"create", "update", "replace"}
  BY <1>3, <1>6, WishIsHeard
<1>. HIDE DEF refused
<1>9. ~refused /\ config # None /\ todo' # <<>> => planned' = Plan(unit, config)
  <2>. SUFFICES ASSUME ~refused, config # None, todo' # <<>>
                PROVE  planned' = Plan(unit, config)
    OBVIOUS
  <2>1. op \in {"create", "update", "replace"}
    BY <1>8
  <2>2. CASE op \in {"create", "replace"}
    <3>1. (IF op = "replace" THEN None ELSE Refreshed) = None
      BY <1>3, <2>2
    <3>. QED  BY <1>1, <1>3, <3>1
  <2>3. CASE op = "update"
    <3>1. (IF op = "replace" THEN None ELSE Refreshed) = Refreshed /\ Refreshed # None
      BY <1>3, <2>3
    <3>. QED  BY <1>1, <1>3, <2>3, <3>1
  <2>. QED  BY <2>1, <2>2, <2>3
<1>10. Shape(todo)'
  BY <1>1, <1>6, <1>7 DEF Shape, ShapeAt
<1>11. ObjectsAreKnown'
  BY <1>1 DEF VInv, InPlan, ObjectsAreKnown
<1>12. PlanIsMade'
  <2>1. \/ verdict' = "failed" /\ \A i \in DOMAIN todo' : todo'[i] \in {"get", "delete"}
        \/ ~refused /\ verdict' # "failed"
    BY <1>1, <1>7
  <2>. QED  BY <1>1, <1>6, <1>8, <1>9, <2>1 DEF PlanIsMade, Wish
<1>13. Refreshed # None => remote # None /\ Refreshed.value \in Value
  BY RefreshFinds
<1>14. UpdateIsDue'
  <2>. SUFFICES ASSUME todo' # <<>>, todo'[1] \in {"put", "change", "keep"}
                PROVE  /\ state' # None /\ IsDue'
                       /\ ~Replaces(unit', planned', state'.value) /\ ~Recreates(unit', planned', state'.value)
                       /\ todo'[1] = "keep" <=> unit'.updating = <<"keep">>
    BY DEF UpdateIsDue
  <2>1. ~refused
    BY <1>7
  <2>2. op = "update" /\ config # None /\ Refreshed # None
    BY <1>2, <1>3, <1>6, <2>1
  <2>3. planned' = Plan(unit, config) /\ planned' = Wanted(Refreshed)
        /\ Due(unit, config, remote, Refreshed.value)
    BY <1>3, <1>9, <2>1, <2>2
  <2>4. planned' \notin {Refreshed.value, Unknown}
    BY <2>3 DEF Due
  <2>5. IsDue'
    BY <1>1, <1>13, <2>2, <2>3, <2>4 DEF IsDue
  <2>6. ~Replaces(unit, planned', Refreshed.value) /\ ~Recreates(unit, planned', Refreshed.value)
        /\ (todo'[1] = "keep" <=> unit.updating = <<"keep">>)
    BY <1>3, <1>6, <2>1, <2>2, <2>3
  <2>. QED  BY <1>1, <2>2, <2>5, <2>6
<1>15. BlockIsDue'
  <2>. SUFFICES ASSUME todo' # <<>>, todo'[1] = "reconcile", config # None
                PROVE  IF state' = None THEN remote' = None ELSE IsDue'
    BY <1>1 DEF BlockIsDue
  <2>1. ~refused
    BY <1>7
  <2>2. Nested(unit) /\ op # "none" /\ planned' = Plan(unit, config)
    BY <1>6, <1>9, <2>1
  <2>3. CASE Refreshed = None
    <3>4. remote = None
      BY <2>2, <2>3, RefreshMisses
    <3>. QED  BY <1>1, <2>3, <3>4
  <2>4. CASE Refreshed # None
    <3>1. Due(unit, config, remote, Refreshed.value)
      BY <1>3, <2>2, <2>4
    <3>2. planned' \notin {Refreshed.value, Unknown}
      BY <2>2, <3>1 DEF Due
    <3>3. IsDue'
      BY <1>1, <1>13, <2>4, <3>1, <3>2 DEF IsDue
    <3>. QED  BY <1>1, <2>4, <3>3
  <2>. QED  BY <2>3, <2>4
<1>16. AnswerStores'
  BY <1>6, <1>7 DEF AnswerStores, Taking
<1>17. KeptIsMet'
  BY <1>1, RefreshKeeps DEF KeptIsMet
<1>18. Consistent'
  BY <1>1 DEF Consistent
<1>19. WellDone'
  <2>. SUFFICES ASSUME todo' = <<>>, verdict' = "ok"
                PROVE  Done'
    BY <1>1 DEF WellDone
  <2>1. op = "none"
    BY <1>1, <1>6
  <2>. QED  BY <1>1, <1>4, <2>1 DEF Done
<1>. QED  BY <1>10, <1>11, <1>12, <1>14, <1>15, <1>16, <1>17, <1>18, <1>19 DEF InPlan

---------------------------------------------------------------------------
(* The steps.                                                              *)

\* What is about to be done when a step has its turn.
LEMMA InTurn ==
    ASSUME VInv, running, todo # <<>>
    PROVE  /\ Head(todo) = todo[1] /\ 1 \in DOMAIN todo /\ ShapeAt(todo, 1)
           /\ todo[1] \notin {"get", "delete", "reconcile"} => config # None /\ ~Nested(unit)
           /\ todo[1] = "reconcile" => Nested(unit)
           /\ config # None /\ todo[1] \notin {"get", "delete"} => verdict # "failed" /\ Wish
           /\ Tail(todo) = <<>> => todo[1] \in Closing /\ Len(todo) = 1
           /\ todo[1] \in {"keep", "reconcile"} => Tail(todo) = <<>>
<1>1. /\ Len(todo) \in Nat \ {0} /\ DOMAIN todo = 1 .. Len(todo) /\ Head(todo) = todo[1]
      /\ Len(Tail(todo)) = Len(todo) - 1 /\ Tail(todo) \in Program_
  <2>1. todo \in Seq(Steps \cup {"reconcile"})
    BY Basics DEF Program_
  <2>. QED  BY <2>1, TailAt DEF Program_
<1>2. 1 \in DOMAIN todo
  BY <1>1
<1>3. ShapeAt(todo, 1)
  BY <1>2, Basics DEF Shape
<1>4. todo[1] \notin {"get", "delete", "reconcile"} => config # None
  BY NextStep, Basics DEF IInv, InHand, PlanIsAsked
<1>5. config # None /\ todo[1] \notin {"get", "delete"} => verdict # "failed" /\ Wish
  BY <1>2 DEF VInv, InPlan, PlanIsMade
<1>6. Tail(todo) = <<>> <=> Len(todo) = 1
  <2>1. Tail(todo) = <<>> <=> Len(Tail(todo)) = 0
    BY <1>1, EmptySeq DEF Program_
  <2>. QED  BY <1>1, <2>1
<1>7. Tail(todo) = <<>> => todo[1] \in Closing
  BY TailShape, Basics
<1>. QED  BY <1>1, <1>2, <1>3, <1>4, <1>5, <1>6, <1>7 DEF ShapeAt

\* What Read keeps is met as long as neither it nor the object is changed.
LEMMA KeptStays ==
    ASSUME VInv, UNCHANGED unit, ~unheard' => ~unheard, remote' \in {remote, None},
           state' = None \/ (state # None /\ state'.value = state.value),
           Taking(todo) => Taking(todo')
    PROVE  KeptIsMet'
BY DEF VInv, InPlan, KeptIsMet

\* A step that ends the program.
LEMMA EndsPlan ==
    ASSUME VInv, UNCHANGED standing, running, todo' = <<>>, remote' \in Objects(unit) \cup {None},
           KeptIsMet', Consistent', verdict' = "ok" /\ ~disturbed => Done'
    PROVE  InPlan'
<1>1. UNCHANGED <<unit, config, running, planned, applied, disturbed>>
  BY DEF standing
<1>2. Shape(todo)' /\ ~Taking(todo')
  <2>1. DOMAIN <<>> = {}
    OBVIOUS
  <2>. QED  BY <2>1 DEF Shape, Taking
<1>3. ObjectsAreKnown'
  BY <1>1 DEF VInv, InPlan, ObjectsAreKnown
<1>4. PlanIsMade' /\ UpdateIsDue' /\ BlockIsDue'
  BY DEF PlanIsMade, UpdateIsDue, BlockIsDue
<1>5. AnswerStores'
  BY <1>2 DEF AnswerStores
<1>6. ~applied
  BY DEF VInv, InPlan, WellDone
<1>7. WellDone'
  BY <1>1, <1>6 DEF WellDone
<1>. QED  BY <1>2, <1>3, <1>4, <1>5, <1>7 DEF InPlan

\* A step that goes on to the next.
LEMMA GoesPlan ==
    ASSUME VInv, UNCHANGED standing, running, todo # <<>>, todo' = Tail(todo),
           verdict' = verdict \/ {verdict, verdict'} \subseteq {"ok", "inconsistent"},
           remote' \in Objects(unit) \cup {None}, AnswerStores', KeptIsMet', Consistent',
           Tail(todo) = <<>> /\ verdict' = "ok" /\ ~disturbed => Done'
    PROVE  InPlan'
<1>1. UNCHANGED <<unit, config, running, planned, applied, disturbed>>
  BY DEF standing
<1>2. /\ Shape(Tail(todo))
      /\ Tail(todo) # <<>> => Tail(todo)[1] \notin Opening /\ Tail(todo)[Len(Tail(todo))] = todo[Len(todo)]
      /\ \A i \in DOMAIN Tail(todo) : i + 1 \in DOMAIN todo /\ Tail(todo)[i] = todo[i + 1]
  BY TailShape, Basics
<1>3. Shape(todo)'
  BY <1>1, <1>2 DEF Shape, ShapeAt
<1>4. ObjectsAreKnown'
  BY <1>1 DEF VInv, InPlan, ObjectsAreKnown
<1>5. PlanIsMade'
  <2>. SUFFICES ASSUME todo' # <<>>, config # None
                PROVE  \/ verdict' = "failed" /\ \A i \in DOMAIN todo' : todo'[i] \in {"get", "delete"}
                       \/ verdict' # "failed" /\ Wish' /\ todo'[Len(todo')] # "delete"
    BY <1>1 DEF PlanIsMade
  <2>1. Wish' <=> Wish
    BY <1>1 DEF Wish
  <2>2. CASE verdict = "failed" /\ \A i \in DOMAIN todo : todo[i] \in {"get", "delete"}
    BY <1>2, <2>2
  <2>3. CASE verdict # "failed" /\ Wish /\ todo[Len(todo)] # "delete"
    <3>1. verdict' # "failed"
      BY <2>3
    <3>. QED  BY <1>2, <2>1, <2>3, <3>1
  <2>. QED  BY <2>2, <2>3 DEF VInv, InPlan, PlanIsMade
<1>6. UpdateIsDue' /\ BlockIsDue'
  BY <1>2 DEF UpdateIsDue, BlockIsDue, Opening
<1>7. ~applied
  BY DEF VInv, InPlan, WellDone
<1>8. WellDone'
  BY <1>1, <1>7 DEF WellDone
<1>. QED  BY <1>3, <1>4, <1>5, <1>6, <1>8 DEF InPlan

\* An error changes no value of the state.
LEMMA StopsValue ==
    ASSUME VInv, Stops
    PROVE  /\ todo' = <<>> /\ verdict' = "failed"
           /\ state' = None \/ (state # None /\ state'.value = state.value)
<1>1. todo' = <<>> /\ verdict' = "failed"
  BY DEF Stops
<1>2. CASE creating /\ state # None
  <2>1. state \in State /\ state' = [state EXCEPT !.tainted = TRUE]
    BY <1>2, StateTyped, Basics DEF Stops
  <2>2. state'.value = state.value
    BY <2>1 DEF State
  <2>. QED  BY <1>1, <1>2, <2>2
<1>3. CASE ~(creating /\ state # None)
  BY <1>1, <1>3 DEF Stops
<1>. QED  BY <1>2, <1>3

\* What is attached already is attached.
LEMMA AttachedOnce ==
    ASSUME NEW u, NEW p, NEW r
    PROVE  /\ Attachment(u, p, Attachment(u, p, r)) = Attachment(u, p, r)
           /\ "attached" \notin {u.create, u.update} => Attachment(u, p, r) = r
BY DEF Attachment

\* The object whose answer is taken.
LEMMA AnswerInHand ==
    ASSUME VInv, running, Taking(todo)
    PROVE  /\ todo # <<>> /\ todo[1] \in Answering /\ ~Nested(unit)
           /\ remote \in {answer, None} /\ answer # None /\ (remote = None => disturbed)
           /\ config # None /\ verdict # "failed"
           /\ Stores(unit, config, Attachment(unit, planned, answer))
           /\ todo[1] # "attach" => Attachment(unit, planned, answer) = answer
           /\ Wish \/ todo[1] = "get"
<1>1. todo # <<>> /\ todo[1] \in Answering
  BY Basics, TailTakes DEF Taking
<1>2. todo[1] # "reconcile" /\ (todo[1] \in {"get", "delete"} => todo[1] = "get")
  BY <1>1 DEF Answering
<1>3. ~Nested(unit)
  BY <1>1, <1>2, InTurn DEF ShapeAt
<1>. QED  BY <1>1, <1>2, <1>3, InTurn DEF VInv, InPlan, AnswerStores

\* Calls that fail, or whose answer is lost.
LEMMA FailuresPlan ==
    ASSUME VInv, CallFails \/ PostConflicts \/ NotFound \/ Gone \/ DeleteUnheard
    PROVE  InPlan'
<1>1. CASE CallFails
  <2>1. /\ UNCHANGED standing /\ UNCHANGED remote /\ Stops
        /\ unheard' = (unheard \/ (At("get") /\ Untold(unit)))
    BY <1>1 DEF CallFails
  <2>2. PICK step \in {"post", "get", "put", "change", "delete", "drop", "reconcile"} : At(step)
    BY <1>1 DEF CallFails
  <2>3. running /\ todo # <<>> /\ todo[1] = step
    BY <2>2, Turn, Basics
  <2>4. CASE Taking(todo)
    <3>1. At("get")
      BY <2>2, <2>3, <2>4, AnswerInHand DEF Answering
    <3>2. Untold(unit) => unheard'
      BY <2>1, <3>1
    <3>3. KeptIsMet'
      BY <2>1, <3>2 DEF KeptIsMet, standing
    <3>. QED  BY <2>1, <2>3, <3>3, StopsValue, EndsPlan, Basics DEF Consistent
  <2>5. CASE ~Taking(todo)
    <3>1. ~unheard' => ~unheard
      BY <2>1
    <3>2. KeptIsMet'
      BY <2>1, <2>5, <3>1, StopsValue, KeptStays DEF standing
    <3>. QED  BY <2>1, <2>3, <3>2, StopsValue, EndsPlan, Basics DEF Consistent
  <2>. QED  BY <2>4, <2>5
<1>2. CASE PostConflicts
  <2>1. /\ UNCHANGED standing /\ UNCHANGED <<remote, unheard>> /\ Stops
        /\ running /\ todo # <<>> /\ todo[1] = "post"
    BY <1>2, Turn, Basics DEF PostConflicts
  <2>2. ~Taking(todo)
    BY <2>1, AnswerInHand DEF Answering
  <2>3. KeptIsMet'
    BY <2>1, <2>2, StopsValue, KeptStays DEF standing
  <2>. QED  BY <2>1, <2>3, StopsValue, EndsPlan, Basics DEF Consistent
<1>3. CASE NotFound
  <2>1. /\ UNCHANGED standing /\ remote' = None /\ Stops /\ running
    BY <1>3 DEF NotFound, At
  <2>2. KeptIsMet'
    BY <2>1 DEF KeptIsMet
  <2>. QED  BY <2>1, <2>2, StopsValue, EndsPlan DEF Consistent
<1>4. CASE Gone
  <2>1. /\ UNCHANGED standing /\ remote' = None /\ todo' = <<>> /\ verdict' = "failed" /\ running
    BY <1>4 DEF Gone, At
  <2>2. KeptIsMet'
    BY <2>1 DEF KeptIsMet
  <2>. QED  BY <2>1, <2>2, EndsPlan DEF Consistent
<1>5. CASE DeleteUnheard
  <2>1. /\ UNCHANGED standing /\ remote' = None /\ Stops /\ running
    BY <1>5 DEF DeleteUnheard, At
  <2>2. KeptIsMet'
    BY <2>1 DEF KeptIsMet
  <2>. QED  BY <2>1, <2>2, StopsValue, EndsPlan DEF Consistent
<1>. QED  BY <1>1, <1>2, <1>3, <1>4, <1>5

\* Writes that are carried out and not answered.
LEMMA UnheardPlan ==
    ASSUME VInv, PostUnheard \/ PutUnheard
    PROVE  InPlan'
<1>1. CASE PostUnheard
  <2>1. /\ UNCHANGED standing /\ Stops /\ unheard' = TRUE
        /\ running /\ todo # <<>> /\ todo[1] = "post"
    BY <1>1, Turn, Basics DEF PostUnheard
  <2>2. PICK r \in CreateValue(unit, planned) : remote' = r
    BY <1>1 DEF PostUnheard
  <2>3. Wish
    BY <2>1, InTurn
  <2>4. r \in Objects(unit)
    BY <2>3 DEF Objects, Wish
  <2>5. KeptIsMet'
    BY <2>1 DEF KeptIsMet
  <2>. QED  BY <2>1, <2>2, <2>4, <2>5, StopsValue, EndsPlan DEF Consistent
<1>2. CASE PutUnheard
  <2>1. /\ UNCHANGED standing /\ Stops /\ unheard' = (unheard \/ Untold(unit)) /\ remote # None
        /\ running /\ todo # <<>> /\ todo[1] \in {"put", "change"}
        /\ remote' \in UpdateValue(unit, planned, remote)
    BY <1>2, Turn, Basics DEF PutUnheard, Writing
  <2>2. Wish
    BY <2>1, InTurn
  <2>3. remote' \in Objects(unit)
    BY <2>1, <2>2, Basics, ObjectsAssumption DEF Wish
  <2>4. Untold(unit) => unheard'
    BY <2>1
  <2>5. KeptIsMet'
    BY <2>1, <2>4 DEF KeptIsMet, standing
  <2>. QED  BY <2>1, <2>3, <2>5, StopsValue, EndsPlan DEF Consistent
<1>. QED  BY <1>1, <1>2

\* Attaching fails: what is stored meanwhile is what is there.
LEMMA AttachFailsPlan ==
    ASSUME VInv, AttachFails
    PROVE  InPlan'
<1>1. /\ UNCHANGED standing /\ UNCHANGED <<answer, unheard>> /\ verdict' = "failed" /\ todo' = <<>>
      /\ running /\ todo # <<>> /\ todo[1] = "attach" /\ remote # None
      /\ remote' \in {remote, Attachment(unit, planned, remote)}
  BY Turn, Basics DEF AttachFails
<1>2. PICK r \in {remote', answer} : state' = [value |-> Read(unit, r, planned), tainted |-> creating]
  BY DEF AttachFails
<1>3. Taking(todo)
  BY <1>1, TailTakes, Basics
<1>4. /\ remote = answer /\ config # None /\ ~Nested(unit) /\ Wish
      /\ Stores(unit, config, Attachment(unit, planned, answer))
  BY <1>1, <1>3, AnswerInHand
<1>5. remote \in Objects(unit) /\ Attachment(unit, planned, remote) \in Objects(unit)
  BY <1>1, <1>4, Basics DEF Stores
<1>6. ASSUME Untold(unit)
      PROVE  Meets(unit, remote', state'.value)
  <2>1. Attachment(unit, planned, remote) = remote
    BY <1>5, <1>6, Basics, AttachedOnce, RefreshesAssumption
  <2>2. remote' = remote /\ r = remote
    BY <1>1, <1>2, <1>4, <2>1
  <2>3. Stores(unit, config, remote) /\ planned = Plan(unit, config)
    BY <1>4, <2>1 DEF Wish
  <2>4. Meets(unit, remote, Read(unit, remote, planned))
    BY <1>4, <1>6, <2>3 DEF Stores, Fits
  <2>. QED  BY <1>2, <2>2, <2>4
<1>7. KeptIsMet'
  BY <1>1, <1>6 DEF KeptIsMet, standing
<1>. QED  BY <1>1, <1>5, <1>7, EndsPlan DEF Consistent

LEMMA PostPlan ==
    ASSUME VInv, Post
    PROVE  InPlan'
<1>1. /\ UNCHANGED standing /\ UNCHANGED <<verdict, unheard>>
      /\ running /\ todo # <<>> /\ todo[1] = "post" /\ todo' = Tail(todo)
  BY Turn, Basics DEF Post
<1>2. PICK r \in CreateValue(unit, planned) : remote' = r /\ answer' = r
  BY DEF Post
<1>3. /\ Wish /\ config # None /\ verdict # "failed" /\ ShapeAt(todo, 1)
      /\ Tail(todo) # <<>> /\ Taking(Tail(todo))
  BY <1>1, InTurn, TailTakes, Basics
<1>4. r \in Value /\ r \in Objects(unit)
  <2>1. r \in Value
    BY <1>1, <1>2, PlanTyped, Basics
  <2>. QED  BY <1>3, <2>1 DEF Objects, Wish
<1>5. Stores(unit, config, Attachment(unit, planned, r))
  BY <1>2, <1>3, Basics, CreatesAssumption DEF Wish
<1>6. Tail(todo)[1] # "attach" => Attachment(unit, planned, r) = r
  <2>1. "attached" \in {unit.create, unit.update} => Tail(todo)[1] = "attach"
    <3>1. Tail(todo)[1] = todo[2] /\ 1 + 1 = 2
      BY <1>3, TailShape, Basics
    <3>. QED  BY <1>1, <1>3, <3>1 DEF ShapeAt
  <2>. QED  BY <2>1, AttachedOnce
<1>7. AnswerStores'
  <2>1. UNCHANGED <<unit, config, planned, disturbed>> /\ r # None
    BY <1>1, <1>4, Markers DEF standing
  <2>. QED  BY <1>1, <1>2, <1>3, <1>5, <1>6, <2>1 DEF AnswerStores
<1>8. KeptIsMet'
  BY <1>1, <1>3 DEF KeptIsMet
<1>9. Consistent'
  BY <1>1 DEF VInv, InPlan, Consistent, standing
<1>. QED  BY <1>1, <1>2, <1>3, <1>4, <1>7, <1>8, <1>9, GoesPlan

LEMMA PutPlan ==
    ASSUME VInv, Put
    PROVE  InPlan'
<1>1. /\ UNCHANGED standing /\ UNCHANGED <<verdict, unheard>> /\ remote # None
      /\ running /\ todo # <<>> /\ todo[1] \in {"put", "change"} /\ todo' = Tail(todo)
      /\ remote' \in UpdateValue(unit, planned, remote) /\ answer' = remote'
  BY Turn, Basics DEF Put, Writing, Goes
<1>2. /\ Wish /\ config # None /\ verdict # "failed" /\ ShapeAt(todo, 1) /\ ~Nested(unit)
      /\ Tail(todo) # <<>> /\ Taking(Tail(todo))
  BY <1>1, InTurn, TailTakes, Basics
<1>3. /\ Due(unit, config, remote, state.value) /\ state.value \in Value
      /\ ~Replaces(unit, planned, state.value) /\ ~Recreates(unit, planned, state.value)
      /\ unit.updating # <<"keep">>
  BY <1>1 DEF VInv, InPlan, UpdateIsDue, IsDue
<1>4. remote' \in Value /\ remote \in Objects(unit) /\ remote' # None
  BY <1>1, PlanTyped, Basics, Markers
<1>5. /\ Stores(unit, config, Attachment(unit, planned, remote'))
      /\ unit.update # "attached" => Attachment(unit, planned, remote') = remote'
  BY <1>1, <1>2, <1>3, <1>4, Basics, UpdatesAssumption DEF Wish
<1>6. Tail(todo)[1] # "attach" => Attachment(unit, planned, remote') = remote'
  <2>1. unit.update = "attached" => Tail(todo)[1] = "attach"
    <3>1. Tail(todo)[1] = todo[2] /\ 1 + 1 = 2
      BY <1>2, TailShape, Basics
    <3>. QED  BY <1>1, <1>2, <3>1 DEF ShapeAt
  <2>. QED  BY <1>5, <2>1
<1>7. AnswerStores'
  <2>1. UNCHANGED <<unit, config, planned, disturbed>>
    BY <1>1 DEF standing
  <2>. QED  BY <1>1, <1>2, <1>4, <1>5, <1>6, <2>1 DEF AnswerStores
<1>8. KeptIsMet'
  BY <1>1, <1>2 DEF KeptIsMet
<1>9. Consistent'
  BY <1>1 DEF VInv, InPlan, Consistent, standing
<1>10. remote' \in Objects(unit)
  BY <1>1, <1>2, <1>4, Basics, ObjectsAssumption DEF Wish
<1>. QED  BY <1>1, <1>2, <1>7, <1>8, <1>9, <1>10, GoesPlan

LEMMA AttachPlan ==
    ASSUME VInv, Attach
    PROVE  InPlan'
<1>1. /\ UNCHANGED standing /\ UNCHANGED <<verdict, unheard>> /\ remote # None
      /\ running /\ todo # <<>> /\ todo[1] = "attach" /\ todo' = Tail(todo)
      /\ remote' = Attachment(unit, planned, remote) /\ answer' = remote'
  BY Turn, Basics DEF Attach, Goes
<1>2. Taking(todo) /\ Tail(todo) # <<>> /\ Taking(Tail(todo))
  BY <1>1, TailTakes, TailShape, Basics DEF Closing
<1>3. /\ remote = answer /\ config # None /\ verdict # "failed"
      /\ Stores(unit, config, Attachment(unit, planned, remote))
  BY <1>1, <1>2, AnswerInHand
<1>4. Attachment(unit, planned, remote') = remote'
  BY <1>1, AttachedOnce
<1>5. remote' \in Objects(unit) /\ remote' # None
  <2>1. Attachment(unit, planned, remote) \in Value
    BY <1>1, AttachmentTyped, Basics
  <2>. QED  BY <1>1, <1>3, <2>1, Markers DEF Stores
<1>6. AnswerStores'
  <2>1. UNCHANGED <<unit, config, planned, disturbed>>
    BY <1>1 DEF standing
  <2>. QED  BY <1>1, <1>2, <1>3, <1>4, <1>5, <2>1 DEF AnswerStores
<1>7. KeptIsMet'
  BY <1>1, <1>2 DEF KeptIsMet
<1>8. Consistent'
  BY <1>1 DEF VInv, InPlan, Consistent, standing
<1>. QED  BY <1>1, <1>2, <1>5, <1>6, <1>7, <1>8, GoesPlan

LEMMA GetPlan ==
    ASSUME VInv, Get
    PROVE  InPlan'
<1>1. /\ UNCHANGED standing /\ UNCHANGED <<verdict, unheard, remote, state>> /\ remote # None
      /\ running /\ todo # <<>> /\ todo[1] = "get" /\ todo' = Tail(todo) /\ answer' = remote
  BY Turn, Basics DEF Get, Goes
<1>2. Tail(todo) # <<>> /\ (Taking(Tail(todo)) <=> Taking(todo))
  BY <1>1, TailTakes, Basics
<1>3. Taking(todo) =>
        /\ remote = answer /\ config # None /\ verdict # "failed"
        /\ Stores(unit, config, Attachment(unit, planned, remote))
        /\ Attachment(unit, planned, remote) = remote
  BY <1>1, AnswerInHand
<1>4. AnswerStores'
  <2>1. UNCHANGED <<unit, config, planned, disturbed>>
    BY <1>1 DEF standing
  <2>. QED  BY <1>1, <1>2, <1>3, <2>1 DEF AnswerStores
<1>5. KeptIsMet'
  <2>1. state' = None \/ (state # None /\ state'.value = state.value)
    BY <1>1
  <2>. QED  BY <1>1, <1>2, <2>1, KeptStays DEF standing
<1>6. Consistent'
  BY <1>1 DEF VInv, InPlan, Consistent, standing
<1>. QED  BY <1>1, <1>2, <1>4, <1>5, <1>6, GoesPlan, Basics

LEMMA RemovalPlan ==
    ASSUME VInv, Drop \/ Delete
    PROVE  InPlan'
<1>1. /\ UNCHANGED standing /\ UNCHANGED verdict /\ running /\ todo # <<>>
      /\ todo[1] \in {"drop", "delete"} /\ todo' = Tail(todo) /\ remote' = None
      /\ todo[1] = "delete" => state' = None
  BY Turn, Basics DEF Drop, Delete, Goes
<1>2. ~Taking(Tail(todo))
  BY <1>1, TailTakes, Basics
<1>3. AnswerStores' /\ KeptIsMet'
  BY <1>1, <1>2 DEF AnswerStores, KeptIsMet
<1>4. Consistent'
  BY <1>1 DEF VInv, InPlan, Consistent, standing
<1>5. ASSUME Tail(todo) = <<>>, verdict' = "ok"
      PROVE  Done'
  <2>1. todo[1] = "delete" /\ Len(todo) = 1
    BY <1>1, <1>5, InTurn DEF Closing
  <2>2. config = None
    <3>1. todo[Len(todo)] = "delete" /\ verdict # "failed"
      BY <1>1, <1>5, <2>1
    <3>. QED  BY <1>1, <3>1 DEF VInv, InPlan, PlanIsMade
  <2>. QED  BY <1>1, <2>1, <2>2 DEF Done, standing
<1>. QED  BY <1>1, <1>3, <1>4, <1>5, GoesPlan

LEMMA RecordPlan ==
    ASSUME VInv, Record
    PROVE  InPlan'
<1>1. /\ UNCHANGED standing /\ UNCHANGED <<verdict, remote, answer>>
      /\ running /\ todo # <<>> /\ todo[1] = "record" /\ todo' = Tail(todo)
  BY Turn, Basics DEF Record, Goes
<1>2. Taking(todo) /\ Tail(todo) # <<>> /\ Taking(Tail(todo))
  BY <1>1, TailTakes, TailShape, Basics DEF Closing
<1>3. /\ remote \in {answer, None} /\ answer # None /\ (remote = None => disturbed)
      /\ config # None /\ verdict # "failed"
      /\ Stores(unit, config, Attachment(unit, planned, answer))
      /\ Attachment(unit, planned, answer) = answer
  BY <1>1, <1>2, AnswerInHand
<1>4. AnswerStores'
  <2>1. UNCHANGED <<unit, config, planned, disturbed>>
    BY <1>1 DEF standing
  <2>. QED  BY <1>1, <1>3, <2>1 DEF AnswerStores
<1>5. KeptIsMet'
  BY <1>1, <1>2 DEF KeptIsMet
<1>6. Consistent'
  BY <1>1 DEF VInv, InPlan, Consistent, standing
<1>. QED  BY <1>1, <1>2, <1>4, <1>5, <1>6, GoesPlan, Basics

\* What is stored of the answer is what was planned.
LEMMA SavePlan ==
    ASSUME VInv, Save
    PROVE  InPlan'
<1>. DEFINE value == Read(unit, answer, planned)
<1>1. /\ UNCHANGED standing /\ UNCHANGED <<remote, answer, unheard>>
      /\ running /\ todo # <<>> /\ todo[1] = "save" /\ todo' = Tail(todo)
      /\ verdict' = IF planned \in {Unknown, value} THEN verdict ELSE "inconsistent"
      /\ state' = [value |-> value, tainted |-> creating /\ verdict' = "inconsistent"]
  BY Turn, Basics DEF Save, Judge
<1>2. Taking(todo) /\ (Tail(todo) # <<>> => Taking(Tail(todo)))
  BY <1>1, TailTakes, Basics
<1>3. /\ remote \in {answer, None} /\ answer # None /\ (remote = None => disturbed)
      /\ config # None /\ verdict # "failed" /\ ~Nested(unit) /\ planned = Plan(unit, config)
      /\ Stores(unit, config, answer) /\ Attachment(unit, planned, answer) = answer
  BY <1>1, <1>2, AnswerInHand DEF Wish
<1>4. Fits(unit, config, answer, value)
  BY <1>3 DEF Stores
<1>. HIDE DEF value
<1>5. UNCHANGED <<unit, config, planned, disturbed>>
  BY <1>1 DEF standing
<1>6. verdict' # "failed" /\ {verdict, verdict'} \subseteq {"ok", "inconsistent"}
  BY <1>1, <1>3, Basics DEF TypeOK
<1>7. Blank(unit, planned) \/ verdict' = "ok"
  BY <1>1, <1>3, <1>4, <1>6 DEF Fits, VInv, InPlan, Consistent
<1>8. AnswerStores'
  BY <1>1, <1>3, <1>5, <1>6 DEF AnswerStores
<1>9. state'.value = value
  BY <1>1
<1>10. KeptIsMet'
  <2>1. Untold(unit) => Meets(unit, answer, value)
    BY <1>4 DEF Fits
  <2>. QED  BY <1>1, <1>3, <1>5, <1>9, <2>1 DEF KeptIsMet
<1>11. Consistent'
  BY <1>5, <1>7 DEF Consistent
<1>12. ASSUME verdict' = "ok", ~disturbed
       PROVE  Done'
  <2>1. planned \in {Unknown, value}
    BY <1>1, <1>12
  <2>2. Settled(unit, config, remote, value) /\ remote # None
    BY <1>3, <1>4, <1>12, <2>1 DEF Fits
  <2>3. state' \in State /\ state' # None /\ ~state'.tainted
    <3>1. answer \in Value /\ planned \in Value \cup {Unknown}
      BY <1>1, <1>3, Standing, PlanTyped, Basics
    <3>2. state' = [value |-> value, tainted |-> FALSE]
      BY <1>1, <1>12
    <3>. QED  BY <3>1, <3>2, StoredTyped, Basics DEF value
  <2>. QED  BY <1>1, <1>3, <1>5, <1>9, <2>2, <2>3 DEF Done
<1>. QED  BY <1>1, <1>6, <1>8, <1>10, <1>11, <1>12, GoesPlan, Basics

\* What needs no call is what was planned.
LEMMA KeepPlan ==
    ASSUME VInv, Keep
    PROVE  InPlan'
<1>1. /\ UNCHANGED standing /\ UNCHANGED <<remote, verdict, unheard>>
      /\ running /\ todo # <<>> /\ todo[1] = "keep" /\ todo' = Tail(todo)
      /\ state' = [value |-> planned, tainted |-> FALSE]
  BY Turn, Basics DEF Keep, Goes
<1>2. Tail(todo) = <<>> /\ config # None /\ ~Nested(unit) /\ Wish
  BY <1>1, InTurn
<1>3. UNCHANGED <<unit, config, planned, disturbed>>
  BY <1>1 DEF standing
<1>4. remote # None => Fits(unit, config, remote, planned)
  <2>1. /\ remote # None => Due(unit, config, remote, state.value)
        /\ ~Replaces(unit, planned, state.value) /\ ~Recreates(unit, planned, state.value)
        /\ state.value \in Value /\ unit.updating = <<"keep">>
    BY <1>1 DEF VInv, InPlan, UpdateIsDue, IsDue
  <2>. QED  BY <1>2, <2>1, Basics, UpdatesAssumption DEF Wish
<1>5. remote = None => disturbed
  BY <1>1 DEF VInv, InPlan, UpdateIsDue, IsDue
<1>6. state' # None /\ state'.value = planned /\ ~state'.tainted
  <2>1. planned \in Value \cup {Unknown}
    BY <1>1, PlanTyped, Basics
  <2>. QED  BY <1>1, <2>1, KeptTyped
<1>7. AnswerStores'
  BY <1>1, <1>2, EmptyShape DEF AnswerStores, Taking
<1>8. KeptIsMet'
  <2>1. remote # None /\ Untold(unit) => Meets(unit, remote, planned)
    BY <1>4 DEF Fits
  <2>. QED  BY <1>1, <1>3, <1>6, <2>1 DEF KeptIsMet
<1>9. Consistent'
  BY <1>1, <1>3 DEF VInv, InPlan, Consistent
<1>10. ~disturbed => Done'
  <2>1. ~disturbed => remote # None /\ Settled(unit, config, remote, planned)
    <3>1. planned = Plan(unit, config)
      BY <1>2 DEF Wish
    <3>. QED  BY <1>4, <1>5, <3>1 DEF Fits
  <2>. QED  BY <1>1, <1>2, <1>3, <1>6, <2>1 DEF Done
<1>. QED  BY <1>1, <1>7, <1>8, <1>9, <1>10, GoesPlan, Basics

LEMMA CreatesSomething ==
    ASSUME NEW u, NEW p
    PROVE  CreateValue(u, p) # {}
<1>1. \A s : Created(u, s) # {}
  BY DEF Created
<1>. QED  BY <1>1 DEF CreateValue

\* What is written into a draft is stored as it should be.
LEMMA RewritesWell ==
    ASSUME VInv, running, todo # <<>>, todo[1] = "reconcile", config # None, ~AsWanted,
           NEW r \in Rewritten(unit, planned, remote, IF state = None THEN Unknown ELSE state.value)
    PROVE  Stores(unit, config, r)
<1>. DEFINE previous == IF state = None THEN Unknown ELSE state.value
<1>1. Nested(unit) /\ config \in Wishes(unit) /\ planned = Plan(unit, config)
      /\ unit \in Units /\ (remote # None => remote \in Objects(unit))
  BY InTurn, Basics DEF Wish
<1>2. r \in Rewritten(unit, planned, remote, previous)
  OBVIOUS
<1>3. CASE remote = None
  <2>. HIDE DEF previous
  <2>1. \A s \in CreateValue(unit, planned) : Stores(unit, config, Attachment(unit, planned, s))
    BY <1>1, CreatesAssumption
  <2>2. unit.create = "attached" => unit.update = "attached"
    BY <1>1, CreatesAssumption
  <2>3. CASE unit.update = "attached"
    <3>1. r = planned /\ \A s : Attachment(unit, planned, s) = planned
      BY <1>2, <2>3 DEF Rewritten, Attachment
    <3>. QED  BY <2>1, <3>1, CreatesSomething
  <2>4. CASE unit.update # "attached"
    <3>1. r \in CreateValue(unit, planned)
      BY <1>2, <1>3, <2>4 DEF Rewritten
    <3>. QED  BY <2>1, <2>2, <2>4, <3>1, AttachedOnce
  <2>. QED  BY <2>3, <2>4
<1>4. CASE remote # None
  <2>1. state # None /\ Due(unit, config, remote, state.value) /\ state.value \in Value
    BY <1>4 DEF VInv, InPlan, BlockIsDue, IsDue
  <2>2. ~SameModel(unit, planned, state.value)
    BY <2>1 DEF AsWanted
  <2>3. \A s \in Rewritten(unit, planned, remote, state.value) : Stores(unit, config, s)
    BY <1>1, <1>4, <2>1, <2>2, BlocksAssumption
  <2>. QED  BY <1>2, <2>1, <2>3
<1>. QED  BY <1>3, <1>4

LEMMA ReconcilePlan ==
    ASSUME VInv, Reconcile
    PROVE  InPlan'
<1>1. /\ UNCHANGED standing /\ UNCHANGED <<answer, unheard>> /\ todo' = <<>>
      /\ running /\ todo # <<>> /\ todo[1] = "reconcile"
  BY Turn, Basics DEF Reconcile
<1>2. UNCHANGED <<unit, config, planned, disturbed>>
  BY <1>1 DEF standing
<1>3. CASE config = None
  <2>1. remote' = None /\ state' = None /\ verdict' = verdict
    BY <1>3 DEF Reconcile
  <2>2. KeptIsMet' /\ Done'
    BY <1>2, <1>3, <2>1 DEF KeptIsMet, Done
  <2>3. Consistent'
    BY <1>2, <2>1 DEF VInv, InPlan, Consistent
  <2>. QED  BY <1>1, <2>1, <2>2, <2>3, EndsPlan
<1>4. CASE config # None /\ AsWanted
  <2>1. Nested(unit) /\ config \in Wishes(unit) /\ planned = Plan(unit, config)
    BY <1>1, <1>4, InTurn DEF Wish
  <2>2. /\ remote # None => Due(unit, config, remote, state.value)
        /\ state.value \in Value /\ planned \notin {state.value, Unknown}
        /\ remote = None => disturbed
        /\ state # None /\ SameModel(unit, planned, state.value)
    BY <1>1, <1>4 DEF AsWanted, VInv, InPlan, BlockIsDue, IsDue
  <2>3. /\ state' = [value |-> planned, tainted |-> FALSE]
        /\ UNCHANGED <<remote, verdict>>
    BY <1>4, <2>2 DEF Reconcile
  <2>4. state' # None /\ state'.value = planned /\ ~state'.tainted
    <3>1. planned \in Value \cup {Unknown}
      <4>1. planned # None
        BY <1>1, <1>4, Basics DEF IInv, InHand, PlanIsAsked
      <4>. QED  BY <4>1, Basics DEF TypeOK
    <3>. QED  BY <2>3, <3>1, KeptTyped
  <2>5. remote # None =>
            /\ Settled(unit, config, remote, planned)
            /\ Untold(unit) /\ Meets(unit, remote, state.value) => Meets(unit, remote, planned)
    BY <2>1, <2>2, Basics, BlocksAssumption
  <2>6. ~Taking(todo)
    BY <1>1, AnswerInHand DEF Answering
  <2>7. KeptIsMet'
    BY <1>1, <1>2, <2>2, <2>3, <2>4, <2>5, <2>6 DEF VInv, InPlan, KeptIsMet
  <2>8. Consistent'
    BY <1>2, <2>3 DEF VInv, InPlan, Consistent
  <2>9. ~disturbed => Done'
    BY <1>2, <1>4, <2>2, <2>3, <2>4, <2>5 DEF Done
  <2>. QED  BY <1>1, <2>3, <2>7, <2>8, <2>9, EndsPlan, Basics
<1>5. CASE config # None /\ ~AsWanted
  <2>. DEFINE value == Read(unit, remote', Taken(unit, planned))
  <2>1. /\ remote' \in Rewritten(unit, planned, remote, IF state = None THEN Unknown ELSE state.value)
        /\ state' = [value |-> value, tainted |-> FALSE]
        /\ verdict' = Judge(state'.value)
    BY <1>5 DEF Reconcile
  <2>2. Stores(unit, config, remote')
    BY <1>1, <1>5, <2>1, RewritesWell
  <2>3. Nested(unit) /\ verdict # "failed" /\ planned = Plan(unit, config)
    BY <1>1, <1>5, InTurn DEF Wish
  <2>4. Fits(unit, config, remote', value) /\ remote' \in Objects(unit)
    BY <2>2, <2>3 DEF Stores
  <2>5. state' # None /\ remote' # None
    <3>1. IInv'
      BY ReconcileInv, Basics
    <3>2. remote' # None
      <4>1. planned # None
        BY <1>1, <1>5, Basics DEF IInv, InHand, PlanIsAsked
      <4>2. planned \in Value \cup {Unknown}
        BY <4>1, Basics DEF TypeOK
      <4>3. unit.update = "attached" => planned # Unknown
        BY <4>2, Basics, HandlersAssumption DEF IInv, InHand, PlanIsAsked
      <4>4. CreateValue(unit, planned) \subseteq Value
            /\ \A old \in Value : UpdateValue(unit, planned, old) \subseteq Value
        BY <4>2, RequestTyped, Basics DEF IInv, InHand, PlanIsAsked
      <4>5. remote' \in Value
        BY <2>1, <4>2, <4>3, <4>4, Basics DEF Rewritten
      <4>. QED  BY <4>5, Markers
    <3>4. remote' \in Value /\ Taken(unit, planned) \in Value \cup {Unknown}
      <4>1. planned \in Value \cup {None, Unknown} /\ planned # None
        BY <1>1, <1>5, Basics DEF IInv, InHand, PlanIsAsked, TypeOK
      <4>. QED  BY <3>1, <3>2, <4>1 DEF IInv, TypeOK, Taken
    <3>. QED  BY <2>1, <3>2, <3>4, StoredTyped, Basics
  <2>. HIDE DEF value
  <2>6. state'.value = value /\ ~state'.tainted
    BY <2>1
  <2>7. verdict' = IF planned \in {Unknown, value} THEN verdict ELSE "inconsistent"
    BY <2>1, <2>6 DEF Judge
  <2>8. KeptIsMet'
    <3>1. Untold(unit) => Meets(unit, remote', value)
      BY <2>4 DEF Fits
    <3>. QED  BY <1>2, <2>6, <3>1 DEF KeptIsMet
  <2>9. Consistent'
    <3>1. Blank(unit, planned) \/ verdict' = verdict
      BY <2>3, <2>4, <2>7 DEF Fits
    <3>. QED  BY <1>2, <3>1 DEF VInv, InPlan, Consistent
  <2>10. verdict' = "ok" => Done'
    <3>. SUFFICES ASSUME verdict' = "ok"
                  PROVE  Done'
      OBVIOUS
    <3>1. planned \in {Unknown, value}
      BY <2>7
    <3>2. Settled(unit, config, remote', value)
      BY <2>3, <2>4, <3>1 DEF Fits
    <3>. QED  BY <1>2, <1>5, <2>5, <2>6, <3>2 DEF Done
  <2>. QED  BY <1>1, <2>4, <2>8, <2>9, <2>10, EndsPlan
<1>. QED  BY <1>3, <1>4, <1>5

---------------------------------------------------------------------------
(* What is done around an apply.                                           *)

LEMMA EndPlan ==
    ASSUME VInv, End
    PROVE  InPlan'
<1>1. /\ running /\ todo = <<>> /\ running' = FALSE /\ applied' = (verdict = "ok" /\ ~disturbed)
      /\ UNCHANGED <<unit, config, remote, state, todo, planned, answer, verdict, unheard, disturbed>>
  BY DEF End
<1>2. Shape(todo)' /\ ObjectsAreKnown' /\ PlanIsMade'
  BY <1>1 DEF VInv, InPlan, Shape, ShapeAt, ObjectsAreKnown, PlanIsMade
<1>3. UpdateIsDue' /\ BlockIsDue'
  BY <1>1 DEF UpdateIsDue, BlockIsDue
<1>4. AnswerStores' /\ KeptIsMet' /\ Consistent'
  BY <1>1 DEF VInv, InPlan, AnswerStores, Taking, KeptIsMet, Consistent
<1>5. Done' <=> Done
  BY <1>1 DEF Done
<1>6. applied' => Done
  BY <1>1 DEF VInv, InPlan, WellDone
<1>7. WellDone'
  BY <1>1, <1>5, <1>6 DEF WellDone
<1>. QED  BY <1>2, <1>3, <1>4, <1>7 DEF InPlan

\* Something is done between two applies.
LEMMA BetweenPlan ==
    ASSUME VInv, ~running, running' = FALSE, applied' = FALSE,
           UNCHANGED <<unit, todo, planned, verdict>>, ObjectsAreKnown', KeptIsMet'
    PROVE  InPlan'
<1>1. todo' = <<>> /\ ~Taking(todo')
  BY Basics, EmptyShape
<1>2. Shape(todo)'
  BY DEF VInv, InPlan, Shape, ShapeAt
<1>3. PlanIsMade' /\ UpdateIsDue' /\ BlockIsDue' /\ AnswerStores'
  BY <1>1 DEF PlanIsMade, UpdateIsDue, BlockIsDue, AnswerStores
<1>4. Consistent' /\ WellDone'
  BY DEF VInv, InPlan, Consistent, WellDone
<1>. QED  BY <1>2, <1>3, <1>4 DEF InPlan

LEMMA EditConfigPlan ==
    ASSUME VInv, EditConfig
    PROVE  InPlan'
<1>1. /\ ~running /\ applied' = FALSE
      /\ config' \in Configurable(unit.schema) \cup {None}
      /\ Mute(unit) /\ Nested(unit) => config' \in {None, Null}
      /\ UNCHANGED <<unit, remote, state, running, todo, planned, verdict, unheard>>
  BY DEF EditConfig
<1>2. running' = FALSE
  BY <1>1, Basics
<1>3. ObjectsAreKnown' /\ KeptIsMet'
  BY <1>1 DEF VInv, InPlan, ObjectsAreKnown, KeptIsMet, Taking
<1>. QED  BY <1>1, <1>2, <1>3, BetweenPlan

LEMMA ImportPlan ==
    ASSUME VInv, Import
    PROVE  InPlan'
<1>1. /\ ~running /\ remote # None /\ applied' = FALSE
      /\ state' = [value |-> Read(unit, remote, Unknown), tainted |-> FALSE]
      /\ UNCHANGED <<unit, config, remote, running, todo, planned, verdict, unheard>>
  BY DEF Import
<1>2. running' = FALSE
  BY <1>1, Basics
<1>3. Untold(unit) => Meets(unit, remote, Read(unit, remote, Unknown))
  BY <1>1, Basics, RefreshesAssumption
<1>4. ObjectsAreKnown' /\ KeptIsMet'
  BY <1>1, <1>3 DEF VInv, InPlan, ObjectsAreKnown, KeptIsMet
<1>. QED  BY <1>1, <1>2, <1>4, BetweenPlan

LEMMA DriftPlan ==
    ASSUME VInv, Drift
    PROVE  InPlan'
<1>1. /\ remote' \in (Configurable(unit.schema) \ {remote}) \cup {None}
      /\ running \/ Untold(unit) => remote' = None
      /\ applied' = FALSE /\ disturbed' = running
      /\ UNCHANGED <<unit, config, state, running, todo, planned, answer, verdict, unheard>>
  BY DEF Drift, Unseen
<1>2. ObjectsAreKnown'
  BY <1>1 DEF VInv, InPlan, ObjectsAreKnown, Objects
<1>3. KeptIsMet'
  BY <1>1 DEF KeptIsMet
<1>4. CASE ~running
  <2>1. running' = FALSE
    BY <1>1, <1>4, Basics
  <2>. QED  BY <1>1, <1>2, <1>3, <1>4, <2>1, BetweenPlan
<1>5. CASE running
  <2>1. remote' = None /\ disturbed'
    BY <1>1, <1>5
  <2>2. Shape(todo)' /\ PlanIsMade'
    BY <1>1 DEF VInv, InPlan, Shape, ShapeAt, PlanIsMade, Wish
  <2>3. UpdateIsDue' /\ BlockIsDue'
    BY <1>1, <2>1 DEF VInv, InPlan, UpdateIsDue, BlockIsDue, IsDue
  <2>4. AnswerStores'
    BY <1>1, <2>1 DEF VInv, InPlan, AnswerStores, Taking
  <2>5. Consistent' /\ WellDone'
    BY <1>1, <2>1 DEF VInv, InPlan, Consistent, WellDone
  <2>. QED  BY <1>2, <1>3, <2>2, <2>3, <2>4, <2>5 DEF InPlan
<1>. QED  BY <1>4, <1>5

---------------------------------------------------------------------------
(* The specification.                                                      *)

LEMMA InitVInv == Init => VInv
<1>. SUFFICES ASSUME Init
              PROVE  VInv
  OBVIOUS
<1>1. IInv
  BY InitInv
<1>2. /\ config \in Configurable(unit.schema) /\ (Mute(unit) /\ Nested(unit) => config = Null)
      /\ remote = None /\ state = None /\ running = FALSE /\ todo = <<>>
      /\ verdict = "ok" /\ applied = FALSE
  BY DEF Init
<1>3. Shape(todo) /\ ~Taking(todo)
  BY <1>2, EmptyShape
<1>4. ObjectsAreKnown /\ PlanIsMade /\ UpdateIsDue /\ BlockIsDue
  BY <1>2 DEF ObjectsAreKnown, PlanIsMade, UpdateIsDue, BlockIsDue
<1>5. AnswerStores /\ KeptIsMet /\ Consistent /\ WellDone
  BY <1>2, <1>3 DEF AnswerStores, KeptIsMet, Consistent, WellDone
<1>. QED  BY <1>1, <1>3, <1>4, <1>5 DEF VInv, InPlan

LEMMA NextVInv == VInv /\ [Next]_vars => VInv'
<1>. SUFFICES ASSUME VInv, [Next]_vars
              PROVE  VInv'
  OBVIOUS
<1>1. SUFFICES InPlan'
  BY NextInv, Basics DEF VInv
<1>2. CASE Begin
  BY <1>2, BeginPlan
<1>3. CASE Handlers
  BY <1>3, PostPlan, FailuresPlan, AttachPlan, PutPlan, GetPlan, RemovalPlan, RecordPlan,
     SavePlan, KeepPlan, ReconcilePlan, EndPlan DEF Handlers
<1>4. CASE Faults
  BY <1>4, FailuresPlan, AttachFailsPlan, UnheardPlan DEF Faults
<1>5. CASE EditConfig \/ Drift \/ Import
  BY <1>5, EditConfigPlan, DriftPlan, ImportPlan
<1>6. CASE UNCHANGED vars
  <2>1. Shape(todo)' /\ ObjectsAreKnown' /\ PlanIsMade'
    BY <1>6 DEF vars, VInv, InPlan, Shape, ShapeAt, ObjectsAreKnown, PlanIsMade, Wish
  <2>2. UpdateIsDue' /\ BlockIsDue'
    BY <1>6 DEF vars, VInv, InPlan, UpdateIsDue, BlockIsDue, IsDue
  <2>3. AnswerStores' /\ KeptIsMet' /\ Consistent'
    BY <1>6 DEF vars, VInv, InPlan, AnswerStores, Taking, KeptIsMet, Consistent
  <2>4. WellDone'
    BY <1>6 DEF vars, VInv, InPlan, WellDone, Done
  <2>. QED  BY <2>1, <2>2, <2>3, <2>4 DEF InPlan
<1>. QED  BY <1>2, <1>3, <1>4, <1>5, <1>6 DEF Next

\* Whatever is edited, fails, is lost or changed by others, the object, the answer and
\* the state stand to the plan as the handlers' programs take them to.
THEOREM ValuesInvariance == Spec => []VInv
BY InitVInv, NextVInv, PTL DEF Spec

\* No handler of any kind makes Terraform stop with "Provider produced inconsistent
\* result after apply", whatever failed before, but for what is written as "" and read
\* back as null.
THEOREM StoresWhatIsPlanned == Spec => []Consistent
<1>1. VInv => Consistent
  BY DEF VInv, InPlan
<1>. QED  BY <1>1, ValuesInvariance, PTL

\* An apply that ends without an error has put the configured value, or the default if
\* there is none, where it was to go. After a deletion there is no object, unless the kind
\* is Lossy or the answer to a creation was lost, so that one was made and never recorded.
THEOREM AppliesWhatIsWanted == Spec => []AppliedIsRemote
<1>1. VInv => AppliedIsRemote
  <2>. SUFFICES ASSUME VInv, applied
                PROVE  IF config = None THEN state = None /\ (unheard \/ unit \in Lossy \/ remote = None)
                       ELSE remote # None /\ (Free(Wanted(state)) \/ Matches(unit, remote, Wanted(state)))
    BY DEF AppliedIsRemote
  <2>1. Done /\ ~Taking(todo)
    BY Basics, EmptyShape DEF VInv, InPlan, WellDone
  <2>2. CASE config = None
    BY <2>1, <2>2 DEF Done
  <2>3. CASE config # None
    <3>1. remote # None /\ state # None /\ Settled(unit, config, remote, state.value)
      BY <2>1, <2>3 DEF Done
    <3>2. Wanted(state) = state.value
      BY <3>1 DEF Settled, Wanted
    <3>3. Meets(unit, remote, state.value) \/ (Untold(unit) /\ unheard)
      BY <2>1, <3>1 DEF Settled, VInv, InPlan, KeptIsMet
    <3>. QED  BY <2>3, <3>1, <3>2, <3>3 DEF Meets, Free
  <2>. QED  BY <2>2, <2>3
<1>. QED  BY <1>1, ValuesInvariance, PTL

\* After it the next plan is empty, whatever the classes of the attribute.
THEOREM AppliesOnce == Spec => []Settles
<1>1. VInv => Settles
  <2>. SUFFICES ASSUME VInv, applied, ~Blank(unit, config)
                PROVE  Operation(Refreshed) = "none"
    BY DEF Settles
  <2>1. Done
    BY DEF VInv, InPlan, WellDone
  <2>2. CASE config = None
    <3>1. Refreshed = None
      BY <2>1, <2>2 DEF Done, Refreshed
    <3>. QED  BY <2>2, <3>1 DEF Operation
  <2>3. CASE config # None
    <3>1. remote # None /\ state # None /\ ~state.tainted /\ Settled(unit, config, remote, state.value)
      BY <2>1, <2>3 DEF Done
    <3>. DEFINE k == Read(unit, remote, state.value)
    <3>2. Planned(unit.schema, config, k) = k
      BY <3>1 DEF Settled
    <3>3. Refreshed # None
      <4>1. CASE Nested(unit)
        BY <3>1, <4>1, RefreshMisses
      <4>2. CASE ~Nested(unit)
        <5>1. state \in State /\ remote \in Value
          BY <3>1, StateTyped, Basics
        <5>2. Refreshed = [value |-> k, tainted |-> state.tainted]
          BY <3>1, <4>2, <5>1 DEF Refreshed, State
        <5>. QED  BY <3>1, <5>1, <5>2, StateTyped, StoredTyped, Basics
      <4>. QED  BY <4>1, <4>2
    <3>4. Refreshed.value = k /\ ~Refreshed.tainted
      BY <3>1, <3>3, RefreshFinds
    <3>5. Wanted(Refreshed) = Refreshed.value
      BY <3>2, <3>3, <3>4 DEF Wanted
    <3>6. ~Replaces(unit, Wanted(Refreshed), Refreshed.value)
      BY <3>5 DEF Replaces
    <3>. QED  BY <2>3, <3>3, <3>4, <3>5, <3>6 DEF Operation
  <2>. QED  BY <2>2, <2>3
<1>. QED  BY <1>1, ValuesInvariance, PTL
=============================================================================
