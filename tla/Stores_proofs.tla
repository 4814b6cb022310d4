---------------------------- MODULE Stores_proofs ----------------------------
(***************************************************************************)
(* What the system keeps outside its database, in two stores that no       *)
(* transaction reaches: the bucket and the cache.                          *)
(*                                                                         *)
(* The bucket (Media): what is shown is in it, nothing in it is forgotten, *)
(* and the gallery keeps its limit and its order, for any number of media, *)
(* requests, failures and restarts.                                        *)
(*                                                                         *)
(* The cache (Cache, at the end): it never answers with a value            *)
(* older than a finished write, for any number of readers and writers, as  *)
(* long as Redis has not lost the version.                                 *)
(***************************************************************************)
EXTENDS Media, Cache, FunctionTheorems, FiniteSetTheorems, SequenceTheorems, TLAPS

-----------------------------------------------------------------------------
(* The inductive invariant *)

Label == {"idle", "count", "last", "put", "create", "undo", "enqueue", "find", "delete",
          "list", "next", "swap", "swapped", "read", "replace", "write"}

PlaceOf == [id : MediaIds, sort : Nat]

\* The keys of an owner that can have been given up to n.
KeysOf(owner, n) == {owner} \X (0..n)

\* A request that holds the key of a file it has uploaded.
HasKey(place, kind) ==
    place \in {"create", "undo", "enqueue", "replace", "write"} \/ (place = "read" /\ kind = "banner")

\* The kinds of requests that come to each place.
ComesTo(kind, place) ==
    \/ place = "idle" /\ kind = "none"
    \/ place \in {"count", "last", "create", "undo", "enqueue"} /\ kind = "add"
    \/ place = "put" /\ kind \in {"add"} \cup SlotNames
    \/ place \in {"find", "delete"} /\ kind \in {"remove", "removeListing"}
    \/ place \in {"list", "next"} /\ kind = "removeListing"
    \/ place \in {"swap", "swapped"} /\ kind \in {"up", "down"}
    \/ place \in {"read", "replace", "write"} /\ kind \in SlotNames

\* What a request knows where it stands.
InPlace(n, place, r) ==
    /\ r = [kind |-> r.kind, id |-> r.id, file |-> r.file, key |-> r.key, sort |-> r.sort,
            todo |-> r.todo, gone |-> r.gone]
    /\ ComesTo(r.kind, place)
    /\ r.id \in Nat /\ r.sort \in Nat
    /\ place = "idle" => r = NoReq
    /\ r.kind = "add" => AdmittedToGallery(r.file)
    /\ r.kind \in SlotNames => ~IsVideo(r.file) /\ r.gone \subseteq KeysOf(r.kind, n)
    /\ r.kind \notin SlotNames => r.gone \subseteq (Owners \ SlotNames) \X (0..n)
    /\ r.kind = "add" => r.gone = {}
    /\ place \in {"enqueue", "find", "delete"} => r.id \in MediaIds
    /\ r.kind = "removeListing" /\ place # "list" => r.todo \in Seq(MediaIds)
    /\ r.kind = "removeListing" /\ place \in {"find", "delete"} => r.todo # <<>>
    /\ place = "swapped" => r.todo \in Seq(PlaceOf) /\ Len(r.todo) = 2 /\ r.todo[1].id # r.todo[2].id
    /\ ~HasKey(place, r.kind) => r.key = None
    /\ HasKey(place, r.kind) /\ r.kind \in SlotNames => r.key \in KeysOf(r.kind, n)
    /\ HasKey(place, r.kind) /\ r.kind = "add" =>
          \/ IsVideo(r.file) /\ r.key = Source(r.id) /\ r.key \in KeysOf("src", n)
          \/ ~IsVideo(r.file) /\ place = "create" /\ r.key \in KeysOf("listing", n)

\* The files a row names, by what has become of it.
RowFits(n, i, row) ==
    \/ row.type = "image" /\ row.status = "READY" /\ row.url \in KeysOf("listing", n) /\ row.posterUrl = None
    \/ row.type = "video" /\ row.status = "READY" /\ row.url = Video(i) /\ row.posterUrl = Poster(i)
    \/ row.type = "video" /\ row.status # "READY" /\ row.url = Source(i) /\ row.posterUrl = None

\* The job works on a row that is PROCESSING until it finishes it, or that has gone.
JobFits ==
    \/ job = NoJob
    \/ /\ job.pc # "idle"
       /\ job = [pc |-> job.pc, id |-> job.id, src |-> Source(job.id)]
       /\ job.id \in MediaIds /\ job.id <= named
       /\ job.pc \notin {"withdraw", "clean"} => rows[job.id] = None \/ Processing(job.id)
       /\ job.pc = "withdraw" => rows[job.id] = None
       /\ job.pc = "update" => Results \subseteq DOMAIN bucket

Bound == named + clock

Fits ==
    /\ pc \in [Handlers -> Label]
    /\ DOMAIN req = Handlers /\ req = [h \in Handlers |-> req[h]]
    /\ \A h \in Handlers : InPlace(Bound, pc[h], req[h])
    /\ \A i \in Gallery : RowFits(Bound, i, rows[i])
    /\ \A k \in SlotNames : slots[k] \in KeysOf(k, Bound) \cup {None}
    /\ JobFits

\* A row to come has an id of its own.
Adding(h) == pc[h] \in {"put", "create"} /\ req[h].kind = "add"

HasId(h) == Adding(h) \/ pc[h] = "enqueue"

IdsAreFresh ==
    /\ \A h \in Handlers : Adding(h) =>
          /\ req[h].id \in MediaIds /\ req[h].id <= named /\ rows[req[h].id] = None /\ job.id # req[h].id
          /\ \A o \in Handlers \ {h} : HasId(o) => req[o].id # req[h].id
    /\ \A h \in Handlers : pc[h] = "enqueue" => req[h].id <= named

Gones == UNION {req[h].gone : h \in Handlers}

\* Nobody has seen a video, or the poster of one, that is still to be made.
ToBeMade(i) ==
    \/ i > named \/ Processing(i)
    \/ job.pc \notin {"idle", "clean"} /\ job.id = i
    \/ \E h \in Handlers : Adding(h) /\ req[h].id = i

ResultsAreNew ==
    \A i \in MediaIds : ToBeMade(i) => Video(i) \notin deleting \cup Gones /\ Poster(i) \notin deleting \cup Gones

\* A picture that is uploaded and not written down is nobody else's.
PicturesAreOwn ==
    \A h \in Handlers : LET k == req[h].key IN
        k # None /\ k[1] # "src" /\ k \notin twice =>
            /\ k \in DOMAIN bucket
            /\ k \notin deleting \cup Referenced \cup Gones
            /\ \A o \in Handlers \ {h} : req[o].key # k

RowsShareNothing ==
    \A i, j \in Gallery : i # j => FilesOf(rows[i]) \cap FilesOf(rows[j]) \subseteq twice

Stays(key) == key \in DOMAIN bucket /\ key \notin deleting

RowsAreShown ==
    \A i \in Gallery \ removed : rows[i].status = "READY" =>
        \A key \in FilesOf(rows[i]) \ twice : Stays(key)

BeingReplaced(k) == k \in broken \/ \E h \in Handlers : req[h].kind = k /\ pc[h] = "write"

SlotsAreShown ==
    \A k \in SlotNames : slots[k] # None /\ slots[k] \notin twice /\ ~BeingReplaced(k) => Stays(slots[k])

\* What a request has sent off to be deleted is deleted, or will be, or is leaked.
GoneIsGone ==
    \A h \in Handlers : pc[h] \in {"delete", "write"} =>
        \A key \in req[h].gone \ twice : key \in DOMAIN bucket => key \in deleting \cup leaked

\* Kept by somebody else than a request that has uploaded it.
JobHolds == (IF job.pc = "idle" THEN {} ELSE {job.src})
                \cup (IF job.pc \in {"update", "withdraw"} THEN Results ELSE {})
Held == Referenced \cup deleting \cup leaked \cup JobHolds

EnqueuedIsHeld ==
    \A h \in Handlers : pc[h] = "enqueue" /\ req[h].key \in DOMAIN bucket => req[h].key \in Held

FilesAreHeld ==
    \A key \in DOMAIN bucket : key \in Held \/ \E h \in Handlers : req[h].key = key

\* A request that is alone: there is still room, at the end of the gallery, for what
\* it adds, and the places it exchanges are as it found them.
Right(h) ==
    /\ pc[h] \in {"last", "put", "create"} /\ req[h].kind = "add" => Cardinality(Gallery) < MaxMedia
    /\ Adding(h) => \A i \in Gallery : rows[i].sortOrder < req[h].sort
    /\ pc[h] = "swapped" =>
          LET one == req[h].todo[1]
              other == req[h].todo[2]
          IN  /\ one.id \in Gallery /\ other.id \in Gallery /\ one.id # other.id
              /\ rows[one.id].sortOrder = other.sort /\ rows[other.id].sortOrder = one.sort

AloneIsRight ==
    alone => /\ \A h, o \in Handlers : pc[h] # "idle" /\ pc[o] # "idle" => h = o
             /\ \A h \in Handlers : Right(h)

Inv ==
    /\ TypeOK /\ Fits
    /\ IdsAreFresh /\ ResultsAreNew /\ PicturesAreOwn
    /\ RowsShareNothing /\ RowsAreShown /\ SlotsAreShown
    /\ GoneIsGone /\ EnqueuedIsHeld /\ FilesAreHeld
    /\ AloneIsRight /\ GalleryInOrder

-----------------------------------------------------------------------------
(* Finite sets in order *)

\* The rank of an element is the number of those before it, and its own place.
LEMMA OrderExists ==
    ASSUME NEW S, IsFiniteSet(S), NEW R,
           \A x \in S : <<x, x>> \notin R,
           \A x, y \in S : x # y => <<x, y>> \in R \/ <<y, x>> \in R,
           \A x, y, z \in S : <<x, y>> \in R /\ <<y, z>> \in R => <<x, z>> \in R
    PROVE  \E s \in SetToSeqs(S) : \A i, j \in DOMAIN s : i < j => <<s[i], s[j]>> \in R
<1> DEFINE N == Cardinality(S)
           Prior(x) == {y \in S : <<y, x>> \in R}
           rank == [x \in S |-> Cardinality(Prior(x)) + 1]
<1>1. N \in Nat /\ IsFiniteSet(1..N) /\ Cardinality(1..N) = N
  BY FS_CardinalityType, FS_Interval
<1>2. ASSUME NEW x \in S PROVE Cardinality(Prior(x)) \in Nat /\ Cardinality(Prior(x)) < N
  <2>1. /\ IsFiniteSet(Prior(x)) /\ Cardinality(Prior(x)) <= N
        /\ N = Cardinality(Prior(x)) => S = Prior(x)
    BY FS_Subset, Prior(x) \in SUBSET S
  <2>2. x \notin Prior(x)
    OBVIOUS
  <2>3. Cardinality(Prior(x)) \in Nat
    BY <2>1, FS_CardinalityType
  <2> QED  BY <2>1, <2>2, <2>3, <1>1
<1>3. ASSUME NEW x \in S, NEW y \in S, <<x, y>> \in R PROVE rank[x] < rank[y]
  <2>1. Prior(x) \in SUBSET Prior(y)
    BY <1>3
  <2>2. x \in Prior(y) /\ x \notin Prior(x)
    BY <1>3
  <2>3. IsFiniteSet(Prior(y))
    BY FS_Subset, Prior(y) \in SUBSET S
  <2>4. Cardinality(Prior(x)) <= Cardinality(Prior(y)) /\ Cardinality(Prior(x)) # Cardinality(Prior(y))
    <3> HIDE DEF Prior
    <3> QED  BY <2>1, <2>2, <2>3, FS_Subset
  <2> HIDE DEF Prior
  <2> QED  BY <2>4, <1>2
<1>4. rank \in [S -> 1..N]
  <2> HIDE DEF Prior
  <2> QED  BY <1>1, <1>2
<1>5. \A x, y \in S : rank[x] = rank[y] => x = y
  <2> SUFFICES ASSUME NEW x \in S, NEW y \in S, rank[x] = rank[y], x # y PROVE FALSE
    OBVIOUS
  <2>1. rank[x] < rank[y] \/ rank[y] < rank[x]
    <3> HIDE DEF rank
    <3> QED  BY <1>3
  <2>2. rank[x] \in Nat /\ rank[y] \in Nat
    <3> HIDE DEF rank
    <3> QED  BY <1>1, <1>4
  <2> HIDE DEF rank
  <2> QED  BY <2>1, <2>2
<1> HIDE DEF rank
<1>6. \A n \in 1..N : \E x \in S : rank[x] = n
  <2>1. rank \in Injection(S, 1..N)
    BY <1>4, <1>5, Fun_IsInj
  <2>2. rank \in Surjection(S, 1..N)
    BY <2>1, <1>1, FS_Injection
  <2> QED  BY <2>2, Fun_SurjectionProperties
<1> DEFINE s == [n \in 1..N |-> CHOOSE x \in S : rank[x] = n]
<1>7. \A n \in 1..N : s[n] \in S /\ rank[s[n]] = n
  BY <1>6
<1>8. DOMAIN s = 1..N /\ s \in [1..N -> S]
  BY <1>7
<1> HIDE DEF s
<1>9. \A i, j \in 1..N : i # j => s[i] # s[j]
  BY <1>7
<1>10. s \in SetToSeqs(S)
  BY <1>8, <1>9 DEF SetToSeqs
<1>11. ASSUME NEW i \in 1..N, NEW j \in 1..N, i < j PROVE <<s[i], s[j]>> \in R
  <2>1. s[i] # s[j]
    BY <1>9, <1>11, <1>1
  <2>2. <<s[j], s[i]>> \notin R
    <3> SUFFICES ASSUME <<s[j], s[i]>> \in R PROVE FALSE
      OBVIOUS
    <3>1. j < i
      BY <1>3, <1>7
    <3> QED  BY <3>1, <1>11, <1>1
  <2> QED  BY <2>1, <2>2, <1>7
<1> QED  BY <1>8, <1>10, <1>11

LEMMA EnumerationType ==
    ASSUME NEW S, IsFiniteSet(S), NEW s \in SetToSeqs(S)
    PROVE  /\ s \in Seq(S) /\ Len(s) = Cardinality(S) /\ DOMAIN s = 1..Cardinality(S)
           /\ \A i, j \in DOMAIN s : s[i] = s[j] => i = j
           /\ \A x \in S : \E i \in DOMAIN s : s[i] = x
<1>1. Cardinality(S) \in Nat /\ IsFiniteSet(1..Cardinality(S)) /\ Cardinality(1..Cardinality(S)) = Cardinality(S)
  BY FS_CardinalityType, FS_Interval
<1>2. s \in [1..Cardinality(S) -> S] /\ \A i, j \in 1..Cardinality(S) : i # j => s[i] # s[j]
  BY DEF SetToSeqs
<1>3. s \in Injection(1..Cardinality(S), S)
  BY <1>2, Fun_IsInj
<1>4. s \in Surjection(1..Cardinality(S), S)
  BY <1>1, <1>3, FS_Injection
<1>5. s \in Seq(S) /\ Len(s) = Cardinality(S)
  BY <1>1, <1>2
<1> QED  BY <1>2, <1>4, <1>5, Fun_SurjectionProperties

LEMMA GalleryIsFinite ==
    /\ Gallery \subseteq MediaIds /\ IsFiniteSet(Gallery)
    /\ MediaIds \subseteq Nat /\ Cardinality(MediaIds) \in Nat
<1>1. Gallery \subseteq MediaIds
  BY DEF Gallery
<1>2. IsFiniteSet(MediaIds) /\ Cardinality(MediaIds) \in Nat
  BY IdsAssumption, FS_CardinalityType
<1>3. MediaIds \subseteq Nat
  <2>1. \A n \in Nat : 1..n \subseteq Nat
    OBVIOUS
  <2> QED  BY <1>2, <2>1, IdsAssumption
<1> QED  BY <1>1, <1>2, <1>3, FS_Subset

\* The gallery in order is an enumeration of it.
LEMMA ListedEnumerates ==
    ASSUME rows \in [MediaIds -> Row \cup {None}]
    PROVE  /\ Listed \in Seq(Gallery) /\ DOMAIN Listed = 1..Len(Listed)
           /\ \A i, j \in DOMAIN Listed : Listed[i] = Listed[j] => i = j
           /\ \A x \in Gallery : \E i \in DOMAIN Listed : Listed[i] = x
<1> DEFINE R == {p \in Gallery \X Gallery : Before(p[1], p[2])}
<1>1. ASSUME NEW x \in Gallery
      PROVE  rows[x].sortOrder \in Nat /\ x \in Nat
  <2>1. rows[x] \in Row /\ x \in MediaIds
    BY <1>1 DEF Gallery
  <2> QED  BY <2>1, GalleryIsFinite DEF Row
<1>2. \A x, y \in Gallery : <<x, y>> \in R <=> Before(x, y)
  OBVIOUS
<1> HIDE DEF R
<1>3. \A x \in Gallery : <<x, x>> \notin R
  BY <1>1, <1>2 DEF Before
<1>4. \A x, y \in Gallery : x # y => <<x, y>> \in R \/ <<y, x>> \in R
  BY <1>1, <1>2 DEF Before
<1>5. \A x, y, z \in Gallery : <<x, y>> \in R /\ <<y, z>> \in R => <<x, z>> \in R
  BY <1>1, <1>2 DEF Before
<1>6. \E s \in SetToSeqs(Gallery) : \A i, j \in DOMAIN s : i < j => <<s[i], s[j]>> \in R
  <2>1. IsFiniteSet(Gallery)
    BY GalleryIsFinite
  <2> QED  BY <1>3, <1>4, <1>5, <2>1, OrderExists
<1>7. PICK s \in SetToSeqs(Gallery) : \A i, j \in DOMAIN s : i < j => <<s[i], s[j]>> \in R
  BY <1>6
<1>8. \A i, j \in DOMAIN s : s[i] \in Gallery /\ s[j] \in Gallery
  BY GalleryIsFinite, EnumerationType
<1>9. \A i, j \in DOMAIN s : i < j => Before(s[i], s[j])
  BY <1>2, <1>7, <1>8
<1>10. Listed \in SetToSeqs(Gallery)
  BY <1>9 DEF Listed, InOrder
<1> QED  BY <1>10, GalleryIsFinite, EnumerationType

LEMMA NumbersInOrder ==
    ASSUME NEW S \in SUBSET Nat, IsFiniteSet(S)
    PROVE  /\ InOrder(S, <) \in SetToSeqs(S)
           /\ \A i, j \in DOMAIN InOrder(S, <) : i < j => InOrder(S, <)[i] < InOrder(S, <)[j]
<1> DEFINE R == {p \in S \X S : p[1] < p[2]}
<1>1. \A x, y \in S : <<x, y>> \in R <=> x < y
  OBVIOUS
<1> HIDE DEF R
<1>2. /\ \A x \in S : <<x, x>> \notin R
      /\ \A x, y \in S : x # y => <<x, y>> \in R \/ <<y, x>> \in R
      /\ \A x, y, z \in S : <<x, y>> \in R /\ <<y, z>> \in R => <<x, z>> \in R
  BY <1>1
<1>3. PICK s \in SetToSeqs(S) : \A i, j \in DOMAIN s : i < j => <<s[i], s[j]>> \in R
  BY <1>2, OrderExists
<1>4. \A i, j \in DOMAIN s : s[i] \in S /\ s[j] \in S
  BY EnumerationType
<1>5. \A i, j \in DOMAIN s : i < j => s[i] < s[j]
  BY <1>1, <1>3, <1>4
<1> QED  BY <1>5 DEF InOrder

LEMMA ResumeType ==
    Resume \in Seq(MediaIds)
<1> DEFINE S == {i \in Gallery : Processing(i)}
<1>1. S \in SUBSET Gallery
  OBVIOUS
<1>2. S \in SUBSET Nat /\ IsFiniteSet(S) /\ S \in SUBSET MediaIds
  BY <1>1, GalleryIsFinite, FS_Subset
<1>3. Resume \in SetToSeqs(S)
  <2>1. Resume = InOrder(S, <)
    BY DEF Resume
  <2> HIDE DEF S
  <2> QED  BY <1>2, <2>1, NumbersInOrder
<1> HIDE DEF S
<1>4. Resume \in Seq(S)
  BY <1>2, <1>3, EnumerationType
<1> QED  BY <1>2, <1>4, SeqMonotonic

LEMMA MaxIsGreatest ==
    ASSUME NEW S \in SUBSET Nat, IsFiniteSet(S), S # {}
    PROVE  Max(S) \in S /\ \A x \in S : x <= Max(S)
<1> DEFINE s == InOrder(S, <)
<1>1. s \in SetToSeqs(S) /\ \A i, j \in DOMAIN s : i < j => s[i] < s[j]
  BY NumbersInOrder
<1> HIDE DEF s
<1>2. /\ s \in Seq(S) /\ DOMAIN s = 1..Len(s)
      /\ \A x \in S : \E i \in DOMAIN s : s[i] = x
  BY <1>1, EnumerationType
<1>3. Len(s) \in Nat /\ Len(s) # 0
  <2>1. PICK i \in DOMAIN s : s[i] \in S
    BY <1>2
  <2> QED  BY <1>2, <2>1
<1>4. Len(s) \in DOMAIN s /\ s[Len(s)] \in S
  BY <1>2, <1>3
<1>5. ASSUME NEW x \in S PROVE x <= s[Len(s)]
  <2>1. PICK i \in DOMAIN s : s[i] = x
    BY <1>2
  <2>2. i = Len(s) \/ i < Len(s)
    BY <1>2, <1>3
  <2>3. s[i] < s[Len(s)] \/ s[i] = s[Len(s)]
    BY <1>1, <1>4, <2>1, <2>2
  <2>4. x \in Nat /\ s[Len(s)] \in Nat
    BY <1>4
  <2> QED  BY <2>1, <2>3, <2>4
<1> QED  BY <1>4, <1>5 DEF Max

\* The place behind the gallery.
LEMMA NextPlaceIsLast ==
    ASSUME rows \in [MediaIds -> Row \cup {None}]
    PROVE  NextPlace \in Nat /\ \A i \in Gallery : rows[i].sortOrder < NextPlace
<1> DEFINE f == [i \in Gallery |-> rows[i].sortOrder]
           T == {rows[i].sortOrder : i \in Gallery}
<1>1. \A i \in Gallery : rows[i].sortOrder \in Nat
  <2>1. \A i \in Gallery : rows[i] \in Row
    BY DEF Gallery
  <2> QED  BY <2>1 DEF Row
<1>2. CASE Gallery = {}
  BY <1>2 DEF NextPlace
<1>3. CASE Gallery # {}
  <2>1. f \in Surjection(Gallery, T)
    BY Fun_IsSurj
  <2>2. IsFiniteSet(T)
    BY <2>1, GalleryIsFinite, FS_Surjection
  <2>3. T \in SUBSET Nat /\ T # {}
    BY <1>1, <1>3
  <2>4. NextPlace = Max(T) + 1
    BY <1>3 DEF NextPlace
  <2>5. \A i \in Gallery : rows[i].sortOrder \in T
    OBVIOUS
  <2>6. Max(T) \in T /\ \A x \in T : x <= Max(T)
    <3> HIDE DEF T
    <3> QED  BY <2>2, <2>3, MaxIsGreatest
  <2> HIDE DEF T
  <2>7. Max(T) \in Nat
    BY <2>3, <2>6
  <2>8. \A i \in Gallery : rows[i].sortOrder <= Max(T)
    BY <2>5, <2>6
  <2> QED  BY <1>1, <2>4, <2>7, <2>8
<1> QED  BY <1>2, <1>3

LEMMA MinIsElement ==
    ASSUME NEW I \in SUBSET Nat, IsFiniteSet(I), I # {}
    PROVE  Min(I) \in I
<1> DEFINE t == InOrder(I, <)
<1>2. t \in SetToSeqs(I) /\ \A i, j \in DOMAIN t : i < j => t[i] < t[j]
  BY NumbersInOrder
<1> HIDE DEF t
<1>3. t \in Seq(I) /\ DOMAIN t = 1..Len(t) /\ \A y \in I : \E i \in DOMAIN t : t[i] = y
  BY <1>2, EnumerationType
<1>4. Len(t) \in Nat /\ Len(t) # 0
  <2>1. PICK y \in I : TRUE
    OBVIOUS
  <2>2. PICK i \in DOMAIN t : t[i] = y
    BY <1>3
  <2> QED  BY <1>3, <2>2
<1>5. 1 \in DOMAIN t /\ t[1] \in I
  BY <1>3, <1>4
<1>6. ASSUME NEW y \in I PROVE t[1] <= y
  <2>1. PICK i \in DOMAIN t : t[i] = y
    BY <1>3
  <2>2. i = 1 \/ 1 < i
    BY <1>3, <1>4
  <2>3. t[1] < t[i] \/ t[1] = t[i]
    BY <1>2, <1>5, <2>1, <2>2
  <2>4. y \in Nat /\ t[1] \in Nat
    BY <1>5
  <2> QED  BY <2>1, <2>3, <2>4
<1> QED  BY <1>5, <1>6 DEF Min

-----------------------------------------------------------------------------
(* Keys *)

\* Keys tell what they are for, and whose they are.
LEMMA KeysDiffer ==
    /\ \A n : Source(n)[1] = "src" /\ Video(n)[1] = "mp4" /\ Poster(n)[1] = "poster"
    /\ \A m, n : /\ Source(m) = Source(n) => m = n
                 /\ Video(m) = Video(n) => m = n
                 /\ Poster(m) = Poster(n) => m = n
                 /\ Source(m) # Video(n) /\ Source(m) # Poster(n) /\ Video(m) # Poster(n)
    /\ \A o, n, k : k \in KeysOf(o, n) => k[1] = o
    /\ \A o, n, k : k \in (Owners \ SlotNames) \X (0..n) => k[1] \notin SlotNames
BY DEF Source, Video, Poster, KeysOf

LEMMA KeysAreGiven ==
    ASSUME NEW n \in Nat
    PROVE  /\ \A i \in 0..n : Source(i) \in Owners \X (0..n) /\ Video(i) \in Owners \X (0..n)
                                  /\ Poster(i) \in Owners \X (0..n)
           /\ \A o \in Owners : KeysOf(o, n) \subseteq Owners \X (0..n)
           /\ Owners \X (0..n) \subseteq Key
           /\ None \notin Owners \X (0..n) /\ SlotNames \subseteq Owners /\ "listing" \in Owners
<1>1. Owners \X (0..n) \subseteq Key
  BY DEF Key
<1>2. None \notin Owners \X (0..n)
  BY <1>1, NoneAssumption
<1> QED  BY <1>1, <1>2 DEF Source, Video, Poster, KeysOf, Owners, SlotNames

\* What can have been given can have been given later.
LEMMA KeysGrow ==
    ASSUME NEW m \in Nat, NEW n \in Nat, m <= n
    PROVE  /\ \A o : KeysOf(o, m) \subseteq KeysOf(o, n)
           /\ \A O : O \X (0..m) \subseteq O \X (0..n)
BY DEF KeysOf

LEMMA RowStillFits ==
    ASSUME NEW m \in Nat, NEW n \in Nat, m <= n, NEW i, NEW row, RowFits(m, i, row)
    PROVE  RowFits(n, i, row)
BY KeysGrow DEF RowFits

LEMMA StillInPlace ==
    ASSUME NEW m \in Nat, NEW n \in Nat, m <= n, NEW place, NEW r, InPlace(m, place, r)
    PROVE  InPlace(n, place, r)
<1>1. /\ \A o : KeysOf(o, m) \subseteq KeysOf(o, n)
      /\ (Owners \ SlotNames) \X (0..m) \subseteq (Owners \ SlotNames) \X (0..n)
  BY KeysGrow
<1> QED  BY <1>1, Zenon DEF InPlace

-----------------------------------------------------------------------------
(* Requests that go on, or stop, and touch no file and no row *)

Moves(h, l, r) == pc' = [pc EXCEPT ![h] = l] /\ req' = [req EXCEPT ![h] = r]

Untouched ==
    /\ UNCHANGED <<mix, listed, rows, slots, bucket, deleting, job, clock, restarts,
                   removed, twice, broken, stuck, leaked>>
    /\ queue' \in Seq(MediaIds) /\ asked' \in 0..MaxRequests /\ failures' \in 0..MaxFailures
    /\ alone' \in BOOLEAN /\ (alone' => alone)

Quiet(h, l, r) ==
    /\ Moves(h, l, r) /\ Untouched
    /\ named' = named \/ (named' = named + 1 /\ named' \in MediaIds)
    /\ l \in Label /\ InPlace(named' + clock, l, r) /\ r.kind \in mix.kinds \cup {"none"}
    /\ l \notin {"create", "enqueue", "delete", "write"} /\ pc[h] # "write"
    /\ l = "put" /\ r.kind = "add" => named' = named + 1 /\ r.id = named + 1
    /\ r.key = req[h].key \/ (r.key = None /\ pc[h] = "enqueue")
    /\ r.gone \subseteq req[h].gone \cup ({slots[k] : k \in SlotNames} \ {None})

LEMMA Types ==
    ASSUME TypeOK
    PROVE  /\ rows \in [MediaIds -> Row \cup {None}] /\ named \in Nat /\ clock \in Nat /\ Bound \in Nat
           /\ \A i \in Gallery : i \in MediaIds /\ i \in 1..named /\ rows[i] \in Row /\ rows[i] # None
           /\ \A i \in MediaIds : i \notin Gallery => rows[i] = None
           /\ asked \in Nat /\ failures \in 0..MaxFailures /\ asked \in 0..MaxRequests
           /\ MaxFailures \in Nat /\ MaxRequests \in Nat
           /\ \A i : i \in MediaIds <=> i \in 1..Cardinality(MediaIds)
           /\ Cardinality(MediaIds) \in Nat /\ named <= Cardinality(MediaIds)
<1>1. Cardinality(MediaIds) \in Nat
  BY GalleryIsFinite
<1>2. named \in 0..Cardinality(MediaIds)
  BY DEF TypeOK
<1>3. named \in Nat /\ named <= Cardinality(MediaIds)
  BY <1>1, <1>2
<1> QED  BY <1>1, <1>3, IdsAssumption, BoundsAssumption DEF TypeOK, Gallery, Bound

LEMMA IdleInPlace == \A n : InPlace(n, "idle", NoReq)
BY DEF InPlace, NoReq, ComesTo, HasKey, SlotNames

LEMMA FailureCounts ==
    ASSUME TypeOK, Broken PROVE failures' \in 0..MaxFailures
BY Types DEF Broken

LEMMA AskedRecord ==
    ASSUME NEW k, NEW f, NEW i, NEW r, r = [NoReq EXCEPT !.kind = k, !.file = f, !.id = i]
    PROVE  r = [kind |-> k, id |-> i, file |-> f, key |-> None, sort |-> 0, todo |-> <<>>, gone |-> {}]
BY DEF NoReq

LEMMA AskIsQuiet ==
    ASSUME Inv, UNCHANGED mix, NEW h \in Handlers, NEW q \in Request, Ask(h, q)
    PROVE  \E l, r : Quiet(h, l, r)
<1> DEFINE r == [NoReq EXCEPT !.kind = q.kind, !.file = q.file, !.id = q.id]
           l == CASE q.kind = "add" -> "count"
               [] q.kind \in {"up", "down"} -> "swap"
               [] q.kind = "remove" -> "find"
               [] q.kind = "removeListing" -> "list"
               [] q.kind = "icon" -> "read"
               [] q.kind = "banner" -> "put"
<1>1. q.kind \in mix.kinds /\ mix.kinds \subseteq Kinds
  BY MixesAssumption DEF Request, Inv, TypeOK
<1>2. /\ q.kind = "add" => AdmittedToGallery(q.file)
      /\ q.kind \in SlotNames => ~IsVideo(q.file)
      /\ q.kind \in {"remove", "up", "down"} => q.id \in MediaIds
      /\ q.id \in Nat
  <2>1. CASE q \in [kind : mix.kinds \cap {"add"}, file : {f \in Uploads : AdmittedToGallery(f)}, id : {0}]
    BY <2>1 DEF SlotNames
  <2>2. CASE q \in [kind : mix.kinds \cap SlotNames, file : {f \in Uploads : AdmittedAsImage(f)}, id : {0}]
    BY <2>2 DEF SlotNames, AdmittedAsImage, IsVideo
  <2>3. CASE q \in [kind : mix.kinds \cap {"remove", "up", "down"}, file : {None}, id : Gallery]
    BY <2>3, GalleryIsFinite DEF SlotNames
  <2>4. CASE q \in [kind : mix.kinds \cap {"removeListing"}, file : {None}, id : {0}]
    BY <2>4 DEF SlotNames
  <2> QED  BY <2>1, <2>2, <2>3, <2>4 DEF Request
<1>3. r = [kind |-> q.kind, id |-> q.id, file |-> q.file, key |-> None, sort |-> 0, todo |-> <<>>, gone |-> {}]
  BY AskedRecord
<1>4. /\ q.kind = "add" => l = "count"
      /\ q.kind \in {"up", "down"} => l = "swap"
      /\ q.kind = "remove" => l = "find"
      /\ q.kind = "removeListing" => l = "list"
      /\ q.kind = "icon" => l = "read"
      /\ q.kind = "banner" => l = "put"
  OBVIOUS
<1>5. Moves(h, l, r) /\ pc[h] = "idle"
  BY DEF Ask, Moves, Go
<1> HIDE DEF r, l
<1>6. l \in {"count", "swap", "find", "list", "read", "put"}
  BY <1>1, <1>4 DEF Kinds, SlotNames
<1>7. InPlace(named' + clock, l, r)
  BY <1>1, <1>2, <1>3, <1>4 DEF Kinds, SlotNames, InPlace, ComesTo, HasKey
<1>8. req[h].key = None
  <2>1. InPlace(Bound, pc[h], req[h])
    BY DEF Inv, Fits
  <2> QED  BY <2>1, <1>5 DEF InPlace, NoReq
<1>9. Quiet(h, l, r)
  <2>1. UNCHANGED <<listed, rows, slots, bucket, deleting, queue, job, clock, named, failures, restarts,
                   removed, twice, broken, stuck, leaked>>
    BY DEF Ask, disk, work, counters, world
  <2>2. asked' \in 0..MaxRequests /\ alone' \in BOOLEAN /\ (alone' => alone)
    <3>1. asked' = asked + 1 /\ asked < MaxRequests
      BY DEF Ask
    <3>2. alone' = (alone /\ \A o \in Handlers : pc[o] = "idle") /\ alone \in BOOLEAN
      BY DEF Ask, Inv, TypeOK
    <3>3. asked' \in 0..MaxRequests
      BY <3>1, Types DEF Inv
    <3> QED  BY <3>2, <3>3
  <2>3. Untouched
    BY <2>1, <2>2 DEF Inv, TypeOK, Untouched
  <2>4. r.gone = {} /\ r.key = None /\ r.kind \in mix.kinds
    BY <1>1, <1>3
  <2>5. ~(l = "put" /\ r.kind = "add")
    BY <1>3, <1>4
  <2>6. l \in Label /\ l \notin {"create", "enqueue", "delete", "write"} /\ pc[h] # "write"
    BY <1>5, <1>6 DEF Label
  <2> QED  BY <1>5, <1>7, <1>8, <2>1, <2>3, <2>4, <2>5, <2>6 DEF Quiet
<1> QED  BY <1>9

\* A request that stops here has nothing in its hands.
LEMMA StopIsQuiet ==
    ASSUME Inv, NEW h \in Handlers, Done(h), Untouched, named' = named,
           pc[h] # "write", pc[h] = "enqueue" \/ req[h].key = None
    PROVE  Quiet(h, "idle", NoReq)
<1>1. Moves(h, "idle", NoReq)
  BY DEF Done, Moves
<1>2. NoReq.gone = {} /\ NoReq.key = None /\ NoReq.kind = "none"
  BY DEF NoReq
<1> QED  BY <1>1, <1>2, IdleInPlace DEF Quiet, Label

\* What is known of a request that stands somewhere.
LEMMA Standing ==
    ASSUME Inv, NEW h \in Handlers
    PROVE  /\ InPlace(Bound, pc[h], req[h]) /\ DOMAIN req = Handlers /\ req[h].kind \in mix.kinds \cup {"none"}
           /\ req = [req EXCEPT ![h] = req[h]] /\ pc[h] \in Label /\ DOMAIN pc = Handlers
           /\ ComesTo(req[h].kind, pc[h]) /\ (~HasKey(pc[h], req[h].kind) => req[h].key = None)
BY DEF Inv, Fits, TypeOK, InPlace

LEMMA CountIsQuiet ==
    ASSUME Inv, UNCHANGED mix, NEW h \in Handlers, Count(h)
    PROVE  \E l, r : Quiet(h, l, r)
<1>1. pc[h] = "count"
  BY DEF Count
<1>2. Untouched /\ named' = named
  BY DEF Count, disk, work, counters, world, history, Inv, TypeOK, Untouched
<1>3. req[h].key = None
  BY <1>1, Standing DEF HasKey
<1>4. CASE Done(h)
  BY <1>1, <1>2, <1>3, <1>4, StopIsQuiet
<1>5. CASE Go(h, "last") /\ UNCHANGED req
  <2>1. Moves(h, "last", req[h])
    BY <1>5, Standing DEF Go, Moves
  <2>2. InPlace(Bound, "last", req[h])
    BY <1>1, Standing DEF InPlace, HasKey, ComesTo, SlotNames
  <2>3. Quiet(h, "last", req[h])
    BY <1>1, <1>2, <2>1, <2>2, Standing DEF Quiet, Label, Bound, Untouched
  <2> QED  BY <2>3
<1> QED  BY <1>4, <1>5 DEF Count

\* A request with one thing changed that it knows.
LEMMA SortAndIdUpdated ==
    ASSUME NEW q, q = [kind |-> q.kind, id |-> q.id, file |-> q.file, key |-> q.key, sort |-> q.sort, todo |-> q.todo, gone |-> q.gone],
           NEW v, NEW w, NEW r, r = [q EXCEPT !.sort = v, !.id = w]
    PROVE  r = [kind |-> r.kind, id |-> r.id, file |-> r.file, key |-> r.key, sort |-> r.sort, todo |-> r.todo, gone |-> r.gone]
           /\ r = [kind |-> q.kind, id |-> w, file |-> q.file, key |-> q.key, sort |-> v, todo |-> q.todo, gone |-> q.gone]
OBVIOUS

LEMMA KeyUpdated ==
    ASSUME NEW q, q = [kind |-> q.kind, id |-> q.id, file |-> q.file, key |-> q.key, sort |-> q.sort, todo |-> q.todo, gone |-> q.gone],
           NEW v, NEW r, r = [q EXCEPT !["key"] = v]
    PROVE  r = [kind |-> r.kind, id |-> r.id, file |-> r.file, key |-> r.key, sort |-> r.sort, todo |-> r.todo, gone |-> r.gone]
           /\ r = [kind |-> q.kind, id |-> q.id, file |-> q.file, key |-> v, sort |-> q.sort, todo |-> q.todo, gone |-> q.gone]
OBVIOUS

LEMMA GoneUpdated ==
    ASSUME NEW q, q = [kind |-> q.kind, id |-> q.id, file |-> q.file, key |-> q.key, sort |-> q.sort, todo |-> q.todo, gone |-> q.gone],
           NEW v, NEW r, r = [q EXCEPT !["gone"] = v]
    PROVE  r = [kind |-> r.kind, id |-> r.id, file |-> r.file, key |-> r.key, sort |-> r.sort, todo |-> r.todo, gone |-> r.gone]
           /\ r = [kind |-> q.kind, id |-> q.id, file |-> q.file, key |-> q.key, sort |-> q.sort, todo |-> q.todo, gone |-> v]
OBVIOUS

LEMMA TodoUpdated ==
    ASSUME NEW q, q = [kind |-> q.kind, id |-> q.id, file |-> q.file, key |-> q.key, sort |-> q.sort, todo |-> q.todo, gone |-> q.gone],
           NEW v, NEW r, r = [q EXCEPT !["todo"] = v]
    PROVE  r = [kind |-> r.kind, id |-> r.id, file |-> r.file, key |-> r.key, sort |-> r.sort, todo |-> r.todo, gone |-> r.gone]
           /\ r = [kind |-> q.kind, id |-> q.id, file |-> q.file, key |-> q.key, sort |-> q.sort, todo |-> v, gone |-> q.gone]
OBVIOUS

LEMMA IdUpdated ==
    ASSUME NEW q, q = [kind |-> q.kind, id |-> q.id, file |-> q.file, key |-> q.key, sort |-> q.sort, todo |-> q.todo, gone |-> q.gone],
           NEW v, NEW r, r = [q EXCEPT !["id"] = v]
    PROVE  r = [kind |-> r.kind, id |-> r.id, file |-> r.file, key |-> r.key, sort |-> r.sort, todo |-> r.todo, gone |-> r.gone]
           /\ r = [kind |-> q.kind, id |-> v, file |-> q.file, key |-> q.key, sort |-> q.sort, todo |-> q.todo, gone |-> q.gone]
OBVIOUS

LEMMA ReadLastIsQuiet ==
    ASSUME Inv, UNCHANGED mix, NEW h \in Handlers, ReadLast(h)
    PROVE  \E l, r : Quiet(h, l, r)
<1> DEFINE r == [req[h] EXCEPT !.sort = NextPlace, !.id = named + 1]
<1>1. pc[h] = "last" /\ Moves(h, "put", r) /\ named' = named + 1 /\ named < Cardinality(MediaIds)
  BY DEF ReadLast, Moves, Go
<1>2. Untouched
  BY DEF ReadLast, disk, work, world, history, Inv, TypeOK, Untouched
<1>3. InPlace(Bound, "last", req[h])
  BY <1>1, Standing
<1>4. named + 1 \in Nat /\ named + 1 \in MediaIds /\ NextPlace \in Nat /\ Bound + 1 \in Nat /\ Bound <= Bound + 1
  BY <1>1, Types, NextPlaceIsLast DEF Inv
<1>5. r = [kind |-> req[h].kind, id |-> named + 1, file |-> req[h].file, key |-> req[h].key,
           sort |-> NextPlace, todo |-> req[h].todo, gone |-> req[h].gone]
  <2>1. req[h] = [kind |-> req[h].kind, id |-> req[h].id, file |-> req[h].file, key |-> req[h].key, sort |-> req[h].sort, todo |-> req[h].todo, gone |-> req[h].gone]
    BY <1>3 DEF InPlace
  <2>2. r = [req[h] EXCEPT !.sort = NextPlace, !.id = named + 1]
    OBVIOUS
  <2> HIDE DEF r
  <2> QED  BY <2>1, <2>2, SortAndIdUpdated
<1> HIDE DEF r
<1>6. InPlace(Bound + 1, "put", r)
  <2>1. InPlace(Bound + 1, "last", req[h])
    BY <1>3, <1>4, StillInPlace DEF Inv, Bound, TypeOK
  <2> QED  BY <2>1, <1>4, <1>5 DEF InPlace, ComesTo, HasKey, SlotNames
<1>7. named' + clock = Bound + 1
  BY <1>1, Types DEF Inv, Bound
<1>8. r.key = req[h].key /\ r.gone = req[h].gone /\ r.kind = req[h].kind /\ r.id = named + 1
  BY <1>5
<1>9. Quiet(h, "put", r)
  BY <1>1, <1>2, <1>4, <1>6, <1>7, <1>8, Standing DEF Quiet, Label, Untouched
<1> QED  BY <1>9

LEMMA StopsAreQuiet ==
    ASSUME Inv, UNCHANGED mix, NEW h \in Handlers,
           \/ Refuse(h) \/ Enqueue(h)
           \/ Upload(h) /\ Broken /\ Done(h) /\ UNCHANGED <<bucket, clock, twice>>
           \/ Find(h) /\ rows[req[h].id] = None
           \/ DeleteRow(h) /\ Done(h) /\ (UNCHANGED failures \/ Broken) /\ UNCHANGED <<rows, leaked>>
           \/ NextOrListing(h) /\ Broken /\ Done(h) /\ UNCHANGED <<listed, rows, leaked>>
    PROVE  \E l, r : Quiet(h, l, r)
<1>1. pc[h] \in {"put", "enqueue", "find", "delete", "next"}
  BY DEF Refuse, Enqueue, Upload, Find, DeleteRow, NextOrListing
<1>2. pc[h] = "enqueue" \/ req[h].key = None
  BY <1>1, Standing DEF HasKey
<1>3. Done(h)
  BY DEF Refuse, Enqueue, Find
<1>4. queue' \in Seq(MediaIds) /\ failures' \in 0..MaxFailures
  <2>1. queue \in Seq(MediaIds) /\ failures \in 0..MaxFailures
    BY DEF Inv, TypeOK
  <2>2. CASE Refuse(h)
    BY <2>1, <2>2 DEF Refuse, work, world
  <2>3. CASE Enqueue(h)
    <3>1. InPlace(Bound, "enqueue", req[h])
      BY <2>3, Standing DEF Enqueue
    <3>2. req[h].id \in MediaIds
      BY <3>1 DEF InPlace
    <3> QED  BY <2>1, <2>3, <3>2, AppendProperties DEF Enqueue, world
  <2>4. CASE Upload(h) /\ Broken
    BY <2>1, <2>4, FailureCounts DEF Upload, work, Inv
  <2>5. CASE Find(h)
    BY <2>1, <2>5 DEF Find, work, world
  <2>6. CASE DeleteRow(h) /\ (UNCHANGED failures \/ Broken)
    BY <2>1, <2>6, FailureCounts DEF DeleteRow, work, Inv
  <2>7. CASE NextOrListing(h) /\ Broken
    BY <2>1, <2>7, FailureCounts DEF NextOrListing, work, Inv
  <2> QED  BY <2>2, <2>3, <2>4, <2>5, <2>6, <2>7
<1>5. UNCHANGED <<listed, rows, slots, bucket, deleting, job, clock, named, restarts, asked, alone,
                   removed, twice, broken, stuck, leaked>>
  BY DEF Refuse, Enqueue, Upload, Find, DeleteRow, NextOrListing, disk, work, counters, world, history
<1>6. Untouched /\ named' = named
  BY <1>4, <1>5 DEF Untouched, Inv, TypeOK
<1>7. Quiet(h, "idle", NoReq)
  BY <1>1, <1>2, <1>3, <1>6, StopIsQuiet
<1> QED  BY <1>7

LEMMA RecordStands ==
    ASSUME Inv, NEW h \in Handlers
    PROVE  req[h] = [kind |-> req[h].kind, id |-> req[h].id, file |-> req[h].file, key |-> req[h].key,
                     sort |-> req[h].sort, todo |-> req[h].todo, gone |-> req[h].gone]
<1>1. InPlace(Bound, pc[h], req[h])
  BY Standing
<1> QED  BY <1>1 DEF InPlace

LEMMA ListGalleryIsQuiet ==
    ASSUME Inv, UNCHANGED mix, NEW h \in Handlers, ListGallery(h)
    PROVE  \E l, r : Quiet(h, l, r)
<1> DEFINE r == [req[h] EXCEPT !["todo"] = Listed]
<1>1. pc[h] = "list" /\ Moves(h, "next", r)
  BY DEF ListGallery, Moves, Go, Knows
<1>2. Untouched /\ named' = named
  BY DEF ListGallery, disk, work, counters, world, history, Inv, TypeOK, Untouched
<1>3. Listed \in Seq(MediaIds)
  <2>1. Listed \in Seq(Gallery)
    BY ListedEnumerates, Types DEF Inv
  <2> QED  BY <2>1, GalleryIsFinite, SeqMonotonic
<1>4. r = [kind |-> req[h].kind, id |-> req[h].id, file |-> req[h].file, key |-> req[h].key,
           sort |-> req[h].sort, todo |-> Listed, gone |-> req[h].gone]
  BY RecordStands, TodoUpdated
<1> HIDE DEF r
<1>5. InPlace(Bound, "next", r)
  <2>1. InPlace(Bound, "list", req[h])
    BY <1>1, Standing
  <2> QED  BY <2>1, <1>3, <1>4 DEF InPlace, ComesTo, HasKey, SlotNames
<1>6. Quiet(h, "next", r)
  BY <1>1, <1>2, <1>4, <1>5, Standing DEF Quiet, Label, Bound, Untouched
<1> QED  BY <1>6

LEMMA NextIsQuiet ==
    ASSUME Inv, UNCHANGED mix, NEW h \in Handlers, NextOrListing(h), req[h].todo # <<>>
    PROVE  \E l, r : Quiet(h, l, r)
<1> DEFINE first == Head(req[h].todo)
           r == [req[h] EXCEPT !["id"] = first]
<1>1. pc[h] = "next" /\ Moves(h, "find", r)
  BY DEF NextOrListing, Moves, Go, Knows
<1>2. Untouched /\ named' = named
  BY DEF NextOrListing, disk, work, counters, Inv, TypeOK, Untouched
<1>3. InPlace(Bound, "next", req[h])
  BY <1>1, Standing
<1>4. req[h].kind = "removeListing" /\ req[h].todo \in Seq(MediaIds)
  BY <1>3 DEF InPlace, ComesTo
<1>5. first \in MediaIds
  BY <1>4, HeadTailProperties
<1> HIDE DEF first
<1>6. r = [kind |-> req[h].kind, id |-> first, file |-> req[h].file, key |-> req[h].key,
           sort |-> req[h].sort, todo |-> req[h].todo, gone |-> req[h].gone]
  <2>1. r = [req[h] EXCEPT !["id"] = first]
    OBVIOUS
  <2>2. req[h] = [kind |-> req[h].kind, id |-> req[h].id, file |-> req[h].file, key |-> req[h].key,
                  sort |-> req[h].sort, todo |-> req[h].todo, gone |-> req[h].gone]
    BY RecordStands
  <2> HIDE DEF r
  <2> QED  BY <2>1, <2>2, IdUpdated, Zenon
<1> HIDE DEF r
<1>7. InPlace(Bound, "find", r)
  BY <1>3, <1>4, <1>5, <1>6, GalleryIsFinite DEF InPlace, ComesTo, HasKey, SlotNames
<1>8. Quiet(h, "find", r)
  BY <1>1, <1>2, <1>6, <1>7, Standing DEF Quiet, Label, Bound, Untouched
<1> QED  BY <1>8

\* The neighbours that change places are two rows of the gallery.
LEMMA SwapFindsTwo ==
    ASSUME Inv, NEW h \in Handlers, Swap(h)
    PROVE  \/ Done(h)
           \/ \E i, j \in Gallery :
                /\ i # j
                /\ Moves(h, "swapped",
                         [req[h] EXCEPT !["todo"] = <<[id |-> i, sort |-> rows[j].sortOrder],
                                                      [id |-> j, sort |-> rows[i].sortOrder]>>])
<1> DEFINE found == SelectInSeq(Listed, LAMBDA i : i = req[h].id)
           with == IF req[h].kind = "up" THEN found - 1 ELSE found + 1
<1>1. /\ Listed \in Seq(Gallery) /\ DOMAIN Listed = 1..Len(Listed)
      /\ \A i, j \in DOMAIN Listed : Listed[i] = Listed[j] => i = j
  BY ListedEnumerates, Types DEF Inv
<1>2. found \in Nat /\ (found # 0 => found \in DOMAIN Listed)
  <2> DEFINE I == {i \in 1..Len(Listed) : Listed[i] = req[h].id}
  <2>1. found = IF I # {} THEN Min(I) ELSE 0
    BY DEF SelectInSeq
  <2>2. Len(Listed) \in Nat /\ I \in SUBSET (1..Len(Listed))
    BY <1>1
  <2>3. IsFiniteSet(1..Len(Listed)) /\ 1..Len(Listed) \subseteq Nat
    BY <2>2, FS_Interval
  <2> HIDE DEF I, found
  <2>4. I \in SUBSET Nat /\ IsFiniteSet(I)
    BY <2>2, <2>3, FS_Subset
  <2>5. I # {} => Min(I) \in I
    BY <2>4, MinIsElement
  <2>6. found # 0 => found \in I
    BY <2>1, <2>5
  <2>7. found \in Nat
    BY <2>1, <2>4, <2>5
  <2> QED  BY <1>1, <2>2, <2>6, <2>7
<1>3. CASE found = 0 \/ with \notin DOMAIN Listed
  BY <1>3 DEF Swap
<1>4. CASE found # 0 /\ with \in DOMAIN Listed
  <2>1. /\ Knows(h, "todo", <<[id |-> Listed[found], sort |-> rows[Listed[with]].sortOrder],
                              [id |-> Listed[with], sort |-> rows[Listed[found]].sortOrder]>>)
        /\ Go(h, "swapped")
    BY <1>4 DEF Swap
  <2>2. found # with
    BY <1>2
  <2> HIDE DEF found, with
  <2>3. Listed[found] \in Gallery /\ Listed[with] \in Gallery /\ Listed[found] # Listed[with]
    BY <1>1, <1>2, <1>4, <2>2
  <2>4. Moves(h, "swapped",
              [req[h] EXCEPT !["todo"] = <<[id |-> Listed[found], sort |-> rows[Listed[with]].sortOrder],
                                           [id |-> Listed[with], sort |-> rows[Listed[found]].sortOrder]>>])
    BY <2>1, Zenon DEF Moves, Knows, Go
  <2> QED  BY <2>3, <2>4
<1> QED  BY <1>3, <1>4

LEMMA SwapIsQuiet ==
    ASSUME Inv, UNCHANGED mix, NEW h \in Handlers, Swap(h)
    PROVE  \E l, r : Quiet(h, l, r)
<1>1. pc[h] = "swap"
  BY DEF Swap
<1>2. Untouched /\ named' = named
  BY DEF Swap, disk, work, counters, world, history, Inv, TypeOK, Untouched
<1>3. InPlace(Bound, "swap", req[h]) /\ req[h].key = None
  BY <1>1, Standing DEF HasKey
<1>4. CASE Done(h)
  BY <1>1, <1>2, <1>3, <1>4, StopIsQuiet
<1>5. ASSUME NEW i \in Gallery, NEW j \in Gallery,
             i # j,
             Moves(h, "swapped", [req[h] EXCEPT !["todo"] = <<[id |-> i, sort |-> rows[j].sortOrder],
                                                              [id |-> j, sort |-> rows[i].sortOrder]>>])
      PROVE  \E l, r : Quiet(h, l, r)
  <2> DEFINE t == <<[id |-> i, sort |-> rows[j].sortOrder], [id |-> j, sort |-> rows[i].sortOrder]>>
             r == [req[h] EXCEPT !["todo"] = t]
  <2>1. t \in Seq(PlaceOf) /\ Len(t) = 2 /\ t[1].id # t[2].id
    <3>1. rows[i].sortOrder \in Nat /\ rows[j].sortOrder \in Nat /\ i \in MediaIds /\ j \in MediaIds
      BY Types DEF Inv, Row
    <3> QED  BY <3>1, <1>5 DEF PlaceOf
  <2>2. Moves(h, "swapped", r)
    BY <1>5
  <2> HIDE DEF t
  <2>3. r = [kind |-> req[h].kind, id |-> req[h].id, file |-> req[h].file, key |-> req[h].key,
             sort |-> req[h].sort, todo |-> t, gone |-> req[h].gone]
    BY RecordStands, TodoUpdated
  <2> HIDE DEF r
  <2>4. InPlace(Bound, "swapped", r)
    BY <1>3, <2>1, <2>3 DEF InPlace, ComesTo, HasKey, SlotNames
  <2>5. Quiet(h, "swapped", r)
    BY <1>1, <1>2, <2>2, <2>3, <2>4, Standing DEF Quiet, Label, Bound, Untouched
  <2> QED  BY <2>5
<1> QED  BY <1>4, <1>5, SwapFindsTwo

LEMMA ReadSlotIsQuiet ==
    ASSUME Inv, UNCHANGED mix, NEW h \in Handlers, ReadSlot(h)
    PROVE  \E l, r : Quiet(h, l, r)
<1> DEFINE old == {slots[req[h].kind]} \ {None}
           r == [req[h] EXCEPT !["gone"] = old]
           l == IF req[h].kind = "icon" THEN "put" ELSE "replace"
<1>1. pc[h] = "read" /\ Moves(h, l, r)
  BY DEF ReadSlot, Moves, Go, Knows
<1>2. Untouched /\ named' = named
  BY DEF ReadSlot, disk, work, counters, world, history, Inv, TypeOK, Untouched
<1>3. InPlace(Bound, "read", req[h]) /\ req[h].kind \in SlotNames
  BY <1>1, Standing DEF ComesTo
<1>4. old \subseteq KeysOf(req[h].kind, Bound) /\ old \subseteq {slots[k] : k \in SlotNames} \ {None}
  BY <1>3 DEF Inv, Fits
<1> HIDE DEF old
<1>5. r = [kind |-> req[h].kind, id |-> req[h].id, file |-> req[h].file, key |-> req[h].key,
           sort |-> req[h].sort, todo |-> req[h].todo, gone |-> old]
  BY RecordStands, GoneUpdated
<1> HIDE DEF r
<1>6. InPlace(Bound, l, r)
  BY <1>3, <1>4, <1>5 DEF InPlace, ComesTo, HasKey, SlotNames
<1>7. ~(l = "put" /\ r.kind = "add")
  BY <1>3, <1>5 DEF SlotNames
<1>8. r.gone = old /\ r.key = req[h].key /\ r.kind = req[h].kind
  BY <1>5
<1>9. Quiet(h, l, r)
  BY <1>1, <1>2, <1>4, <1>6, <1>7, <1>8, Standing DEF Quiet, Label, Bound, Untouched
<1> QED  BY <1>9

-----------------------------------------------------------------------------
(* What the other steps of a request do *)

\* A file is in the bucket, under a key of its own unless somebody has it already.
Stored(h, key) ==
    /\ pc[h] = "put" /\ key \in Names(h)
    /\ Moves(h, AfterPut(h), [req[h] EXCEPT !["key"] = key])
    /\ DOMAIN bucket' = DOMAIN bucket \cup {key}
    /\ clock' = IF IsVideo(req[h].file) THEN clock ELSE key[2]
    /\ twice' = IF key \in InUse THEN twice \cup {key} ELSE twice
    /\ UNCHANGED <<mix, listed, rows, slots, deleting, queue, job, named, asked, failures, restarts,
                   removed, broken, alone, stuck, leaked>>

Created(h) ==
    /\ pc[h] = "create" /\ listed
    /\ rows' = [rows EXCEPT ![req[h].id] = NewRow(h)]
    /\ IF IsVideo(req[h].file) THEN Moves(h, "enqueue", req[h]) ELSE Moves(h, "idle", NoReq)
    /\ UNCHANGED <<mix, listed, slots, bucket, deleting, queue, job, clock, named, asked, failures, restarts,
                   removed, twice, broken, alone, stuck, leaked>>

NotCreated(h) ==
    /\ pc[h] = "create"
    /\ IF IsVideo(req[h].file) THEN Moves(h, "undo", req[h]) /\ leaked' = leaked
                               ELSE Moves(h, "idle", NoReq) /\ leaked' = leaked \cup {req[h].key}
    /\ failures' \in 0..MaxFailures
    /\ UNCHANGED <<mix, listed, rows, slots, bucket, deleting, queue, job, clock, named, asked, restarts,
                   removed, twice, broken, alone, stuck>>

Undone(h) ==
    /\ pc[h] = "undo" /\ Moves(h, "idle", NoReq)
    /\ \/ DOMAIN bucket' = DOMAIN bucket \ {req[h].key} /\ leaked' = leaked
       \/ bucket' = bucket /\ leaked' = leaked \cup {req[h].key}
    /\ failures' \in 0..MaxFailures
    /\ UNCHANGED <<mix, listed, rows, slots, deleting, queue, job, clock, named, asked, restarts,
                   removed, twice, broken, alone, stuck>>

Found(h) ==
    /\ pc[h] = "find" /\ rows[req[h].id] # None
    /\ deleting' = deleting \cup FilesOf(rows[req[h].id])
    /\ removed' = removed \cup {req[h].id}
    /\ Moves(h, "delete", [req[h] EXCEPT !["gone"] = FilesOf(rows[req[h].id])])
    /\ UNCHANGED <<mix, listed, rows, slots, bucket, queue, job, clock, named, asked, failures, restarts,
                   twice, broken, alone, stuck, leaked>>

RowDeleted(h) ==
    /\ pc[h] = "delete" /\ rows[req[h].id] # None
    /\ rows' = [rows EXCEPT ![req[h].id] = None]
    /\ leaked' = leaked \cup (FilesOf(rows[req[h].id]) \ (req[h].gone \ twice))
    /\ IF req[h].kind = "remove" THEN Moves(h, "idle", NoReq)
       ELSE Moves(h, "next", [req[h] EXCEPT !.todo = Tail(@)])
    /\ UNCHANGED <<mix, listed, slots, bucket, deleting, queue, job, clock, named, asked, failures, restarts,
                   removed, twice, broken, alone, stuck>>

ListingDeleted(h) ==
    /\ pc[h] = "next" /\ Moves(h, "idle", NoReq)
    /\ listed' = FALSE /\ rows' = [i \in MediaIds |-> None]
    /\ leaked' = leaked \cup UNION {FilesOf(rows[i]) : i \in Gallery}
    /\ UNCHANGED <<mix, slots, bucket, deleting, queue, job, clock, named, asked, failures, restarts,
                   removed, twice, broken, alone, stuck>>

\* The rows are as they were, or all there and in other places.
Exchanged(h) ==
    /\ pc[h] = "swapped" /\ Moves(h, "idle", NoReq)
    /\ LET one == req[h].todo[1]
           other == req[h].todo[2]
       IN  \/ rows' = rows
           \/ /\ rows[one.id] # None /\ rows[other.id] # None
              /\ rows' = [i \in MediaIds |->
                            IF i = one.id THEN [rows[i] EXCEPT !.sortOrder = one.sort]
                            ELSE IF i = other.id THEN [rows[i] EXCEPT !.sortOrder = other.sort]
                            ELSE rows[i]]
    /\ UNCHANGED <<mix, listed, slots, bucket, deleting, queue, job, clock, named, asked, failures, restarts,
                   removed, twice, broken, alone, stuck, leaked>>

Replaced(h) ==
    /\ pc[h] = "replace" /\ Moves(h, "write", req[h])
    /\ deleting' = deleting \cup req[h].gone
    /\ UNCHANGED <<mix, listed, rows, slots, bucket, queue, job, clock, named, asked, failures, restarts,
                   removed, twice, broken, alone, stuck, leaked>>

Written(h) ==
    /\ pc[h] = "write" /\ Moves(h, "idle", NoReq)
    /\ slots' = [slots EXCEPT ![req[h].kind] = req[h].key]
    /\ leaked' = leaked \cup ({slots[req[h].kind]} \ ({None, req[h].key} \cup (req[h].gone \ twice)))
    /\ broken' = broken \ {req[h].kind}
    /\ UNCHANGED <<mix, listed, rows, bucket, deleting, queue, job, clock, named, asked, failures, restarts,
                   removed, twice, alone, stuck>>

NotWritten(h) ==
    /\ pc[h] = "write" /\ Moves(h, "idle", NoReq)
    /\ leaked' = leaked \cup {req[h].key} /\ broken' = broken \cup {req[h].kind}
    /\ failures' \in 0..MaxFailures
    /\ UNCHANGED <<mix, listed, rows, slots, bucket, deleting, queue, job, clock, named, asked, restarts,
                   removed, twice, alone, stuck>>

LEMMA UploadEffect ==
    ASSUME Inv, UNCHANGED mix, NEW h \in Handlers, Upload(h)
    PROVE  (\E key : Stored(h, key)) \/ \E l, r : Quiet(h, l, r)
<1>1. CASE \E key \in Names(h) :
               /\ Put({key}, IF IsVideo(req[h].file) THEN req[h].file ELSE Made)
               /\ clock' = IF IsVideo(req[h].file) THEN clock ELSE key[2]
               /\ twice' = IF key \in InUse THEN twice \cup {key} ELSE twice
               /\ Knows(h, "key", key)
               /\ Go(h, AfterPut(h)) /\ UNCHANGED failures
  <2>1. PICK key \in Names(h) :
               /\ Put({key}, IF IsVideo(req[h].file) THEN req[h].file ELSE Made)
               /\ clock' = IF IsVideo(req[h].file) THEN clock ELSE key[2]
               /\ twice' = IF key \in InUse THEN twice \cup {key} ELSE twice
               /\ Knows(h, "key", key)
               /\ Go(h, AfterPut(h)) /\ UNCHANGED failures
    BY <1>1
  <2>2. DOMAIN bucket' = DOMAIN bucket \cup {key}
    BY <2>1 DEF Put
  <2>3. UNCHANGED <<listed, rows, slots, deleting, queue, job, named, asked, restarts,
                   removed, broken, alone, stuck, leaked>>
    BY DEF Upload, work
  <2>4. Moves(h, AfterPut(h), [req[h] EXCEPT !["key"] = key])
    BY <2>1, Zenon DEF Moves, Knows, Go
  <2>5. pc[h] = "put"
    BY DEF Upload
  <2>6. Stored(h, key)
    BY <2>1, <2>2, <2>3, <2>4, <2>5 DEF Stored
  <2> QED  BY <2>6
<1>2. CASE Broken /\ Done(h) /\ UNCHANGED <<bucket, clock, twice>>
  BY <1>2, StopsAreQuiet
<1> QED  BY <1>1, <1>2, Zenon DEF Upload
LEMMA NewRowIsRow ==
    ASSUME Inv, NEW h \in Handlers, pc[h] = "create"
    PROVE  /\ NewRow(h) \in Row /\ NewRow(h) # None /\ RowFits(Bound, req[h].id, NewRow(h))
           /\ FilesOf(NewRow(h)) = {req[h].key} /\ req[h].key # None
           /\ req[h].kind = "add" /\ req[h].id \in MediaIds /\ rows[req[h].id] = None /\ req[h].id \in 1..named
           /\ req[h].file.type \in {"image", "video"} /\ NewRow(h).url = req[h].key
           /\ NewRow(h).sortOrder = req[h].sort
           /\ IF IsVideo(req[h].file) THEN req[h].key = Source(req[h].id) /\ NewRow(h).status = "PROCESSING"
                                      ELSE req[h].key \in KeysOf("listing", Bound) /\ NewRow(h).status = "READY"
<1>1. InPlace(Bound, "create", req[h])
  BY Standing
<1>2. req[h].kind = "add" /\ req[h].file.type \in {"image", "video"} /\ req[h].sort \in Nat
  BY <1>1 DEF InPlace, ComesTo, AdmittedToGallery, SlotNames
<1>3. req[h].id \in MediaIds /\ rows[req[h].id] = None /\ req[h].id \in 1..named
  BY <1>2, Types DEF Inv, IdsAreFresh, Adding
<1>4. req[h].key \in Key /\ IF IsVideo(req[h].file) THEN req[h].key = Source(req[h].id)
                                                    ELSE req[h].key \in KeysOf("listing", Bound)
  <2>1. IF IsVideo(req[h].file) THEN req[h].key = Source(req[h].id)
                                ELSE req[h].key \in KeysOf("listing", Bound)
    BY <1>1, <1>2 DEF InPlace, HasKey
  <2>2. Bound \in Nat /\ req[h].id \in 0..Bound
    BY <1>3, Types DEF Inv, Bound
  <2> QED  BY <2>1, <2>2, KeysAreGiven
<1>5. req[h].key # None
  BY <1>4, NoneAssumption
<1>6. NewRow(h) \in Row
  BY <1>2, <1>4 DEF NewRow, Row
<1>7. NewRow(h) # None
  BY <1>6, NoneAssumption
<1>8. FilesOf(NewRow(h)) = {req[h].key}
  BY <1>5 DEF FilesOf, NewRow
<1> QED  BY <1>2, <1>3, <1>4, <1>5, <1>6, <1>7, <1>8 DEF RowFits, NewRow, IsVideo

LEMMA CreateEffect ==
    ASSUME Inv, UNCHANGED mix, NEW h \in Handlers, Create(h)
    PROVE  Created(h) \/ NotCreated(h)
<1>1. pc[h] = "create" /\ NewRow(h) # None /\ rows[req[h].id] = None /\ req[h].id \in MediaIds
  BY NewRowIsRow DEF Create
<1>2. UNCHANGED <<listed, slots, bucket, deleting, queue, job, clock, named, asked, restarts,
                   removed, twice, broken, alone, stuck>>
  BY DEF Create, disk, work, counters
<1>3. rows' # rows => failures' = failures /\ listed /\ rows' = [rows EXCEPT ![req[h].id] = NewRow(h)]
  BY DEF Create
<1>4. failures' \in 0..MaxFailures
  BY FailureCounts DEF Create, Inv, TypeOK
<1>5. /\ IF IsVideo(req[h].file) THEN Go(h, IF rows' # rows THEN "enqueue" ELSE "undo") /\ UNCHANGED req
                                 ELSE Done(h)
      /\ leaked' = IF rows' # rows \/ IsVideo(req[h].file) THEN leaked ELSE leaked \cup {req[h].key}
  BY DEF Create
<1>6. IF IsVideo(req[h].file) THEN Moves(h, IF rows' # rows THEN "enqueue" ELSE "undo", req[h])
                              ELSE Moves(h, "idle", NoReq)
  BY <1>5, Standing DEF Go, Done, Moves
<1>7. CASE rows' # rows
  BY <1>1, <1>2, <1>3, <1>5, <1>6, <1>7 DEF Created
<1>8. CASE rows' = rows
  BY <1>1, <1>2, <1>4, <1>5, <1>6, <1>8 DEF NotCreated
<1> QED  BY <1>7, <1>8

LEMMA UndoEffect ==
    ASSUME Inv, UNCHANGED mix, NEW h \in Handlers, Undo(h)
    PROVE  Undone(h)
<1>1. failures' \in 0..MaxFailures
  BY FailureCounts DEF Undo, Inv, TypeOK
<1>2. DOMAIN Without({req[h].key}) = DOMAIN bucket \ {req[h].key}
  BY DEF Without
<1> QED  BY <1>1, <1>2 DEF Undo, Undone, Moves, Done, work, counters

LEMMA FindEffect ==
    ASSUME Inv, UNCHANGED mix, NEW h \in Handlers, Find(h)
    PROVE  Found(h) \/ \E l, r : Quiet(h, l, r)
<1>1. CASE rows[req[h].id] = None
  BY <1>1, StopsAreQuiet
<1>2. CASE rows[req[h].id] # None
  BY <1>2 DEF Find, Found, Moves, Knows, Go, work, counters, world
<1> QED  BY <1>1, <1>2

LEMMA DeleteRowEffect ==
    ASSUME Inv, UNCHANGED mix, NEW h \in Handlers, DeleteRow(h)
    PROVE  RowDeleted(h) \/ \E l, r : Quiet(h, l, r)
<1>1. CASE Done(h) /\ (UNCHANGED failures \/ Broken) /\ UNCHANGED <<rows, leaked>>
  BY <1>1, StopsAreQuiet
<1>2. CASE /\ rows[req[h].id] # None
           /\ rows' = [rows EXCEPT ![req[h].id] = None]
           /\ leaked' = leaked \cup (FilesOf(rows[req[h].id]) \ (req[h].gone \ twice))
           /\ IF req[h].kind = "remove" THEN Done(h)
              ELSE /\ req' = [req EXCEPT ![h].todo = Tail(@)]
                   /\ Go(h, "next")
           /\ UNCHANGED failures
  BY <1>2 DEF DeleteRow, RowDeleted, Moves, Done, Go, disk, work, counters
<1> QED  BY <1>1, <1>2 DEF DeleteRow

LEMMA NextOrListingEffect ==
    ASSUME Inv, UNCHANGED mix, NEW h \in Handlers, NextOrListing(h)
    PROVE  ListingDeleted(h) \/ \E l, r : Quiet(h, l, r)
<1>1. CASE req[h].todo # <<>>
  BY <1>1, NextIsQuiet
<1>2. CASE Broken /\ Done(h) /\ UNCHANGED <<listed, rows, leaked>>
  BY <1>2, StopsAreQuiet
<1>3. CASE /\ listed' = FALSE
           /\ rows' = [i \in MediaIds |-> None]
           /\ leaked' = leaked \cup UNION {FilesOf(rows[i]) : i \in Gallery}
           /\ Done(h)
           /\ UNCHANGED failures
  BY <1>3 DEF NextOrListing, ListingDeleted, Moves, Done, disk, work, counters
<1> QED  BY <1>1, <1>2, <1>3 DEF NextOrListing

LEMMA SwappedEffect ==
    ASSUME Inv, UNCHANGED mix, NEW h \in Handlers, Swapped(h)
    PROVE  Exchanged(h)
<1> DEFINE t == req[h].todo
           one == t[1]
           other == t[2]
<1>1. pc[h] = "swapped" /\ InPlace(Bound, "swapped", req[h])
  BY Standing DEF Swapped
<1>2. t \in Seq(PlaceOf) /\ Len(t) = 2 /\ one.id # other.id
  BY <1>1 DEF InPlace
<1>3. DOMAIN t = {1, 2}
  BY <1>2
<1>4. Range(t) = {one, other}
  BY <1>3 DEF Range
<1>5. rows' = IF \E n \in Range(t) : rows[n.id] = None THEN rows
              ELSE [i \in MediaIds |->
                            IF \E n \in Range(t) : n.id = i
                            THEN [rows[i] EXCEPT !.sortOrder = (CHOOSE n \in Range(t) : n.id = i).sort]
                            ELSE rows[i]]
  BY DEF Swapped
<1>6. CASE \E n \in {one, other} : rows[n.id] = None
  <2>1. rows' = rows
    BY <1>4, <1>5, <1>6
  <2> QED  BY <1>1, <2>1 DEF Swapped, Exchanged, Moves, Done, disk, work, counters, world, history
<1>7. CASE rows[one.id] # None /\ rows[other.id] # None
  <2>1. \A i : (\E n \in {one, other} : n.id = i) <=> i = one.id \/ i = other.id
    OBVIOUS
  <2>2. (CHOOSE n \in {one, other} : n.id = one.id) = one
    BY <1>2
  <2>3. (CHOOSE n \in {one, other} : n.id = other.id) = other
    BY <1>2
  <2> HIDE DEF one, other
  <2>4. rows' = [i \in MediaIds |->
                            IF \E n \in {one, other} : n.id = i
                            THEN [rows[i] EXCEPT !.sortOrder = (CHOOSE n \in {one, other} : n.id = i).sort]
                            ELSE rows[i]]
    BY <1>4, <1>5, <1>7
  <2>5. rows' = [i \in MediaIds |->
                            IF i = one.id THEN [rows[i] EXCEPT !.sortOrder = one.sort]
                            ELSE IF i = other.id THEN [rows[i] EXCEPT !.sortOrder = other.sort]
                            ELSE rows[i]]
    BY <2>1, <2>2, <2>3, <2>4
  <2> USE DEF one, other
  <2> QED  BY <1>1, <1>7, <2>5 DEF Swapped, Exchanged, Moves, Done, disk, work, counters, world, history
<1> QED  BY <1>6, <1>7

LEMMA ReplaceEffect ==
    ASSUME Inv, UNCHANGED mix, NEW h \in Handlers, Replace(h)
    PROVE  Replaced(h)
<1>1. req' = [req EXCEPT ![h] = req[h]]
  BY Standing DEF Replace
<1> QED  BY <1>1 DEF Replace, Replaced, Moves, Go, work, counters, world, history

LEMMA WriteSlotEffect ==
    ASSUME Inv, UNCHANGED mix, NEW h \in Handlers, WriteSlot(h)
    PROVE  Written(h) \/ NotWritten(h)
<1>1. failures' \in 0..MaxFailures
  BY FailureCounts DEF WriteSlot, Inv, TypeOK
<1> QED  BY <1>1 DEF WriteSlot, Written, NotWritten, Moves, Done, disk, work, counters

Loud(h) ==
    \/ \E key : Stored(h, key)
    \/ Created(h) \/ NotCreated(h) \/ Undone(h)
    \/ Found(h) \/ RowDeleted(h) \/ ListingDeleted(h) \/ Exchanged(h)
    \/ Replaced(h) \/ Written(h) \/ NotWritten(h)

LEMMA StepsAreSorted ==
    ASSUME Inv, UNCHANGED mix, NEW h \in Handlers, Step(h)
    PROVE  Loud(h) \/ \E l, r : Quiet(h, l, r)
<1>1. CASE Count(h) \/ ReadLast(h) \/ Refuse(h) \/ Enqueue(h) \/ ListGallery(h) \/ Swap(h) \/ ReadSlot(h)
  <2>1. Refuse(h) \/ Enqueue(h) => \E l, r : Quiet(h, l, r)
    BY StopsAreQuiet
  <2> QED  BY <1>1, <2>1, CountIsQuiet, ReadLastIsQuiet, ListGalleryIsQuiet, SwapIsQuiet, ReadSlotIsQuiet
<1>2. CASE Upload(h)
  BY <1>2, UploadEffect DEF Loud
<1>3. CASE Create(h) \/ Undo(h) \/ Swapped(h) \/ Replace(h) \/ WriteSlot(h)
  BY <1>3, CreateEffect, UndoEffect, SwappedEffect, ReplaceEffect, WriteSlotEffect DEF Loud
<1>4. CASE Find(h) \/ DeleteRow(h) \/ NextOrListing(h)
  BY <1>4, FindEffect, DeleteRowEffect, NextOrListingEffect DEF Loud
<1> QED  BY <1>1, <1>2, <1>3, <1>4 DEF Step

-----------------------------------------------------------------------------
(* Requests stay where they can be *)

\* What a request goes on with.
GoesOn(h, l, r) ==
    /\ Moves(h, l, r) /\ l \in Label /\ r.kind \in mix.kinds \cup {"none"}
    /\ InPlace(Bound', l, r)

LEMMA GoneOn ==
    ASSUME Inv, NEW h \in Handlers, NEW l, NEW r, GoesOn(h, l, r),
           Bound' \in Nat, Bound <= Bound'
    PROVE  /\ pc' \in [Handlers -> Label]
           /\ DOMAIN req' = Handlers /\ req' = [o \in Handlers |-> req'[o]]
           /\ \A o \in Handlers : InPlace(Bound', pc'[o], req'[o]) /\ req'[o].kind \in mix.kinds \cup {"none"}
<1>1. /\ pc \in [Handlers -> Label] /\ DOMAIN req = Handlers /\ req = [o \in Handlers |-> req[o]]
      /\ \A o \in Handlers : InPlace(Bound, pc[o], req[o]) /\ req[o].kind \in mix.kinds \cup {"none"}
  BY DEF Inv, Fits, TypeOK
<1>2. /\ pc' \in [Handlers -> Label] /\ pc'[h] = l /\ \A o \in Handlers \ {h} : pc'[o] = pc[o]
  BY <1>1 DEF GoesOn, Moves
<1>3. /\ DOMAIN req' = Handlers /\ req'[h] = r /\ \A o \in Handlers \ {h} : req'[o] = req[o]
      /\ req' = [o \in Handlers |-> req'[o]]
  BY <1>1 DEF GoesOn, Moves
<1>4. ASSUME NEW o \in Handlers
      PROVE  InPlace(Bound', pc'[o], req'[o]) /\ req'[o].kind \in mix.kinds \cup {"none"}
  <2>1. CASE o = h
    BY <2>1, <1>2, <1>3 DEF GoesOn
  <2>2. CASE o # h
    <3>1. InPlace(Bound, pc[o], req[o])
      BY <1>1
    <3>2. Bound \in Nat
      BY Types DEF Inv
    <3>3. InPlace(Bound', pc[o], req[o])
      BY <3>1, <3>2, StillInPlace
    <3> QED  BY <2>2, <1>1, <1>2, <1>3, <3>3
  <2> QED  BY <2>1, <2>2
<1> QED  BY <1>2, <1>3, <1>4

LEMMA QuietGoesOn ==
    ASSUME Inv, NEW h \in Handlers, NEW l, NEW r, Quiet(h, l, r)
    PROVE  GoesOn(h, l, r) /\ Bound' \in Nat /\ Bound <= Bound'
<1>1. Bound' = named' + clock /\ mix' = mix
  BY DEF Quiet, Untouched, Bound
<1> QED  BY <1>1, Types DEF Inv, Quiet, GoesOn, Bound, Untouched

\* A picture is named by a millisecond that has come or is next.
LEMMA NamesGiven ==
    ASSUME Inv, NEW h \in Handlers, NEW key, Stored(h, key)
    PROVE  /\ clock' \in Nat /\ clock <= clock' /\ Bound' \in Nat /\ Bound <= Bound' /\ named' = named
           /\ req[h].kind \in {"add"} \cup SlotNames /\ InPlace(Bound, "put", req[h])
           /\ IF IsVideo(req[h].file)
              THEN req[h].kind = "add" /\ key = Source(req[h].id) /\ req[h].id \in 1..named /\ clock' = clock
                   /\ key \in KeysOf("src", Bound')
              ELSE key \in KeysOf(IF req[h].kind = "add" THEN "listing" ELSE req[h].kind, Bound')
<1>1. pc[h] = "put" /\ key \in Names(h) /\ named' = named
      /\ clock' = IF IsVideo(req[h].file) THEN clock ELSE key[2]
  BY DEF Stored
<1>2. InPlace(Bound, "put", req[h])
  BY <1>1, Standing
<1>3. req[h].kind \in {"add"} \cup SlotNames /\ (IsVideo(req[h].file) => req[h].kind = "add")
  BY <1>2 DEF InPlace, ComesTo
<1>4. clock \in Nat /\ named \in Nat
  BY Types DEF Inv
<1>5. CASE IsVideo(req[h].file)
  <2>1. key = Source(req[h].id) /\ clock' = clock /\ req[h].kind = "add"
    BY <1>1, <1>3, <1>5 DEF Names
  <2>2. req[h].id \in 1..named
    BY <1>1, <2>1, Types DEF Inv, IdsAreFresh, Adding
  <2>3. key \in KeysOf("src", Bound')
    BY <1>1, <1>4, <2>1, <2>2 DEF KeysOf, Source, Bound
  <2> QED  BY <1>1, <1>2, <1>3, <1>4, <1>5, <2>1, <2>2, <2>3 DEF Bound
<1>6. CASE ~IsVideo(req[h].file)
  <2>1. PICK ms \in {clock, clock + 1} : key = Picture(Owner(h), ms)
    BY <1>1, <1>6 DEF Names
  <2>2. key = <<Owner(h), ms>> /\ key[2] = ms
    BY <2>1 DEF Picture
  <2>3. clock' = ms /\ ms \in Nat
    BY <1>1, <1>4, <1>6, <2>1, <2>2
  <2>4. Bound' = named + ms /\ Bound = named + clock
    BY <1>1, <2>3 DEF Bound
  <2>5. Owner(h) = IF req[h].kind = "add" THEN "listing" ELSE req[h].kind
    BY DEF Owner
  <2>6. ms \in 0..Bound'
    BY <1>4, <2>3, <2>4
  <2>7. Bound' \in Nat /\ Bound <= Bound' /\ clock <= clock'
    BY <1>4, <2>1, <2>3, <2>4
  <2> QED  BY <1>1, <1>2, <1>3, <1>6, <2>2, <2>3, <2>5, <2>6, <2>7 DEF KeysOf
<1> QED  BY <1>5, <1>6

LEMMA StoredGoesOn ==
    ASSUME Inv, UNCHANGED mix, NEW h \in Handlers, NEW key, Stored(h, key)
    PROVE  \E r : /\ GoesOn(h, AfterPut(h), r) /\ r.key = key /\ r.kind = req[h].kind /\ r.id = req[h].id
                  /\ r.gone = req[h].gone /\ r.file = req[h].file /\ r.sort = req[h].sort
<1> DEFINE r == [req[h] EXCEPT !["key"] = key]
           l == AfterPut(h)
<1>1. Moves(h, l, r)
  BY DEF Stored
<1>2. r = [kind |-> req[h].kind, id |-> req[h].id, file |-> req[h].file, key |-> key,
           sort |-> req[h].sort, todo |-> req[h].todo, gone |-> req[h].gone]
  BY RecordStands, KeyUpdated
<1> HIDE DEF r
<1>3. /\ req[h].kind = "add" => l = "create"
      /\ req[h].kind = "icon" => l = "replace"
      /\ req[h].kind = "banner" => l = "read"
  BY DEF AfterPut
<1> HIDE DEF l
<1>4. req[h].kind \in {"add", "icon", "banner"}
  BY NamesGiven DEF SlotNames
<1>5. InPlace(Bound', "put", req[h])
  BY NamesGiven, StillInPlace, Types DEF Inv
<1>6. InPlace(Bound', l, r)
  BY <1>2, <1>3, <1>4, <1>5, NamesGiven DEF InPlace, ComesTo, HasKey, SlotNames
<1>7. GoesOn(h, l, r)
  BY <1>1, <1>2, <1>3, <1>4, <1>6, Standing DEF GoesOn, Label
<1> QED  BY <1>2, <1>7 DEF l

LEMMA OthersGoOn ==
    ASSUME Inv, UNCHANGED mix, NEW h \in Handlers,
           Loud(h), ~\E key : Stored(h, key)
    PROVE  Bound' = Bound /\ \E l, r : GoesOn(h, l, r) /\ (Created(h) => r.key \in {req[h].key, None})
<1>1. Bound' = Bound
  BY DEF Loud, Created, NotCreated, Undone, Found, RowDeleted, ListingDeleted, Exchanged, Replaced, Written, NotWritten, Bound
<1>2. Moves(h, "idle", NoReq) => GoesOn(h, "idle", NoReq) /\ NoReq.key = None
  BY <1>1, IdleInPlace DEF GoesOn, Label, NoReq
<1>3. CASE Undone(h) \/ ListingDeleted(h) \/ Exchanged(h) \/ Written(h) \/ NotWritten(h)
  <2>1. ~Created(h)
    BY <1>3 DEF Undone, ListingDeleted, Exchanged, Written, NotWritten, Created
  <2> QED  BY <1>1, <1>2, <1>3, <2>1 DEF Undone, ListingDeleted, Exchanged, Written, NotWritten
<1>4. CASE Created(h) \/ NotCreated(h)
  <2>1. pc[h] = "create" /\ InPlace(Bound, "create", req[h])
    BY <1>4, Standing DEF Created, NotCreated
  <2>2. CASE IsVideo(req[h].file)
    <3>1. Moves(h, "enqueue", req[h]) \/ Moves(h, "undo", req[h])
      BY <1>4, <2>2 DEF Created, NotCreated
    <3>2. req[h].kind = "add" /\ req[h].id \in MediaIds
      BY <2>1, NewRowIsRow
    <3>3. InPlace(Bound, "enqueue", req[h]) /\ InPlace(Bound, "undo", req[h])
      BY <2>1, <2>2, <3>2 DEF InPlace, ComesTo, HasKey, SlotNames
    <3> QED  BY <1>1, <3>1, <3>3, Standing DEF GoesOn, Label
  <2>3. CASE ~IsVideo(req[h].file)
    BY <1>1, <1>2, <1>4, <2>3 DEF Created, NotCreated
  <2> QED  BY <2>2, <2>3
<1>5. CASE Found(h)
  <2> DEFINE files == FilesOf(rows[req[h].id])
             r == [req[h] EXCEPT !["gone"] = files]
  <2>1. pc[h] = "find" /\ InPlace(Bound, "find", req[h]) /\ Moves(h, "delete", r) /\ rows[req[h].id] # None
    BY <1>5, Standing DEF Found
  <2>2. req[h].id \in Gallery /\ req[h].kind \in {"remove", "removeListing"}
    BY <2>1 DEF InPlace, Gallery, ComesTo
  <2>3. files \subseteq (Owners \ SlotNames) \X (0..Bound)
    <3>1. RowFits(Bound, req[h].id, rows[req[h].id]) /\ req[h].id \in 0..Bound
      BY <2>2, Types DEF Inv, Fits, Bound
    <3> QED  BY <3>1 DEF FilesOf, RowFits, KeysOf, Source, Video, Poster, Owners, SlotNames
  <2> HIDE DEF files
  <2>4. r = [kind |-> req[h].kind, id |-> req[h].id, file |-> req[h].file, key |-> req[h].key,
             sort |-> req[h].sort, todo |-> req[h].todo, gone |-> files]
    BY RecordStands, GoneUpdated
  <2> HIDE DEF r
  <2>5. InPlace(Bound, "delete", r)
    BY <2>1, <2>2, <2>3, <2>4 DEF InPlace, ComesTo, HasKey, SlotNames
  <2>6. r.kind = req[h].kind /\ r.key = req[h].key
    BY <2>4
  <2> QED  BY <1>1, <2>1, <2>5, <2>6, Standing DEF GoesOn, Label
<1>6. CASE RowDeleted(h)
  <2>1. CASE req[h].kind = "remove"
    BY <1>1, <1>2, <1>6, <2>1 DEF RowDeleted, Created
  <2>2. CASE req[h].kind # "remove"
    <3> DEFINE rest == Tail(req[h].todo)
               r == [req[h] EXCEPT !["todo"] = rest]
    <3>1. pc[h] = "delete" /\ InPlace(Bound, "delete", req[h]) /\ Moves(h, "next", r)
      BY <1>6, <2>2, Standing DEF RowDeleted
    <3>2. req[h].kind = "removeListing" /\ req[h].todo \in Seq(MediaIds) /\ req[h].todo # <<>>
      BY <2>2, <3>1 DEF InPlace, ComesTo
    <3>3. rest \in Seq(MediaIds)
      BY <3>2, HeadTailProperties
    <3> HIDE DEF rest
    <3>4. r = [kind |-> req[h].kind, id |-> req[h].id, file |-> req[h].file, key |-> req[h].key,
               sort |-> req[h].sort, todo |-> rest, gone |-> req[h].gone]
      BY RecordStands, TodoUpdated
    <3> HIDE DEF r
    <3>5. InPlace(Bound, "next", r)
      BY <3>1, <3>2, <3>3, <3>4 DEF InPlace, ComesTo, HasKey, SlotNames
    <3>6. r.kind = req[h].kind /\ r.key = req[h].key
      BY <3>4
    <3> QED  BY <1>1, <3>1, <3>5, <3>6, Standing DEF GoesOn, Label
  <2> QED  BY <2>1, <2>2
<1>7. CASE Replaced(h)
  <2>1. pc[h] = "replace" /\ InPlace(Bound, "replace", req[h]) /\ Moves(h, "write", req[h])
    BY <1>7, Standing DEF Replaced
  <2>2. InPlace(Bound, "write", req[h])
    BY <2>1 DEF InPlace, ComesTo, HasKey, SlotNames
  <2> QED  BY <1>1, <2>1, <2>2, Standing DEF GoesOn, Label
<1> QED  BY <1>3, <1>4, <1>5, <1>6, <1>7 DEF Loud

-----------------------------------------------------------------------------
(* What the worker does *)

WorkFrame ==
    /\ UNCHANGED <<mix, listed, slots, deleting, pc, req, asked, clock, named, restarts,
                   removed, twice, broken, alone>>
    /\ queue' \in Seq(MediaIds) /\ stuck' \subseteq MediaIds /\ failures' \in 0..MaxFailures

JobMoves(step, next) ==
    /\ job.pc = step
    /\ job' = [pc |-> next, id |-> job.id, src |-> Source(job.id)]

Taken ==
    /\ job.pc = "idle"
    /\ \/ job' = NoJob
       \/ \E i \in Gallery : Processing(i) /\ job' = [pc |-> "transcode", id |-> i, src |-> Source(i)]
    /\ UNCHANGED <<rows, bucket, leaked>>

Transcoded ==
    /\ JobMoves("transcode", "upload") \/ JobMoves("transcode", "fail")
    /\ UNCHANGED <<rows, bucket, leaked>>

MadeAll ==
    /\ JobMoves("upload", "update")
    /\ DOMAIN bucket' = DOMAIN bucket \cup Results
    /\ UNCHANGED <<rows, leaked>>

MadeSome ==
    /\ JobMoves("upload", "fail")
    /\ \E some \in SUBSET Results : DOMAIN bucket' = DOMAIN bucket \cup some /\ leaked' = leaked \cup some
    /\ UNCHANGED rows

Finished ==
    /\ JobMoves("update", "clean") /\ Processing(job.id)
    /\ rows' = [rows EXCEPT ![job.id] = [type |-> "video", url |-> Video(job.id), posterUrl |-> Poster(job.id),
                                          status |-> "READY", sortOrder |-> rows[job.id].sortOrder]]
    /\ UNCHANGED <<bucket, leaked>>

TooLate ==
    /\ JobMoves("update", "withdraw") /\ ~Processing(job.id)
    /\ UNCHANGED <<rows, bucket, leaked>>

NotFinished ==
    /\ JobMoves("update", "fail") /\ leaked' = leaked \cup Results
    /\ UNCHANGED <<rows, bucket>>

TakenBack ==
    /\ JobMoves("withdraw", "clean")
    /\ \E kept \in SUBSET Results : DOMAIN bucket' = DOMAIN bucket \ (Results \ kept) /\ leaked' = leaked \cup kept
    /\ UNCHANGED rows

Failed ==
    /\ JobMoves("fail", "clean")
    /\ \/ rows' = rows
       \/ /\ Processing(job.id)
          /\ rows' = [rows EXCEPT ![job.id] = [type |-> "video", url |-> Source(job.id), posterUrl |-> None,
                                                status |-> "FAILED", sortOrder |-> rows[job.id].sortOrder]]
    /\ UNCHANGED <<bucket, leaked>>

Cleaned ==
    /\ job.pc = "clean" /\ job' = NoJob
    /\ \/ DOMAIN bucket' = DOMAIN bucket \ {job.src} /\ leaked' = leaked
       \/ bucket' = bucket /\ leaked' = leaked \cup {job.src}
    /\ UNCHANGED rows

AtWork ==
    \/ Taken \/ Transcoded \/ MadeAll \/ MadeSome \/ Finished \/ TooLate \/ NotFinished
    \/ TakenBack \/ Failed \/ Cleaned

LEMMA JobStands ==
    ASSUME Inv, job.pc # "idle"
    PROVE  /\ job = [pc |-> job.pc, id |-> job.id, src |-> Source(job.id)]
           /\ job.id \in MediaIds /\ job.id <= named /\ job.src = Source(job.id)
           /\ job.pc \notin {"withdraw", "clean"} => rows[job.id] = None \/ Processing(job.id)
           /\ job.pc = "withdraw" => rows[job.id] = None
           /\ job.pc = "update" => Results \subseteq DOMAIN bucket
<1>1. job # NoJob
  BY DEF NoJob
<1>2. job = [pc |-> job.pc, id |-> job.id, src |-> Source(job.id)]
  BY <1>1 DEF Inv, Fits, JobFits
<1>3. job.src = Source(job.id)
  BY <1>2
<1> QED  BY <1>1, <1>2, <1>3 DEF Inv, Fits, JobFits

LEMMA WorkerMoves ==
    ASSUME Inv, NEW step, NEW next, Worker(step, next), step # "idle"
    PROVE  JobMoves(step, next) /\ job.id \in MediaIds
<1>1. job.pc = step /\ job' = [job EXCEPT !.pc = next]
  BY DEF Worker
<1>2. job = [pc |-> job.pc, id |-> job.id, src |-> Source(job.id)] /\ job.id \in MediaIds
  BY <1>1, JobStands
<1>3. job' = [pc |-> next, id |-> job.id, src |-> Source(job.id)]
  BY <1>1, <1>2
<1> QED  BY <1>1, <1>2, <1>3 DEF JobMoves

\* What is PROCESSING names its source.
LEMMA ProcessingRow ==
    ASSUME Inv, NEW i \in MediaIds, Processing(i)
    PROVE  /\ i \in Gallery /\ rows[i] \in Row
           /\ rows[i] = [type |-> "video", url |-> Source(i), posterUrl |-> None,
                         status |-> "PROCESSING", sortOrder |-> rows[i].sortOrder]
<1>1. i \in Gallery /\ rows[i].status = "PROCESSING"
  BY DEF Processing, Gallery
<1>2. rows[i] \in Row /\ RowFits(Bound, i, rows[i])
  BY <1>1, Types DEF Inv, Fits
<1>3. rows[i] = [type |-> rows[i].type, url |-> rows[i].url, posterUrl |-> rows[i].posterUrl,
                 status |-> rows[i].status, sortOrder |-> rows[i].sortOrder]
  BY <1>2 DEF Row
<1>4. rows[i].type = "video" /\ rows[i].url = Source(i) /\ rows[i].posterUrl = None
  BY <1>1, <1>2 DEF RowFits
<1> QED  BY <1>1, <1>2, <1>3, <1>4

LEMMA RowFinished ==
    ASSUME NEW i \in DOMAIN rows,
           rows[i] = [type |-> "video", url |-> Source(i), posterUrl |-> None,
                      status |-> "PROCESSING", sortOrder |-> rows[i].sortOrder],
           rows' = [rows EXCEPT ![i].url = Video(i), ![i].posterUrl = Poster(i), ![i].status = "READY"]
    PROVE  rows' = [rows EXCEPT ![i] = [type |-> "video", url |-> Video(i), posterUrl |-> Poster(i),
                                        status |-> "READY", sortOrder |-> rows[i].sortOrder]]
<1> DEFINE place == rows[i].sortOrder
           q1 == [rows[i] EXCEPT !.url = Video(i)]
           q2 == [q1 EXCEPT !.posterUrl = Poster(i)]
           q3 == [q2 EXCEPT !.status = "READY"]
<1>1. rows'[i] = q3 /\ rows' = [rows EXCEPT ![i] = q3]
  OBVIOUS
<1>2. rows[i] = [type |-> "video", url |-> Source(i), posterUrl |-> None, status |-> "PROCESSING", sortOrder |-> place]
  OBVIOUS
<1> HIDE DEF place
<1>3. q1 = [type |-> "video", url |-> Video(i), posterUrl |-> None, status |-> "PROCESSING", sortOrder |-> place]
  BY <1>2
<1> HIDE DEF q1
<1>4. q2 = [type |-> "video", url |-> Video(i), posterUrl |-> Poster(i), status |-> "PROCESSING", sortOrder |-> place]
  BY <1>3
<1> HIDE DEF q2
<1>5. q3 = [type |-> "video", url |-> Video(i), posterUrl |-> Poster(i), status |-> "READY", sortOrder |-> place]
  BY <1>4
<1> HIDE DEF q3
<1> QED  BY <1>1, <1>5 DEF place

LEMMA RowFailed ==
    ASSUME NEW i \in DOMAIN rows,
           rows[i] = [type |-> "video", url |-> Source(i), posterUrl |-> None,
                      status |-> "PROCESSING", sortOrder |-> rows[i].sortOrder],
           rows' = [rows EXCEPT ![i].status = "FAILED"]
    PROVE  rows' = [rows EXCEPT ![i] = [type |-> "video", url |-> Source(i), posterUrl |-> None,
                                        status |-> "FAILED", sortOrder |-> rows[i].sortOrder]]
<1> DEFINE place == rows[i].sortOrder
           q == [rows[i] EXCEPT !.status = "FAILED"]
<1>1. rows'[i] = q /\ rows' = [rows EXCEPT ![i] = q]
  OBVIOUS
<1>2. rows[i] = [type |-> "video", url |-> Source(i), posterUrl |-> None, status |-> "PROCESSING", sortOrder |-> place]
  OBVIOUS
<1> HIDE DEF place
<1>3. q = [type |-> "video", url |-> Source(i), posterUrl |-> None, status |-> "FAILED", sortOrder |-> place]
  BY <1>2
<1> HIDE DEF q
<1> QED  BY <1>1, <1>3 DEF place

LEMMA FrameOfWork ==
    ASSUME Inv, UNCHANGED mix, Work
    PROVE  WorkFrame
<1>1. UNCHANGED <<mix, listed, slots, deleting, pc, req, asked, clock, named, restarts,
                   removed, twice, broken, alone>>
  BY DEF Work, StartJob, Transcode, UploadResults, FinishRow, Withdraw, FailRow, CleanSource,
         WorkerOnly, requests, counters
<1>2. queue \in Seq(MediaIds) /\ stuck \subseteq MediaIds /\ failures \in 0..MaxFailures
  BY DEF Inv, TypeOK
<1>3. failures' \in 0..MaxFailures
  <2>1. failures' = failures \/ Broken
    BY DEF Work, StartJob, Transcode, UploadResults, FinishRow, Withdraw, FailRow, CleanSource
  <2> QED  BY <1>2, <2>1, FailureCounts DEF Inv
<1>4. CASE StartJob
  <2>1. queue' = Tail(queue) /\ (stuck' = stuck \/ stuck' = stuck \cup {Head(queue)}) /\ queue # <<>>
    BY <1>4 DEF StartJob
  <2>2. Tail(queue) \in Seq(MediaIds) /\ Head(queue) \in MediaIds
    BY <1>2, <2>1, HeadTailProperties
  <2> QED  BY <1>1, <1>2, <1>3, <2>1, <2>2 DEF WorkFrame
<1>5. CASE Transcode \/ UploadResults \/ FinishRow \/ Withdraw \/ CleanSource
  <2>1. UNCHANGED <<queue, stuck>>
    BY <1>5 DEF Transcode, UploadResults, FinishRow, Withdraw, CleanSource
  <2> QED  BY <1>1, <1>2, <1>3, <2>1 DEF WorkFrame
<1>6. CASE FailRow
  <2>1. UNCHANGED queue /\ (stuck' = stuck \/ stuck' = stuck \cup {job.id})
    BY <1>6 DEF FailRow
  <2>2. job.id \in MediaIds
    BY <1>6, WorkerMoves DEF FailRow
  <2> QED  BY <1>1, <1>2, <1>3, <2>1, <2>2 DEF WorkFrame
<1> QED  BY <1>4, <1>5, <1>6 DEF Work

LEMMA WorkEffect ==
    ASSUME Inv, UNCHANGED mix, Work
    PROVE  WorkFrame /\ AtWork
<1>1. WorkFrame
  BY FrameOfWork
<1>2. CASE StartJob
  <2> DEFINE i == Head(queue)
  <2>1. job.pc = "idle" /\ UNCHANGED <<rows, bucket, leaked>> /\ queue # <<>> /\ queue \in Seq(MediaIds)
    BY <1>2 DEF StartJob, Inv, TypeOK
  <2>2. \/ job' = IF Processing(i) THEN [pc |-> "transcode", id |-> i, src |-> rows[i].url] ELSE NoJob
        \/ job' = job
    BY <1>2 DEF StartJob
  <2>3. i \in MediaIds
    BY <2>1, HeadTailProperties
  <2>4. job = NoJob
    BY <2>1 DEF Inv, Fits, JobFits
  <2> HIDE DEF i
  <2>5. CASE Processing(i) /\ job' = [pc |-> "transcode", id |-> i, src |-> rows[i].url]
    <3>1. i \in Gallery /\ rows[i].url = Source(i)
      <4>1. /\ i \in Gallery
            /\ rows[i] = [type |-> "video", url |-> Source(i), posterUrl |-> None,
                           status |-> "PROCESSING", sortOrder |-> rows[i].sortOrder]
        BY <2>3, <2>5, ProcessingRow
      <4> QED  BY <4>1
    <3> QED  BY <1>1, <2>1, <2>5, <3>1 DEF AtWork, Taken
  <2>6. CASE job' = NoJob
    BY <1>1, <2>1, <2>6 DEF AtWork, Taken
  <2> QED  BY <2>2, <2>4, <2>5, <2>6
<1>3. CASE Transcode
  <2>1. Worker("transcode", "upload") \/ Worker("transcode", "fail")
    BY <1>3 DEF Transcode
  <2>2. UNCHANGED <<rows, bucket, leaked>>
    BY <1>3 DEF Transcode
  <2>3. Transcoded
    BY <2>1, <2>2, WorkerMoves DEF Transcoded
  <2> QED  BY <1>1, <2>3 DEF AtWork
<1>4. CASE UploadResults
  <2>1. UNCHANGED rows
    BY <1>4 DEF UploadResults
  <2>2. CASE Worker("upload", "update") /\ Put(Results, Made) /\ UNCHANGED <<failures, leaked>>
    <3>1. DOMAIN bucket' = DOMAIN bucket \cup Results
      BY <2>2 DEF Put
    <3>2. MadeAll
      BY <2>1, <2>2, <3>1, WorkerMoves DEF MadeAll
    <3> QED  BY <1>1, <3>2 DEF AtWork
  <2>3. CASE /\ Worker("upload", "fail")
             /\ \E some \in (SUBSET Results) \ {Results} : Put(some, Made) /\ leaked' = leaked \cup some
    <3>1. PICK some \in SUBSET Results : Put(some, Made) /\ leaked' = leaked \cup some
      BY <2>3
    <3>2. DOMAIN bucket' = DOMAIN bucket \cup some
      BY <3>1 DEF Put
    <3>3. MadeSome
      BY <2>1, <2>3, <3>1, <3>2, WorkerMoves DEF MadeSome
    <3> QED  BY <1>1, <3>3 DEF AtWork
  <2> QED  BY <1>4, <2>2, <2>3 DEF UploadResults
<1>5. CASE FinishRow
  <2>1. UNCHANGED bucket
    BY <1>5 DEF FinishRow
  <2>2. CASE /\ Worker("update", "clean") /\ Processing(job.id)
             /\ rows' = [rows EXCEPT ![job.id].url = Video(job.id),
                                     ![job.id].posterUrl = Poster(job.id),
                                     ![job.id].status = "READY"]
             /\ UNCHANGED <<failures, leaked>>
    <3> DEFINE i == job.id
    <3>1. JobMoves("update", "clean") /\ i \in MediaIds
      BY <2>2, WorkerMoves
    <3>2. rows[i] = [type |-> "video", url |-> Source(i), posterUrl |-> None,
                     status |-> "PROCESSING", sortOrder |-> rows[i].sortOrder]
      BY <2>2, <3>1, ProcessingRow
    <3>3. i \in DOMAIN rows
      BY <3>1 DEF Inv, TypeOK
    <3>4. rows' = [rows EXCEPT ![i] = [type |-> "video", url |-> Video(i), posterUrl |-> Poster(i),
                                       status |-> "READY", sortOrder |-> rows[i].sortOrder]]
      <4>1. rows' = [rows EXCEPT ![i].url = Video(i), ![i].posterUrl = Poster(i), ![i].status = "READY"]
        BY <2>2
      <4> HIDE DEF i
      <4> QED  BY <3>2, <3>3, <4>1, RowFinished
    <3>5. Finished
      BY <2>1, <2>2, <3>1, <3>4 DEF Finished
    <3> QED  BY <1>1, <3>5 DEF AtWork
  <2>3. CASE Worker("update", "withdraw") /\ ~Processing(job.id) /\ UNCHANGED <<rows, failures, leaked>>
    BY <1>1, <2>1, <2>3, WorkerMoves DEF AtWork, TooLate
  <2>4. CASE Worker("update", "fail") /\ leaked' = leaked \cup Results /\ UNCHANGED rows
    BY <1>1, <2>1, <2>4, WorkerMoves DEF AtWork, NotFinished
  <2> QED  BY <1>5, <2>2, <2>3, <2>4 DEF FinishRow
<1>6. CASE Withdraw
  <2>1. UNCHANGED rows /\ JobMoves("withdraw", "clean")
    BY <1>6, WorkerMoves DEF Withdraw
  <2>2. CASE bucket' = Without(Results) /\ UNCHANGED leaked
    <3>1. DOMAIN bucket' = DOMAIN bucket \ (Results \ {}) /\ leaked' = leaked \cup {}
      BY <2>2 DEF Without
    <3> QED  BY <1>1, <2>1, <3>1 DEF AtWork, TakenBack
  <2>3. CASE \E kept \in Results : bucket' = Without(Results \ {kept}) /\ leaked' = leaked \cup {kept}
    <3>1. PICK kept \in Results : bucket' = Without(Results \ {kept}) /\ leaked' = leaked \cup {kept}
      BY <2>3
    <3>2. DOMAIN bucket' = DOMAIN bucket \ (Results \ {kept}) /\ {kept} \in SUBSET Results
      BY <3>1 DEF Without
    <3> QED  BY <1>1, <2>1, <3>1, <3>2 DEF AtWork, TakenBack
  <2> QED  BY <1>6, <2>2, <2>3 DEF Withdraw
<1>7. CASE FailRow
  <2>1. UNCHANGED <<bucket, leaked>> /\ JobMoves("fail", "clean") /\ job.id \in MediaIds
    BY <1>7, WorkerMoves DEF FailRow
  <2>2. CASE rows' = rows
    BY <1>1, <2>1, <2>2 DEF AtWork, Failed
  <2>3. CASE Processing(job.id) /\ rows' = [rows EXCEPT ![job.id].status = "FAILED"]
    <3> DEFINE i == job.id
    <3>1. rows[i] = [type |-> "video", url |-> Source(i), posterUrl |-> None,
                     status |-> "PROCESSING", sortOrder |-> rows[i].sortOrder]
      BY <2>1, <2>3, ProcessingRow
    <3>2. i \in DOMAIN rows
      BY <2>1 DEF Inv, TypeOK
    <3>3. rows' = [rows EXCEPT ![i] = [type |-> "video", url |-> Source(i), posterUrl |-> None,
                                       status |-> "FAILED", sortOrder |-> rows[i].sortOrder]]
      <4>1. rows' = [rows EXCEPT ![i].status = "FAILED"]
        BY <2>3
      <4> HIDE DEF i
      <4> QED  BY <3>1, <3>2, <4>1, RowFailed
    <3>4. Failed
      BY <2>1, <2>3, <3>3 DEF Failed
    <3> QED  BY <1>1, <3>4 DEF AtWork
  <2> QED  BY <1>7, <2>2, <2>3 DEF FailRow
<1>8. CASE CleanSource
  <2>1. DOMAIN Without({job.src}) = DOMAIN bucket \ {job.src}
    BY DEF Without
  <2>2. Cleaned
    BY <1>8, <2>1 DEF CleanSource, Cleaned
  <2> QED  BY <1>1, <2>2 DEF AtWork
<1> QED  BY <1>2, <1>3, <1>4, <1>5, <1>6, <1>7, <1>8 DEF Work

-----------------------------------------------------------------------------
(* Every step, sorted *)

Deleted(key) ==
    /\ key \in deleting /\ deleting' = deleting \ {key}
    /\ \/ DOMAIN bucket' = DOMAIN bucket \ {key} /\ leaked' = leaked
       \/ bucket' = bucket /\ leaked' = leaked \cup {key}
    /\ failures' \in 0..MaxFailures
    /\ UNCHANGED <<mix, listed, rows, slots, queue, job, pc, req, asked, clock, named, restarts,
                   removed, twice, broken, alone, stuck>>

Restarted ==
    /\ restarts' \in 0..MaxRestarts
    /\ pc' = [h \in Handlers |-> "idle"] /\ req' = [h \in Handlers |-> NoReq]
    /\ deleting' = {} /\ job' = NoJob /\ queue' \in Seq(MediaIds) /\ stuck' = {}
    /\ leaked' = leaked \cup (DOMAIN bucket \ Referenced)
    /\ broken' = broken \cup {req[h].kind : h \in {o \in Handlers : pc[o] = "write"}}
    /\ UNCHANGED <<mix, listed, rows, slots, bucket, asked, clock, named, failures, removed, twice, alone>>

Sorted ==
    \/ \E h \in Handlers : Loud(h) \/ \E l, r : Quiet(h, l, r)
    \/ WorkFrame /\ AtWork
    \/ \E key : Deleted(key)
    \/ Restarted

LEMMA NextIsSorted ==
    ASSUME Inv, Next
    PROVE  Sorted /\ UNCHANGED mix
<1>1. UNCHANGED mix
  BY DEF Next
<1>2. ASSUME NEW h \in Handlers, NEW r \in Request, Ask(h, r) PROVE Sorted
  BY <1>1, <1>2, AskIsQuiet DEF Sorted
<1>3. ASSUME NEW h \in Handlers, Step(h) PROVE Sorted
  BY <1>1, <1>3, StepsAreSorted DEF Sorted
<1>4. ASSUME NEW key \in deleting, Delete(key) PROVE Sorted
  <2>1. failures' \in 0..MaxFailures
    BY <1>4, FailureCounts DEF Delete, Inv, TypeOK
  <2>2. DOMAIN Without({key}) = DOMAIN bucket \ {key}
    BY DEF Without
  <2>3. Deleted(key)
    BY <1>1, <1>4, <2>1, <2>2 DEF Delete, Deleted, work, requests, counters
  <2>4. \E k : Deleted(k)
    BY <2>3
  <2> QED  BY <2>4 DEF Sorted
<1>5. CASE Work
  BY <1>1, <1>5, WorkEffect DEF Sorted
<1>6. CASE Restart
  <2>1. restarts' \in 0..MaxRestarts
    BY <1>6, BoundsAssumption DEF Restart, Inv, TypeOK
  <2>2. queue' \in Seq(MediaIds)
    BY <1>6, ResumeType DEF Restart
  <2>3. Restarted
    BY <1>1, <1>6, <2>1, <2>2 DEF Restart, Restarted, counters
  <2> QED  BY <1>1, <2>3 DEF Sorted
<1> QED  BY <1>1, <1>2, <1>3, <1>4, <1>5, <1>6 DEF Next

LEMMA CountersStep ==
    ASSUME Inv, Sorted, UNCHANGED mix
    PROVE  /\ named' \in 0..Cardinality(MediaIds) /\ clock' \in Nat /\ Bound' \in Nat /\ Bound <= Bound' /\ Bound \in Nat
           /\ named \in Nat /\ named' \in Nat /\ named <= named' /\ clock <= clock'
           /\ asked' \in 0..MaxRequests /\ failures' \in 0..MaxFailures /\ restarts' \in 0..MaxRestarts
           /\ queue' \in Seq(MediaIds) /\ stuck' \subseteq MediaIds /\ removed' \subseteq MediaIds
           /\ mix' \in Mixes /\ alone' \in BOOLEAN /\ listed' \in BOOLEAN /\ broken' \subseteq SlotNames
<1> USE DEF Inv
<1>t. /\ named \in 0..Cardinality(MediaIds) /\ clock \in Nat /\ Bound \in Nat /\ named \in Nat
      /\ asked \in 0..MaxRequests /\ failures \in 0..MaxFailures /\ restarts \in 0..MaxRestarts
      /\ queue \in Seq(MediaIds) /\ stuck \subseteq MediaIds /\ removed \subseteq MediaIds
      /\ mix \in Mixes /\ alone \in BOOLEAN /\ listed \in BOOLEAN /\ broken \subseteq SlotNames
  BY Types DEF TypeOK
<1>1. ASSUME NEW h \in Handlers, \E l, r : Quiet(h, l, r)
      PROVE  /\ named' \in 0..Cardinality(MediaIds) /\ named <= named' /\ clock' = clock
             /\ asked' \in 0..MaxRequests /\ failures' \in 0..MaxFailures /\ restarts' = restarts
             /\ queue' \in Seq(MediaIds) /\ stuck' = stuck /\ removed' = removed
             /\ alone' \in BOOLEAN /\ listed' = listed /\ broken' = broken
  BY <1>t, <1>1, Types DEF Quiet, Untouched
<1>2. ASSUME NEW h \in Handlers, NEW key, Stored(h, key)
      PROVE  /\ clock' \in Nat /\ clock <= clock' /\ Bound' \in Nat /\ Bound <= Bound'
             /\ UNCHANGED <<named, asked, failures, restarts, queue, stuck, removed, alone, listed, broken>>
  BY <1>2, NamesGiven DEF Stored
<1>3. ASSUME NEW h \in Handlers, Loud(h), ~\E key : Stored(h, key)
      PROVE  UNCHANGED <<named, clock, asked, restarts, queue, stuck, alone>> /\ failures' \in 0..MaxFailures
             /\ removed' \subseteq MediaIds /\ listed' \in BOOLEAN /\ broken' \subseteq SlotNames
  <2>1. CASE Found(h)
    <3>1. InPlace(Bound, "find", req[h])
      BY <2>1, Standing DEF Found
    <3>2. req[h].id \in MediaIds
      BY <3>1 DEF InPlace
    <3> QED  BY <1>t, <2>1, <3>2 DEF Found
  <2>2. CASE NotWritten(h)
    <3>1. req[h].kind \in SlotNames
      BY <2>2, Standing DEF NotWritten, ComesTo
    <3> QED  BY <1>t, <2>2, <3>1 DEF NotWritten
  <2>3. CASE \/ Created(h) \/ NotCreated(h) \/ Undone(h) \/ RowDeleted(h) \/ ListingDeleted(h) \/ Exchanged(h)
             \/ Replaced(h) \/ Written(h)
    BY <1>t, <2>3 DEF Created, NotCreated, Undone, RowDeleted, ListingDeleted, Exchanged, Replaced, Written
  <2> QED  BY <1>3, <2>1, <2>2, <2>3 DEF Loud
<1>4. CASE WorkFrame
  BY <1>t, <1>4 DEF WorkFrame, Bound
<1>5. ASSUME NEW key, Deleted(key)
      PROVE  UNCHANGED <<named, clock, asked, restarts, queue, stuck, removed, alone, listed, broken>>
             /\ failures' \in 0..MaxFailures
  BY <1>5 DEF Deleted
<1>6. CASE Restarted
  <2>1. \A h \in Handlers : pc[h] = "write" => req[h].kind \in SlotNames
    BY Standing DEF ComesTo
  <2>2. broken' \subseteq SlotNames
    BY <1>t, <1>6, <2>1 DEF Restarted
  <2> QED  BY <1>t, <1>6, <2>2 DEF Restarted, Bound
<1>7. CASE \E h \in Handlers : Loud(h) \/ \E l, r : Quiet(h, l, r)
  <2> PICK h \in Handlers : Loud(h) \/ \E l, r : Quiet(h, l, r)
    BY <1>7
  <2>1. CASE \E l, r : Quiet(h, l, r)
    BY <1>t, <1>1, <2>1 DEF Bound
  <2>2. CASE \E key : Stored(h, key)
    BY <1>t, <1>2, <2>2
  <2>3. CASE Loud(h) /\ ~\E key : Stored(h, key)
    BY <1>t, <1>3, <2>3 DEF Bound
  <2> QED  BY <2>1, <2>2, <2>3
<1>8. CASE \E key : Deleted(key)
  <2> PICK key : Deleted(key)
    BY <1>8
  <2> QED  BY <1>t, <1>5 DEF Bound
<1> QED  BY <1>4, <1>6, <1>7, <1>8 DEF Sorted

LEMMA RequestsStep ==
    ASSUME Inv, Sorted, UNCHANGED mix
    PROVE  /\ pc' \in [Handlers -> Label]
           /\ DOMAIN req' = Handlers /\ req' = [o \in Handlers |-> req'[o]]
           /\ \A o \in Handlers : InPlace(Bound', pc'[o], req'[o]) /\ req'[o].kind \in mix.kinds \cup {"none"}
<1>b. Bound' \in Nat /\ Bound <= Bound' /\ Bound \in Nat
  BY CountersStep
<1>1. CASE \E h \in Handlers : Loud(h) \/ \E l, r : Quiet(h, l, r)
  <2> PICK h \in Handlers : Loud(h) \/ \E l, r : Quiet(h, l, r)
    BY <1>1
  <2>1. \E l, r : GoesOn(h, l, r)
    <3>1. CASE \E l, r : Quiet(h, l, r)
      BY <3>1, QuietGoesOn
    <3>2. CASE \E key : Stored(h, key)
      BY <3>2, StoredGoesOn
    <3>3. CASE Loud(h) /\ ~\E key : Stored(h, key)
      BY <3>3, OthersGoOn
    <3> QED  BY <3>1, <3>2, <3>3
  <2> QED  BY <1>b, <2>1, GoneOn
<1>2. CASE WorkFrame \/ \E key : Deleted(key)
  <2>1. UNCHANGED <<pc, req>>
    BY <1>2 DEF WorkFrame, Deleted
  <2>2. /\ pc \in [Handlers -> Label] /\ DOMAIN req = Handlers /\ req = [o \in Handlers |-> req[o]]
        /\ \A o \in Handlers : InPlace(Bound, pc[o], req[o]) /\ req[o].kind \in mix.kinds \cup {"none"}
    BY DEF Inv, Fits, TypeOK
  <2>3. \A o \in Handlers : InPlace(Bound', pc[o], req[o])
    BY <1>b, <2>2, StillInPlace
  <2> QED  BY <2>1, <2>2, <2>3
<1>3. CASE Restarted
  <2>1. pc' = [h \in Handlers |-> "idle"] /\ req' = [h \in Handlers |-> NoReq]
    BY <1>3 DEF Restarted
  <2>2. NoReq.kind = "none"
    BY DEF NoReq
  <2> QED  BY <2>1, <2>2, IdleInPlace DEF Label
<1> QED  BY <1>1, <1>2, <1>3 DEF Sorted

-----------------------------------------------------------------------------
(* Types of rows, slots and keys *)

LEMMA RowGives ==
    ASSUME NEW n \in Nat, NEW i \in 0..n, NEW row, RowFits(n, i, row)
    PROVE  FilesOf(row) \subseteq (Owners \ SlotNames) \X (0..n) /\ row.url \in FilesOf(row) /\ row.url \in Key
<1>1. row.url \in (Owners \ SlotNames) \X (0..n) /\ row.posterUrl \in (Owners \ SlotNames) \X (0..n) \cup {None}
  BY DEF RowFits, KeysOf, Source, Video, Poster, Owners, SlotNames
<1>2. row.url \in Key
  BY <1>1 DEF Key
<1> QED  BY <1>1, <1>2, NoneAssumption DEF FilesOf

\* The rows that are there fit the files they name, and have been given their ids.
RowsFit ==
    /\ rows \in [MediaIds -> Row \cup {None}]
    /\ Gallery \subseteq 1..named /\ (Gallery # {} => listed)
    /\ \A i \in Gallery : RowFits(Bound, i, rows[i])

LEMMA SameRowsFit ==
    ASSUME Inv, Sorted, UNCHANGED <<mix, rows, listed>>
    PROVE  RowsFit'
<1>1. Bound' \in Nat /\ Bound <= Bound' /\ Bound \in Nat /\ named \in Nat /\ named' \in Nat /\ named <= named'
  BY CountersStep
<1>2. Gallery' = Gallery
  BY DEF Gallery
<1>3. \A i \in Gallery : RowFits(Bound, i, rows[i])
  BY DEF Inv, Fits
<1>4. \A i \in Gallery : RowFits(Bound', i, rows[i])
  BY <1>1, <1>3, RowStillFits
<1>5. 1..named \subseteq 1..named'
  BY <1>1
<1> QED  BY <1>2, <1>4, <1>5 DEF RowsFit, Inv, TypeOK

\* One row more, or another in its place; or one less.
LEMMA OneRowFits ==
    ASSUME Inv, UNCHANGED <<listed, named, clock>>, NEW i \in MediaIds, i \in 1..named, listed,
           NEW row \in Row \cup {None}, row # None => RowFits(Bound, i, row),
           rows' = [rows EXCEPT ![i] = row]
    PROVE  RowsFit'
<1>1. Bound' = Bound
  BY DEF Bound
<1>2. rows \in [MediaIds -> Row \cup {None}]
  BY Types DEF Inv
<1>3. rows' \in [MediaIds -> Row \cup {None}] /\ rows'[i] = row /\ \A j \in MediaIds \ {i} : rows'[j] = rows[j]
  BY <1>2
<1>4. \A j \in Gallery' : j = i \/ j \in Gallery
  BY <1>3 DEF Gallery
<1>5. \A j \in Gallery' : rows'[j] # None /\ j \in MediaIds
  BY DEF Gallery
<1>6. ASSUME NEW j \in Gallery' PROVE RowFits(Bound', j, rows'[j]) /\ j \in 1..named'
  <2>1. CASE j = i
    BY <1>1, <1>3, <1>5, <2>1
  <2>2. CASE j # i
    <3>1. j \in Gallery /\ rows'[j] = rows[j]
      BY <1>3, <1>4, <1>5, <2>2
    <3> QED  BY <1>1, <3>1, Types DEF Inv, Fits
  <2> QED  BY <2>1, <2>2
<1> QED  BY <1>3, <1>6 DEF RowsFit

LEMMA RowsStep ==
    ASSUME Inv, Sorted, UNCHANGED mix
    PROVE  RowsFit'
<1>1. CASE UNCHANGED <<rows, listed>>
  BY <1>1, SameRowsFit
<1>2. ASSUME NEW h \in Handlers, Created(h) PROVE RowsFit'
  <2>1. /\ NewRow(h) \in Row /\ RowFits(Bound, req[h].id, NewRow(h)) /\ req[h].id \in MediaIds /\ req[h].id \in 1..named
    BY <1>2, NewRowIsRow DEF Created
  <2>2. rows' = [rows EXCEPT ![req[h].id] = NewRow(h)] /\ listed /\ UNCHANGED <<listed, named, clock>>
    BY <1>2 DEF Created
  <2> QED  BY <2>1, <2>2, OneRowFits
<1>3. ASSUME NEW h \in Handlers, RowDeleted(h) PROVE RowsFit'
  <2>1. rows' = [rows EXCEPT ![req[h].id] = None] /\ UNCHANGED <<listed, named, clock>> /\ rows[req[h].id] # None
    BY <1>3 DEF RowDeleted
  <2>2. req[h].id \in MediaIds
    <3>1. InPlace(Bound, "delete", req[h])
      BY <1>3, Standing DEF RowDeleted
    <3> QED  BY <3>1 DEF InPlace
  <2>3. req[h].id \in Gallery
    BY <2>1, <2>2 DEF Gallery
  <2>4. req[h].id \in 1..named /\ listed
    BY <2>3 DEF Inv, TypeOK
  <2> QED  BY <2>1, <2>2, <2>4, OneRowFits
<1>4. ASSUME NEW h \in Handlers, ListingDeleted(h) PROVE RowsFit'
  <2>1. rows' = [i \in MediaIds |-> None]
    BY <1>4 DEF ListingDeleted
  <2>2. Gallery' = {}
    BY <2>1 DEF Gallery
  <2> QED  BY <2>1, <2>2 DEF RowsFit
<1>5. ASSUME NEW h \in Handlers, Exchanged(h), rows' # rows PROVE RowsFit'
  <2> DEFINE one == req[h].todo[1]
             other == req[h].todo[2]
  <2>1. /\ UNCHANGED <<listed, named, clock>> /\ pc[h] = "swapped"
        /\ rows[one.id] # None /\ rows[other.id] # None
        /\ rows' = [i \in MediaIds |->
                      IF i = one.id THEN [rows[i] EXCEPT !.sortOrder = one.sort]
                      ELSE IF i = other.id THEN [rows[i] EXCEPT !.sortOrder = other.sort]
                      ELSE rows[i]]
    BY <1>5 DEF Exchanged
  <2>2. one.id \in MediaIds /\ other.id \in MediaIds /\ one.sort \in Nat /\ other.sort \in Nat
    <3>1. InPlace(Bound, "swapped", req[h])
      BY <2>1, Standing
    <3>2. req[h].todo \in Seq(PlaceOf) /\ Len(req[h].todo) = 2
      BY <3>1 DEF InPlace
    <3>3. one \in PlaceOf /\ other \in PlaceOf
      BY <3>2
    <3> QED  BY <3>3 DEF PlaceOf
  <2> HIDE DEF one, other
  <2>3. ASSUME NEW i \in MediaIds
        PROVE  /\ rows'[i] \in Row \cup {None} /\ (rows'[i] = None <=> rows[i] = None)
               /\ rows[i] # None => RowFits(Bound, i, rows'[i])
    <3>1. \/ rows'[i] = rows[i]
          \/ \E n \in Nat : rows'[i] = [rows[i] EXCEPT !.sortOrder = n] /\ rows[i] # None
      BY <2>1, <2>2
    <3>2. CASE rows'[i] = rows[i]
      BY <3>2, Types DEF Inv, Fits
    <3>3. CASE \E n \in Nat : rows'[i] = [rows[i] EXCEPT !.sortOrder = n] /\ rows[i] # None
      <4> PICK n \in Nat : rows'[i] = [rows[i] EXCEPT !.sortOrder = n] /\ rows[i] # None
        BY <3>3
      <4>1. rows[i] \in Row /\ RowFits(Bound, i, rows[i])
        BY Types DEF Inv, Fits
      <4>2. rows'[i] \in Row
        BY <4>1 DEF Row
      <4>3. RowFits(Bound, i, rows'[i])
        BY <4>1 DEF RowFits, Row
      <4> QED  BY <4>2, <4>3, NoneAssumption
    <3> QED  BY <3>1, <3>2, <3>3
  <2>4. Gallery' = Gallery
    BY <2>3 DEF Gallery
  <2>5. rows' \in [MediaIds -> Row \cup {None}]
    <3>1. rows' = [i \in MediaIds |-> rows'[i]]
      BY <2>1
    <3> QED  BY <2>3, <3>1
  <2>6. Bound' = Bound
    BY <2>1 DEF Bound
  <2>7. \A i \in Gallery : i \in MediaIds /\ rows[i] # None
    BY DEF Gallery
  <2> QED  BY <2>1, <2>3, <2>4, <2>5, <2>6, <2>7 DEF RowsFit, Inv, TypeOK
<1>6. ASSUME WorkFrame, Finished \/ Failed, rows' # rows PROVE RowsFit'
  <2>1. job.id \in MediaIds /\ UNCHANGED <<listed, named, clock>> /\ Processing(job.id)
    BY <1>6, JobStands DEF WorkFrame, Finished, Failed, JobMoves
  <2>2. job.id \in Gallery /\ rows[job.id].sortOrder \in Nat
    BY <2>1, ProcessingRow DEF Row
  <2>3. job.id \in 1..named /\ listed
    BY <2>2 DEF Inv, TypeOK
  <2>4. Source(job.id) \in Key /\ Video(job.id) \in Key /\ Poster(job.id) \in Key
    <3>1. job.id \in 0..named /\ named \in Nat
      BY <2>3, Types DEF Inv
    <3> QED  BY <3>1, KeysAreGiven
  <2>5. CASE Finished
    <3> DEFINE row == [type |-> "video", url |-> Video(job.id), posterUrl |-> Poster(job.id),
                       status |-> "READY", sortOrder |-> rows[job.id].sortOrder]
    <3>1. rows' = [rows EXCEPT ![job.id] = row]
      BY <2>5 DEF Finished
    <3>2. row \in Row /\ RowFits(Bound, job.id, row)
      BY <2>2, <2>4 DEF Row, RowFits
    <3> HIDE DEF row
    <3> QED  BY <2>1, <2>3, <3>1, <3>2, OneRowFits
  <2>6. CASE Failed
    <3> DEFINE row == [type |-> "video", url |-> Source(job.id), posterUrl |-> None,
                       status |-> "FAILED", sortOrder |-> rows[job.id].sortOrder]
    <3>1. rows' = [rows EXCEPT ![job.id] = row]
      BY <1>6, <2>6 DEF Failed
    <3>2. row \in Row /\ RowFits(Bound, job.id, row)
      BY <2>2, <2>4 DEF Row, RowFits
    <3> HIDE DEF row
    <3> QED  BY <2>1, <2>3, <3>1, <3>2, OneRowFits
  <2> QED  BY <1>6, <2>5, <2>6
<1>7. ASSUME NEW h \in Handlers, Loud(h)
      PROVE  \/ UNCHANGED <<rows, listed>>
             \/ Created(h) \/ RowDeleted(h) \/ ListingDeleted(h) \/ (Exchanged(h) /\ rows' # rows)
  <2>1. (\E key : Stored(h, key)) \/ NotCreated(h) \/ Undone(h) \/ Found(h) \/ Replaced(h) \/ Written(h) \/ NotWritten(h)
            => UNCHANGED <<rows, listed>>
    BY DEF Stored, NotCreated, Undone, Found, Replaced, Written, NotWritten
  <2>2. Exchanged(h) => UNCHANGED listed
    BY DEF Exchanged
  <2> QED  BY <1>7, <2>1, <2>2 DEF Loud
<1>8. CASE WorkFrame /\ AtWork
  <2>1. UNCHANGED listed
    BY <1>8 DEF WorkFrame
  <2>2. Taken \/ Transcoded \/ MadeAll \/ MadeSome \/ TooLate \/ NotFinished \/ TakenBack \/ Cleaned => UNCHANGED rows
    BY DEF Taken, Transcoded, MadeAll, MadeSome, TooLate, NotFinished, TakenBack, Cleaned
  <2> QED  BY <1>1, <1>6, <1>8, <2>1, <2>2 DEF AtWork
<1>9. (\E h \in Handlers : \E l, r : Quiet(h, l, r)) \/ (\E key : Deleted(key)) \/ Restarted => UNCHANGED <<rows, listed>>
  BY DEF Quiet, Untouched, Deleted, Restarted
<1> QED  BY <1>1, <1>2, <1>3, <1>4, <1>5, <1>7, <1>8, <1>9 DEF Sorted

-----------------------------------------------------------------------------
(* Keys that can have been given *)

\* One request has moved and the others have not.
LEMMA MovesGive ==
    ASSUME Inv, NEW h \in Handlers, NEW l, NEW r, Moves(h, l, r)
    PROVE  /\ pc'[h] = l /\ req'[h] = r
           /\ \A o \in Handlers \ {h} : pc'[o] = pc[o] /\ req'[o] = req[o]
BY Standing DEF Moves

\* What names a key.
LEMMA NamedBy ==
    \A key : key \in Referenced <=> \/ \E i \in Gallery : key \in FilesOf(rows[i])
                                   \/ \E k \in DOMAIN slots : slots[k] = key /\ key # None
<1> DEFINE InRows == UNION {FilesOf(rows[i]) : i \in Gallery}
           InSlots == Range(slots)
<1>1. \A key : key \in InRows <=> \E i \in Gallery : key \in FilesOf(rows[i])
  OBVIOUS
<1>2. \A key : key \in InSlots <=> \E k \in DOMAIN slots : slots[k] = key
  BY DEF Range
<1>3. Referenced = InRows \cup (InSlots \ {None})
  BY DEF Referenced
<1> HIDE DEF InRows, InSlots
<1>4. \A key : key \in Referenced <=> key \in InRows \/ (key \in InSlots /\ key # None)
  BY <1>3
<1> QED  BY <1>1, <1>2, <1>4

LEMMA NamedByNext ==
    \A key : key \in Referenced' <=> \/ \E i \in Gallery' : key \in FilesOf(rows'[i])
                                   \/ \E k \in DOMAIN slots' : slots'[k] = key /\ key # None
<1> DEFINE InRows == UNION {FilesOf(rows'[i]) : i \in Gallery'}
           InSlots == Range(slots')
<1>1. \A key : key \in InRows <=> \E i \in Gallery' : key \in FilesOf(rows'[i])
  OBVIOUS
<1>2. \A key : key \in InSlots <=> \E k \in DOMAIN slots' : slots'[k] = key
  BY DEF Range
<1>3. Referenced' = InRows \cup (InSlots \ {None})
  BY DEF Referenced, Range, FilesOf
<1> HIDE DEF InRows, InSlots
<1>4. \A key : key \in Referenced' <=> key \in InRows \/ (key \in InSlots /\ key # None)
  BY <1>3
<1> QED  BY <1>1, <1>2, <1>4

LEMMA KeysKnown ==
    ASSUME Inv
    PROVE  /\ DOMAIN bucket \cup deleting \cup leaked \cup twice \cup Referenced \subseteq GivenKeys
           /\ \A h \in Handlers : /\ req[h].key \in GivenKeys \cup {None} /\ req[h].gone \subseteq GivenKeys
                                  /\ HasKey(pc[h], req[h].kind) => req[h].key \in GivenKeys
           /\ job.pc # "idle" => job.src \in GivenKeys /\ Results \subseteq GivenKeys
           /\ \A i \in Gallery : FilesOf(rows[i]) \subseteq GivenKeys
           /\ \A k \in SlotNames : slots[k] \in GivenKeys \cup {None}
           /\ GivenKeys = Owners \X (0..Bound) /\ None \notin GivenKeys
<1>1. GivenKeys = Owners \X (0..Bound)
  BY DEF GivenKeys, Bound
<1>2. Bound \in Nat /\ named \in Nat /\ clock \in Nat
  BY Types DEF Inv
<1>3. /\ \A o \in Owners : KeysOf(o, Bound) \subseteq GivenKeys
      /\ \A i \in 0..Bound : Source(i) \in GivenKeys /\ Video(i) \in GivenKeys /\ Poster(i) \in GivenKeys
      /\ None \notin GivenKeys /\ SlotNames \subseteq Owners /\ "listing" \in Owners /\ "src" \in Owners
  BY <1>1, <1>2, KeysAreGiven DEF Owners
<1>4. DOMAIN bucket \cup deleting \cup leaked \cup twice \cup Referenced \subseteq GivenKeys
  BY DEF Inv, TypeOK
<1>5. ASSUME NEW h \in Handlers
      PROVE  /\ req[h].key \in GivenKeys \cup {None} /\ req[h].gone \subseteq GivenKeys
             /\ HasKey(pc[h], req[h].kind) => req[h].key \in GivenKeys
  <2>1. InPlace(Bound, pc[h], req[h]) /\ ComesTo(req[h].kind, pc[h])
    BY Standing
  <2>2. HasKey(pc[h], req[h].kind) => req[h].kind \in {"add"} \cup SlotNames
    BY <2>1 DEF HasKey, ComesTo, SlotNames
  <2>3. HasKey(pc[h], req[h].kind) => req[h].key \in GivenKeys
    BY <1>3, <2>1, <2>2 DEF InPlace
  <2>4. ~HasKey(pc[h], req[h].kind) => req[h].key = None
    BY Standing
  <2>5. req[h].gone \subseteq GivenKeys
    BY <1>1, <1>3, <2>1 DEF InPlace
  <2> QED  BY <2>3, <2>4, <2>5
<1>6. job.pc # "idle" => job.src \in GivenKeys /\ Results \subseteq GivenKeys
  <2> SUFFICES ASSUME job.pc # "idle" PROVE job.src \in GivenKeys /\ Results \subseteq GivenKeys
    OBVIOUS
  <2>1. job.src = Source(job.id) /\ job.id \in MediaIds /\ job.id <= named
    BY JobStands
  <2>2. job.id \in 0..Bound
    <3>1. job.id \in Nat /\ Bound = named + clock
      BY <2>1, GalleryIsFinite DEF Bound
    <3> QED  BY <1>2, <2>1, <3>1
  <2>3. Results = {Video(job.id), Poster(job.id)}
    BY DEF Results
  <2> QED  BY <1>3, <2>1, <2>2, <2>3
<1>7. ASSUME NEW i \in Gallery PROVE FilesOf(rows[i]) \subseteq GivenKeys
  BY <1>4, NamedBy
<1>8. ASSUME NEW k \in SlotNames PROVE slots[k] \in GivenKeys \cup {None}
  <2>1. slots[k] \in KeysOf(k, Bound) \cup {None}
    BY DEF Inv, Fits
  <2> QED  BY <1>3, <2>1
<1> QED  BY <1>1, <1>3, <1>4, <1>5, <1>6, <1>7, <1>8

LEMMA KeysStep ==
    ASSUME Inv, Sorted, UNCHANGED mix
    PROVE  DOMAIN bucket' \cup deleting' \cup leaked' \cup twice' \subseteq GivenKeys'
<1> DEFINE New == DOMAIN bucket' \cup deleting' \cup leaked' \cup twice'
<1>0. GivenKeys \subseteq GivenKeys' /\ GivenKeys' = Owners \X (0..Bound')
  <2>1. Bound' \in Nat /\ Bound <= Bound' /\ Bound \in Nat
    BY CountersStep
  <2> QED  BY <2>1, KeysGrow DEF GivenKeys, Bound
<1>k. /\ DOMAIN bucket \cup deleting \cup leaked \cup twice \cup Referenced \subseteq GivenKeys
      /\ \A h \in Handlers : req[h].gone \subseteq GivenKeys
      /\ job.pc # "idle" => job.src \in GivenKeys /\ Results \subseteq GivenKeys
      /\ \A i \in Gallery : FilesOf(rows[i]) \subseteq GivenKeys
      /\ \A k \in SlotNames : slots[k] \in GivenKeys \cup {None}
  BY KeysKnown
<1>1. ASSUME NEW h \in Handlers, \E l, r : Quiet(h, l, r) PROVE New \subseteq GivenKeys'
  BY <1>0, <1>k, <1>1 DEF Quiet, Untouched
<1>2. ASSUME NEW h \in Handlers, NEW key, Stored(h, key) PROVE New \subseteq GivenKeys'
  <2>1. key \in GivenKeys'
    <3>1. Bound' \in Nat
      BY CountersStep
    <3>2. \E o \in Owners : key \in KeysOf(o, Bound')
      BY <1>2, NamesGiven DEF Owners
    <3> QED  BY <1>0, <3>1, <3>2, KeysAreGiven
  <2>2. /\ DOMAIN bucket' = DOMAIN bucket \cup {key} /\ twice' \subseteq twice \cup {key}
        /\ UNCHANGED <<deleting, leaked>>
    BY <1>2 DEF Stored
  <2> QED  BY <1>0, <1>k, <2>1, <2>2
<1>3. ASSUME NEW h \in Handlers, Loud(h), ~\E key : Stored(h, key) PROVE New \subseteq GivenKeys'
  <2>1. HasKey(pc[h], req[h].kind) => req[h].key \in GivenKeys
    BY KeysKnown
  <2>2. CASE Created(h) \/ Exchanged(h)
    BY <1>0, <1>k, <2>2 DEF Created, Exchanged
  <2>3. CASE NotCreated(h) \/ Undone(h) \/ NotWritten(h)
    <3>1. req[h].key \in GivenKeys
      BY <2>1, <2>3 DEF HasKey, NotCreated, Undone, NotWritten
    <3>2. /\ DOMAIN bucket' \subseteq DOMAIN bucket /\ leaked' \subseteq leaked \cup {req[h].key}
          /\ UNCHANGED <<deleting, twice>>
      BY <2>3 DEF NotCreated, Undone, NotWritten
    <3> QED  BY <1>0, <1>k, <3>1, <3>2
  <2>4. CASE Found(h)
    <3>1. req[h].id \in MediaIds
      <4>1. InPlace(Bound, "find", req[h])
        BY <2>4, Standing DEF Found
      <4> QED  BY <4>1 DEF InPlace
    <3>2. FilesOf(rows[req[h].id]) \subseteq GivenKeys
      BY <1>k, <2>4, <3>1 DEF Found, Gallery
    <3> QED  BY <1>0, <1>k, <2>4, <3>2 DEF Found
  <2>5. CASE RowDeleted(h)
    <3>1. req[h].id \in MediaIds
      <4>1. InPlace(Bound, "delete", req[h])
        BY <2>5, Standing DEF RowDeleted
      <4> QED  BY <4>1 DEF InPlace
    <3>2. FilesOf(rows[req[h].id]) \subseteq GivenKeys
      BY <1>k, <2>5, <3>1 DEF RowDeleted, Gallery
    <3> QED  BY <1>0, <1>k, <2>5, <3>2 DEF RowDeleted
  <2>6. CASE ListingDeleted(h)
    BY <1>0, <1>k, <2>6 DEF ListingDeleted
  <2>7. CASE Replaced(h)
    BY <1>0, <1>k, <2>7 DEF Replaced
  <2>8. CASE Written(h)
    <3>1. req[h].kind \in SlotNames
      BY <2>8, Standing DEF Written, ComesTo
    <3>2. leaked' \subseteq leaked \cup ({slots[req[h].kind]} \ {None}) /\ UNCHANGED <<bucket, deleting, twice>>
      BY <2>8 DEF Written
    <3> QED  BY <1>0, <1>k, <3>1, <3>2
  <2> QED  BY <1>3, <2>2, <2>3, <2>4, <2>5, <2>6, <2>7, <2>8 DEF Loud
<1>4. CASE WorkFrame /\ AtWork
  <2>1. UNCHANGED <<deleting, twice>>
    BY <1>4 DEF WorkFrame
  <2>2. CASE job.pc = "idle"
    BY <1>0, <1>4, <1>k, <2>1, <2>2 DEF AtWork, Taken, Transcoded, MadeAll, MadeSome, Finished, TooLate, NotFinished,
      TakenBack, Failed, Cleaned, JobMoves
  <2>3. CASE job.pc # "idle"
    <3>1. DOMAIN bucket' \subseteq DOMAIN bucket \cup Results /\ leaked' \subseteq leaked \cup Results \cup {job.src}
      BY <1>4, <2>3 DEF AtWork, Taken, Transcoded, MadeAll, MadeSome, Finished, TooLate, NotFinished,
        TakenBack, Failed, Cleaned
    <3> QED  BY <1>0, <1>k, <2>1, <2>3, <3>1
  <2> QED  BY <2>2, <2>3
<1>5. ASSUME NEW key, Deleted(key) PROVE New \subseteq GivenKeys'
  BY <1>0, <1>k, <1>5 DEF Deleted
<1>6. CASE Restarted
  BY <1>0, <1>k, <1>6 DEF Restarted
<1> QED  BY <1>1, <1>2, <1>3, <1>4, <1>5, <1>6 DEF Sorted

LEMMA SlotsStep ==
    ASSUME Inv, Sorted, UNCHANGED mix
    PROVE  /\ slots' \in [SlotNames -> Key \cup {None}]
           /\ \A k \in SlotNames : slots'[k] \in KeysOf(k, Bound') \cup {None}
<1>1. Bound' \in Nat /\ Bound <= Bound' /\ Bound \in Nat
  BY CountersStep
<1>2. slots \in [SlotNames -> Key \cup {None}] /\ \A k \in SlotNames : slots[k] \in KeysOf(k, Bound') \cup {None}
  BY <1>1, KeysGrow DEF Inv, TypeOK, Fits
<1>3. ASSUME NEW h \in Handlers, Written(h)
      PROVE  /\ slots' \in [SlotNames -> Key \cup {None}]
             /\ \A k \in SlotNames : slots'[k] \in KeysOf(k, Bound') \cup {None}
  <2>1. pc[h] = "write" /\ req[h].kind \in SlotNames /\ slots' = [slots EXCEPT ![req[h].kind] = req[h].key]
    BY <1>3, Standing DEF Written, ComesTo
  <2>2. req[h].key \in KeysOf(req[h].kind, Bound)
    <3>1. InPlace(Bound, "write", req[h])
      BY <2>1, Standing
    <3> QED  BY <2>1, <3>1 DEF InPlace, HasKey
  <2>3. req[h].key \in Key /\ req[h].key \in KeysOf(req[h].kind, Bound')
    BY <1>1, <2>1, <2>2, KeysAreGiven, KeysGrow
  <2> QED  BY <1>2, <2>1, <2>3
<1>4. CASE \E h \in Handlers : Written(h)
  BY <1>3, <1>4
<1>5. CASE ~\E h \in Handlers : Written(h)
  <2>1. ASSUME NEW h \in Handlers, Loud(h) PROVE UNCHANGED slots
    BY <1>5, <2>1 DEF Loud, Stored, Created, NotCreated, Undone, Found, RowDeleted, ListingDeleted, Exchanged, Replaced, NotWritten
  <2>2. UNCHANGED slots
    BY <2>1 DEF Sorted, Quiet, Untouched, WorkFrame, Deleted, Restarted
  <2> QED  BY <1>2, <2>2
<1> QED  BY <1>4, <1>5

-----------------------------------------------------------------------------
(* What becomes of a row, and of the job *)

SameFiles(i) ==
    /\ rows[i] # None /\ rows'[i] # None
    /\ FilesOf(rows'[i]) = FilesOf(rows[i]) /\ rows'[i].status = rows[i].status /\ rows'[i].url = rows[i].url

RowAdded(i) == \E h \in Handlers : Created(h) /\ i = req[h].id /\ rows[i] = None /\ rows'[i] = NewRow(h)

RowReady(i) ==
    /\ WorkFrame /\ Finished /\ i = job.id /\ rows[i] # None
    /\ rows'[i] = [type |-> "video", url |-> Video(i), posterUrl |-> Poster(i),
                   status |-> "READY", sortOrder |-> rows[i].sortOrder]

RowHasFailed(i) ==
    /\ WorkFrame /\ Failed /\ i = job.id /\ rows[i] # None
    /\ rows'[i] = [type |-> "video", url |-> Source(i), posterUrl |-> None,
                   status |-> "FAILED", sortOrder |-> rows[i].sortOrder]

RowGone(i) == rows'[i] = None /\ \E h \in Handlers : ListingDeleted(h) \/ (RowDeleted(h) /\ req[h].id = i)

LEMMA RowsMoveBy ==
    ASSUME Sorted
    PROVE  \/ UNCHANGED rows
           \/ \E h \in Handlers : Created(h) \/ RowDeleted(h) \/ ListingDeleted(h) \/ (Exchanged(h) /\ rows' # rows)
           \/ WorkFrame /\ (Finished \/ (Failed /\ rows' # rows))
<1>1. ASSUME NEW h \in Handlers, Loud(h)
      PROVE  \/ UNCHANGED rows
             \/ Created(h) \/ RowDeleted(h) \/ ListingDeleted(h) \/ (Exchanged(h) /\ rows' # rows)
  <2>1. (\E key : Stored(h, key)) \/ NotCreated(h) \/ Undone(h) \/ Found(h) \/ Replaced(h) \/ Written(h) \/ NotWritten(h)
            => UNCHANGED rows
    BY DEF Stored, NotCreated, Undone, Found, Replaced, Written, NotWritten
  <2> QED  BY <1>1, <2>1 DEF Loud
<1>2. Taken \/ Transcoded \/ MadeAll \/ MadeSome \/ TooLate \/ NotFinished \/ TakenBack \/ Cleaned => UNCHANGED rows
  BY DEF Taken, Transcoded, MadeAll, MadeSome, TooLate, NotFinished, TakenBack, Cleaned
<1>3. (\E h \in Handlers : \E l, r : Quiet(h, l, r)) \/ (\E key : Deleted(key)) \/ Restarted => UNCHANGED rows
  BY DEF Quiet, Untouched, Deleted, Restarted
<1> QED  BY <1>1, <1>2, <1>3 DEF Sorted, AtWork

\* Two rows that are exchanged are there and stay there.
LEMMA ExchangedRows ==
    ASSUME Inv, NEW h \in Handlers, Exchanged(h), NEW i \in MediaIds
    PROVE  \/ rows'[i] = rows[i]
           \/ SameFiles(i)
<1> DEFINE one == req[h].todo[1]
           other == req[h].todo[2]
<1>1. CASE UNCHANGED rows
  BY <1>1
<1>2. CASE ~UNCHANGED rows
  <2>1. /\ rows[one.id] # None /\ rows[other.id] # None
        /\ rows' = [k \in MediaIds |->
                      IF k = one.id THEN [rows[k] EXCEPT !.sortOrder = one.sort]
                      ELSE IF k = other.id THEN [rows[k] EXCEPT !.sortOrder = other.sort]
                      ELSE rows[k]]
    BY <1>2 DEF Exchanged
  <2> HIDE DEF one, other
  <2>2. \/ rows'[i] = rows[i]
        \/ \E n : rows'[i] = [rows[i] EXCEPT !.sortOrder = n] /\ rows[i] # None
    BY <2>1
  <2>3. ASSUME NEW n, rows'[i] = [rows[i] EXCEPT !.sortOrder = n], rows[i] # None
        PROVE  SameFiles(i)
    <3>1. rows[i] \in Row
      BY <2>3, Types DEF Inv
    <3>2. /\ rows'[i].url = rows[i].url /\ rows'[i].posterUrl = rows[i].posterUrl
          /\ rows'[i].status = rows[i].status
      BY <2>3, <3>1 DEF Row
    <3>3. rows'[i] # None
      <4>1. InPlace(Bound, "swapped", req[h])
        BY Standing DEF Exchanged
      <4>2. req[h].todo \in Seq(PlaceOf) /\ Len(req[h].todo) = 2
        BY <4>1 DEF InPlace
      <4>3. one \in PlaceOf /\ other \in PlaceOf
        BY <4>2 DEF one, other
      <4>4. \E m \in Nat : rows'[i] = [rows[i] EXCEPT !.sortOrder = m]
        <5>1. CASE i = one.id
          BY <2>1, <4>3, <5>1 DEF PlaceOf
        <5>2. CASE i # one.id /\ i = other.id
          BY <2>1, <4>3, <5>2 DEF PlaceOf
        <5>3. CASE i # one.id /\ i # other.id
          <6>1. rows'[i] = rows[i] /\ rows[i] = [rows[i] EXCEPT !.sortOrder = rows[i].sortOrder] /\ rows[i].sortOrder \in Nat
            BY <2>1, <3>1, <5>3 DEF Row
          <6> QED  BY <6>1
        <5> QED  BY <5>1, <5>2, <5>3
      <4>5. rows'[i] \in Row
        BY <3>1, <4>4 DEF Row
      <4> QED  BY <4>5, NoneAssumption
    <3>4. FilesOf(rows'[i]) = FilesOf(rows[i])
      BY <3>2 DEF FilesOf
    <3> QED  BY <2>3, <3>2, <3>3, <3>4 DEF SameFiles
  <2> QED  BY <2>2, <2>3
<1> QED  BY <1>1, <1>2

LEMMA RowAfter ==
    ASSUME Inv, Sorted, NEW i \in MediaIds
    PROVE  \/ rows'[i] = rows[i]
           \/ SameFiles(i) /\ \E h \in Handlers : Exchanged(h)
           \/ RowAdded(i) \/ RowReady(i) \/ RowHasFailed(i)
           \/ RowGone(i)
<1>0. DOMAIN rows = MediaIds
  BY Types DEF Inv
<1>1. CASE UNCHANGED rows
  BY <1>1
<1>2. ASSUME NEW h \in Handlers, Created(h) PROVE rows'[i] = rows[i] \/ RowAdded(i)
  <2>1. rows[req[h].id] = None /\ rows' = [rows EXCEPT ![req[h].id] = NewRow(h)]
    BY <1>2, NewRowIsRow DEF Created
  <2> QED  BY <1>0, <1>2, <2>1 DEF RowAdded
<1>3. ASSUME NEW h \in Handlers, RowDeleted(h) PROVE rows'[i] = rows[i] \/ RowGone(i)
  BY <1>0, <1>3 DEF RowDeleted, RowGone
<1>4. ASSUME NEW h \in Handlers, ListingDeleted(h) PROVE RowGone(i)
  <2>1. rows'[i] = None
    BY <1>4 DEF ListingDeleted
  <2> QED  BY <1>4, <2>1 DEF RowGone
<1>5. ASSUME NEW h \in Handlers, Exchanged(h) PROVE rows'[i] = rows[i] \/ SameFiles(i)
  BY <1>5, ExchangedRows
<1>6. CASE WorkFrame /\ Finished
  <2>1. Processing(job.id) => rows[job.id] # None
    BY DEF Processing
  <2>2. CASE i = job.id
    BY <1>0, <1>6, <2>1, <2>2 DEF RowReady, Finished
  <2>3. CASE i # job.id
    BY <1>0, <1>6, <2>3 DEF Finished
  <2> QED  BY <2>2, <2>3
<1>7. CASE WorkFrame /\ Failed /\ rows' # rows
  <2>1. Processing(job.id) => rows[job.id] # None
    BY DEF Processing
  <2>2. CASE i = job.id
    BY <1>0, <1>7, <2>1, <2>2 DEF RowHasFailed, Failed
  <2>3. CASE i # job.id
    BY <1>0, <1>7, <2>3 DEF Failed
  <2> QED  BY <2>2, <2>3
<1> QED  BY <1>1, <1>2, <1>3, <1>4, <1>5, <1>6, <1>7, RowsMoveBy

\* The job goes on with the row it works on, or that row has gone.
LEMMA JobStep ==
    ASSUME Inv, Sorted, UNCHANGED mix
    PROVE  JobFits' /\ job'.pc \in {"idle", "transcode", "upload", "update", "withdraw", "fail", "clean"}
<1>n. named \in Nat /\ named' \in Nat /\ named <= named'
  BY CountersStep
<1>t. job.pc \in {"idle", "transcode", "upload", "update", "withdraw", "fail", "clean"}
  BY DEF Inv, TypeOK
<1>i. job.pc = "idle" <=> job = NoJob
  BY JobStands DEF Inv, Fits, JobFits, NoJob
<1>1. CASE UNCHANGED job
  <2>1. CASE job = NoJob
    BY <1>t, <1>1, <2>1 DEF JobFits
  <2>2. CASE job # NoJob
    <3>0. job.pc # "idle"
      BY <1>i, <2>2
    <3>1. /\ job = [pc |-> job.pc, id |-> job.id, src |-> Source(job.id)]
          /\ job.id \in MediaIds /\ job.id <= named
          /\ job.pc \notin {"withdraw", "clean"} => rows[job.id] = None \/ Processing(job.id)
          /\ job.pc = "withdraw" => rows[job.id] = None
          /\ job.pc = "update" => Results \subseteq DOMAIN bucket
      BY <3>0, JobStands
    <3>2. /\ rows[job.id] = None => rows'[job.id] = None
          /\ Processing(job.id) => rows'[job.id] = None \/ Processing(job.id)'
      <4>1. ~RowAdded(job.id)
        BY NewRowIsRow DEF RowAdded, Inv, IdsAreFresh, Adding, Created
      <4>2. ~RowReady(job.id) /\ ~RowHasFailed(job.id)
        BY <1>1, <3>1 DEF RowReady, RowHasFailed, Finished, Failed, JobMoves
      <4>3. RowGone(job.id) => rows'[job.id] = None
        BY DEF RowGone
      <4>4. rows'[job.id] = rows[job.id] \/ SameFiles(job.id) \/ rows'[job.id] = None
        BY <3>1, <4>1, <4>2, <4>3, RowAfter
      <4> QED  BY <1>1, <4>4 DEF SameFiles, Processing
    <3>3. job.pc = "update" => Results \subseteq DOMAIN bucket'
      <4> SUFFICES ASSUME job.pc = "update" PROVE Results \subseteq DOMAIN bucket'
        OBVIOUS
      <4>1. Results \subseteq DOMAIN bucket /\ Results = {Video(job.id), Poster(job.id)}
        BY <3>1 DEF Results
      <4>2. Results \cap deleting = {}
        <5>1. ToBeMade(job.id)
          BY DEF ToBeMade
        <5>2. Video(job.id) \notin deleting \cup Gones /\ Poster(job.id) \notin deleting \cup Gones
          BY <3>1, <5>1 DEF Inv, ResultsAreNew
        <5> QED  BY <4>1, <5>2
      <4>3. ASSUME NEW h \in Handlers, Loud(h) PROVE Results \subseteq DOMAIN bucket'
        <5>1. CASE Undone(h)
          <6>1. InPlace(Bound, "undo", req[h]) /\ req[h].kind = "add"
            BY <5>1, Standing DEF Undone, ComesTo
          <6>2. req[h].key = Source(req[h].id)
            BY <6>1 DEF InPlace, HasKey
          <6>3. req[h].key \notin Results
            BY <4>1, <6>2, KeysDiffer
          <6> QED  BY <4>1, <5>1, <6>3 DEF Undone
        <5>2. CASE ~Undone(h)
          <6>1. DOMAIN bucket \subseteq DOMAIN bucket'
            BY <4>3, <5>2 DEF Loud, Stored, Created, NotCreated, Found, RowDeleted, ListingDeleted, Exchanged,
              Replaced, Written, NotWritten
          <6> QED  BY <4>1, <6>1
        <5> QED  BY <5>1, <5>2
      <4>4. CASE WorkFrame /\ AtWork
        BY <1>1, <3>1, <4>4 DEF AtWork, Taken, Transcoded, MadeAll, MadeSome, Finished, TooLate, NotFinished,
          TakenBack, Failed, Cleaned, JobMoves, NoJob
      <4>5. ASSUME NEW key, Deleted(key) PROVE Results \subseteq DOMAIN bucket'
        BY <4>1, <4>2, <4>5 DEF Deleted
      <4>6. ASSUME NEW h \in Handlers, \E l, r : Quiet(h, l, r) PROVE Results \subseteq DOMAIN bucket'
        BY <4>1, <4>6 DEF Quiet, Untouched
      <4>7. CASE Restarted
        BY <4>1, <4>7 DEF Restarted
      <4> QED  BY <4>3, <4>4, <4>5, <4>6, <4>7 DEF Sorted
    <3>4. Results' = Results
      BY <1>1 DEF Results
    <3>5. job.id <= named'
      BY <1>n, <3>1, GalleryIsFinite
    <3> QED  BY <1>t, <1>1, <3>0, <3>1, <3>2, <3>3, <3>4, <3>5 DEF JobFits
  <2> QED  BY <2>1, <2>2
<1>2. CASE job' = NoJob
  BY <1>2 DEF JobFits, NoJob
<1>3. CASE WorkFrame /\ AtWork /\ job' # NoJob /\ job' # job
  <2>0. UNCHANGED named
    BY <1>3 DEF WorkFrame
  <2>1. CASE Taken
    <3>1. PICK i \in Gallery : Processing(i) /\ job' = [pc |-> "transcode", id |-> i, src |-> Source(i)]
      BY <1>3, <2>1 DEF Taken
    <3>2. i \in MediaIds /\ i \in 1..named
      BY Types DEF Inv
    <3>3. UNCHANGED rows /\ i <= named
      BY <1>n, <2>1, <3>2 DEF Taken
    <3>4. job'.pc = "transcode" /\ job'.id = i
      BY <3>1
    <3>5. Processing(i)'
      BY <3>1, <3>3 DEF Processing
    <3> QED  BY <2>0, <3>1, <3>2, <3>3, <3>4, <3>5 DEF JobFits
  <2>2. CASE ~Taken
    <3>1. PICK next \in {"upload", "update", "withdraw", "fail", "clean"} : JobMoves(job.pc, next)
      BY <1>3, <2>2 DEF AtWork, Transcoded, MadeAll, MadeSome, Finished, TooLate, NotFinished, TakenBack, Failed, Cleaned,
        JobMoves
    <3>2. job' = [pc |-> next, id |-> job.id, src |-> Source(job.id)] /\ job'.pc = next /\ job'.id = job.id
      BY <3>1 DEF JobMoves
    <3>3. job.pc # "idle"
      BY <1>3, <2>2 DEF AtWork, Transcoded, MadeAll, MadeSome, Finished, TooLate, NotFinished, TakenBack, Failed, Cleaned,
        JobMoves
    <3>4. /\ job.id \in MediaIds /\ job.id <= named
          /\ job.pc \notin {"withdraw", "clean"} => rows[job.id] = None \/ Processing(job.id)
      BY <3>3, JobStands
    <3>5. next \notin {"withdraw", "clean"} => rows'[job.id] = None \/ Processing(job.id)'
      <4>1. next \notin {"withdraw", "clean"} => UNCHANGED rows /\ job.pc \notin {"withdraw", "clean"}
        BY <1>3, <2>2, <3>2 DEF AtWork, Transcoded, MadeAll, MadeSome, Finished, TooLate, NotFinished, TakenBack,
          Failed, Cleaned, JobMoves
      <4> QED  BY <3>2, <3>4, <4>1 DEF Processing
    <3>6. next = "withdraw" => rows'[job.id] = None
      <4>1. next = "withdraw" => TooLate
        BY <1>3, <2>2, <3>2 DEF AtWork, Transcoded, MadeAll, MadeSome, Finished, TooLate, NotFinished, TakenBack,
          Failed, Cleaned, JobMoves
      <4> QED  BY <3>4, <4>1 DEF TooLate, JobMoves
    <3>7. next = "update" => Results' \subseteq DOMAIN bucket'
      <4>1. next = "update" => MadeAll
        BY <1>3, <2>2, <3>2 DEF AtWork, Transcoded, MadeAll, MadeSome, Finished, TooLate, NotFinished, TakenBack,
          Failed, Cleaned, JobMoves
      <4>2. Results' = Results
        BY <3>2 DEF Results
      <4> QED  BY <4>1, <4>2 DEF MadeAll
    <3> QED  BY <2>0, <3>2, <3>4, <3>5, <3>6, <3>7 DEF JobFits
  <2> QED  BY <2>1, <2>2
<1>4. UNCHANGED job \/ job' = NoJob \/ (WorkFrame /\ AtWork)
  <2>1. ASSUME NEW h \in Handlers, Loud(h) PROVE UNCHANGED job
    BY <2>1 DEF Loud, Stored, Created, NotCreated, Undone, Found, RowDeleted, ListingDeleted, Exchanged, Replaced, Written, NotWritten
  <2> QED  BY <2>1 DEF Sorted, Quiet, Untouched, Deleted, Restarted
<1> QED  BY <1>1, <1>2, <1>3, <1>4

LEMMA ReferencedStep ==
    ASSUME Inv, Sorted, UNCHANGED mix
    PROVE  Referenced' \subseteq GivenKeys'
<1>1. Bound' \in Nat /\ named' \in Nat /\ clock' \in Nat
  BY CountersStep
<1>2. GivenKeys' = Owners \X (0..Bound')
  BY DEF GivenKeys, Bound
<1>3. ASSUME NEW i \in Gallery' PROVE FilesOf(rows'[i]) \subseteq GivenKeys'
  <2>1. RowFits(Bound', i, rows'[i]) /\ i \in 1..named'
    BY RowsStep DEF RowsFit
  <2>2. i \in 0..Bound'
    <3>1. Bound' = named' + clock' /\ i \in 1..named'
      BY <2>1 DEF Bound
    <3>2. i \in Nat /\ i <= named'
      BY <1>1, <3>1
    <3>3. named' <= Bound'
      <4>1. \A m, n \in Nat : m <= m + n
        OBVIOUS
      <4> QED  BY <1>1, <4>1 DEF Bound
    <3> QED  BY <1>1, <3>2, <3>3
  <2>3. FilesOf(rows'[i]) \subseteq (Owners \ SlotNames) \X (0..Bound')
    BY <1>1, <2>1, <2>2, RowGives
  <2> QED  BY <1>2, <2>3
<1>4. DOMAIN slots' = SlotNames /\ \A k \in SlotNames : slots'[k] \in GivenKeys' \cup {None}
  <2>1. slots' \in [SlotNames -> Key \cup {None}] /\ \A k \in SlotNames : slots'[k] \in KeysOf(k, Bound') \cup {None}
    BY SlotsStep
  <2>2. \A k \in SlotNames : KeysOf(k, Bound') \subseteq GivenKeys'
    BY <1>1, <1>2, KeysAreGiven
  <2> QED  BY <2>1, <2>2
<1>5. ASSUME NEW key \in Referenced' PROVE key \in GivenKeys'
  BY <1>3, <1>4, NamedByNext
<1> QED  BY <1>5

\* Types hold from step to step.
LEMMA TypesStep ==
    ASSUME Inv, Sorted, UNCHANGED mix
    PROVE  TypeOK' /\ Fits'
<1>1. TypeOK'
  <2>1. /\ mix' \in Mixes /\ listed' \in BOOLEAN /\ alone' \in BOOLEAN
        /\ broken' \subseteq SlotNames /\ removed' \cup stuck' \subseteq MediaIds
        /\ queue' \in Seq(MediaIds)
        /\ clock' \in Nat /\ named' \in 0..Cardinality(MediaIds) /\ asked' \in 0..MaxRequests
        /\ failures' \in 0..MaxFailures /\ restarts' \in 0..MaxRestarts
    BY CountersStep
  <2>2. rows' \in [MediaIds -> Row \cup {None}] /\ Gallery' \subseteq 1..named' /\ (Gallery' # {} => listed')
    BY RowsStep DEF RowsFit
  <2>3. DOMAIN bucket' \cup deleting' \cup leaked' \cup twice' \cup Referenced' \subseteq GivenKeys'
    BY KeysStep, ReferencedStep
  <2>4. slots' \in [SlotNames -> Key \cup {None}]
    BY SlotsStep
  <2>5. job'.pc \in {"idle", "transcode", "upload", "update", "withdraw", "fail", "clean"}
    BY JobStep
  <2>6. \A h \in Handlers : req'[h].kind \in mix'.kinds \cup {"none"}
    BY RequestsStep
  <2> QED  BY <2>1, <2>2, <2>3, <2>4, <2>5, <2>6 DEF TypeOK
<1>2. Fits'
  <2>1. pc' \in [Handlers -> Label] /\ DOMAIN req' = Handlers /\ req' = [h \in Handlers |-> req'[h]]
    BY RequestsStep
  <2>2. \A h \in Handlers : InPlace(Bound', pc'[h], req'[h])
    BY RequestsStep
  <2>3. \A i \in Gallery' : RowFits(Bound', i, rows'[i])
    BY RowsStep DEF RowsFit
  <2>4. \A k \in SlotNames : slots'[k] \in KeysOf(k, Bound') \cup {None}
    BY SlotsStep
  <2>5. JobFits'
    BY JobStep
  <2> QED  BY <2>1, <2>2, <2>3, <2>4, <2>5 DEF Fits
<1> QED  BY <1>1, <1>2

-----------------------------------------------------------------------------
(* What a request knows after its step *)

LEMMA StoredRequest ==
    ASSUME Inv, UNCHANGED mix, NEW h \in Handlers, NEW key, Stored(h, key)
    PROVE  /\ pc'[h] = AfterPut(h) /\ req'[h].key = key /\ req'[h].kind = req[h].kind /\ req'[h].id = req[h].id
           /\ req'[h].gone = req[h].gone /\ req'[h].file = req[h].file /\ req'[h].sort = req[h].sort
           /\ \A o \in Handlers \ {h} : pc'[o] = pc[o] /\ req'[o] = req[o]
<1>1. PICK r : /\ GoesOn(h, AfterPut(h), r) /\ r.key = key /\ r.kind = req[h].kind /\ r.id = req[h].id
               /\ r.gone = req[h].gone /\ r.file = req[h].file /\ r.sort = req[h].sort
  BY StoredGoesOn
<1>2. Moves(h, AfterPut(h), r)
  BY <1>1 DEF GoesOn
<1> QED  BY <1>1, <1>2, MovesGive

LEMMA FoundRequest ==
    ASSUME Inv, NEW h \in Handlers, Found(h)
    PROVE  /\ pc'[h] = "delete" /\ req'[h].key = None /\ req'[h].kind = req[h].kind /\ req'[h].id = req[h].id
           /\ req'[h].gone = FilesOf(rows[req[h].id]) /\ req[h].id \in Gallery
           /\ \A o \in Handlers \ {h} : pc'[o] = pc[o] /\ req'[o] = req[o]
<1> DEFINE files == FilesOf(rows[req[h].id])
           r == [req[h] EXCEPT !["gone"] = files]
<1>1. Moves(h, "delete", r) /\ pc[h] = "find" /\ rows[req[h].id] # None
  BY DEF Found
<1>2. req[h].id \in Gallery /\ req[h].key = None
  <2>1. InPlace(Bound, "find", req[h])
    BY <1>1, Standing
  <2> QED  BY <1>1, <2>1 DEF InPlace, HasKey, Gallery
<1> HIDE DEF files
<1>3. r = [kind |-> req[h].kind, id |-> req[h].id, file |-> req[h].file, key |-> req[h].key,
           sort |-> req[h].sort, todo |-> req[h].todo, gone |-> files]
  BY RecordStands, GoneUpdated
<1> HIDE DEF r
<1>4. r.kind = req[h].kind /\ r.key = req[h].key /\ r.id = req[h].id /\ r.gone = files
  BY <1>3
<1> QED  BY <1>1, <1>2, <1>4, MovesGive DEF files

LEMMA DeletedRequest ==
    ASSUME Inv, NEW h \in Handlers, RowDeleted(h)
    PROVE  /\ pc'[h] \in {"idle", "next"} /\ req'[h].key = None /\ req'[h].gone \subseteq req[h].gone
           /\ req[h].id \in Gallery
           /\ \A o \in Handlers \ {h} : pc'[o] = pc[o] /\ req'[o] = req[o]
<1>1. pc[h] = "delete" /\ rows[req[h].id] # None
  BY DEF RowDeleted
<1>2. req[h].id \in Gallery /\ req[h].key = None
  <2>1. InPlace(Bound, "delete", req[h])
    BY <1>1, Standing
  <2> QED  BY <1>1, <2>1 DEF InPlace, HasKey, Gallery
<1>3. CASE Moves(h, "idle", NoReq)
  <2>1. NoReq.key = None /\ NoReq.gone = {}
    BY DEF NoReq
  <2> QED  BY <1>2, <1>3, <2>1, MovesGive
<1>4. CASE ~Moves(h, "idle", NoReq)
  <2> DEFINE rest == Tail(req[h].todo)
             r == [req[h] EXCEPT !["todo"] = rest]
  <2>1. Moves(h, "next", r)
    BY <1>4 DEF RowDeleted
  <2> HIDE DEF rest
  <2>2. r = [kind |-> req[h].kind, id |-> req[h].id, file |-> req[h].file, key |-> req[h].key,
             sort |-> req[h].sort, todo |-> rest, gone |-> req[h].gone]
    BY RecordStands, TodoUpdated
  <2> HIDE DEF r
  <2>3. r.key = req[h].key /\ r.gone = req[h].gone
    BY <2>2
  <2> QED  BY <1>2, <2>1, <2>3, MovesGive
<1> QED  BY <1>3, <1>4

\* The rest of the effects leave a request as it is, or end it.
LEMMA OtherRequest ==
    ASSUME Inv, NEW h \in Handlers,
           \/ Created(h) \/ NotCreated(h) \/ Undone(h) \/ ListingDeleted(h) \/ Exchanged(h)
           \/ Replaced(h) \/ Written(h) \/ NotWritten(h)
    PROVE  /\ \/ pc'[h] \in {"enqueue", "undo", "write"} /\ req'[h] = req[h]
              \/ pc'[h] = "idle" /\ req'[h] = NoReq
           /\ pc'[h] = "write" <=> Replaced(h)
           /\ pc'[h] = "enqueue" <=> Created(h) /\ IsVideo(req[h].file)
           /\ pc'[h] = "undo" <=> NotCreated(h) /\ IsVideo(req[h].file)
           /\ \A o \in Handlers \ {h} : pc'[o] = pc[o] /\ req'[o] = req[o]
<1>1. /\ \/ \E l \in {"enqueue", "undo", "write"} : Moves(h, l, req[h])
         \/ Moves(h, "idle", NoReq)
  BY DEF Created, NotCreated, Undone, ListingDeleted, Exchanged, Replaced, Written, NotWritten
<1>2. /\ Replaced(h) => pc[h] = "replace" /\ pc'[h] = "write"
      /\ Created(h) => pc[h] = "create" /\ pc'[h] = IF IsVideo(req[h].file) THEN "enqueue" ELSE "idle"
      /\ NotCreated(h) => pc[h] = "create" /\ pc'[h] = IF IsVideo(req[h].file) THEN "undo" ELSE "idle"
      /\ Undone(h) \/ ListingDeleted(h) \/ Exchanged(h) \/ Written(h) \/ NotWritten(h) => pc'[h] = "idle"
  BY MovesGive DEF Created, NotCreated, Undone, ListingDeleted, Exchanged, Replaced, Written, NotWritten
<1> QED  BY <1>1, <1>2, MovesGive

\* A key that a request has is one it had, or the one it has just given.
LEMMA KeyAfter ==
    ASSUME Inv, Sorted, UNCHANGED mix, NEW h \in Handlers
    PROVE  req'[h].key \in {req[h].key, None} \/ Stored(h, req'[h].key)
<1>1. CASE \E g \in Handlers : Loud(g) \/ \E l, r : Quiet(g, l, r)
  <2> PICK g \in Handlers : Loud(g) \/ \E l, r : Quiet(g, l, r)
    BY <1>1
  <2>1. CASE \E l, r : Quiet(g, l, r)
    <3> PICK l, r : Quiet(g, l, r)
      BY <2>1
    <3> QED  BY MovesGive DEF Quiet
  <2>2. CASE \E key : Stored(g, key)
    <3> PICK key : Stored(g, key)
      BY <2>2
    <3> QED  BY StoredRequest
  <2>3. CASE Found(g)
    BY <2>3, FoundRequest
  <2>4. CASE RowDeleted(g)
    BY <2>4, DeletedRequest
  <2>5. CASE \/ Created(g) \/ NotCreated(g) \/ Undone(g) \/ ListingDeleted(g) \/ Exchanged(g)
             \/ Replaced(g) \/ Written(g) \/ NotWritten(g)
    <3>1. NoReq.key = None
      BY DEF NoReq
    <3> QED  BY <2>5, <3>1, OtherRequest
  <2> QED  BY <2>1, <2>2, <2>3, <2>4, <2>5 DEF Loud
<1>2. CASE WorkFrame \/ \E key : Deleted(key)
  BY <1>2 DEF WorkFrame, Deleted
<1>3. CASE Restarted
  <2>1. NoReq.key = None
    BY DEF NoReq
  <2> QED  BY <1>3, <2>1 DEF Restarted
<1> QED  BY <1>1, <1>2, <1>3 DEF Sorted

\* What is sent off to be deleted has been named by a row.
LEMMA GoneAfter ==
    ASSUME Inv, Sorted, UNCHANGED mix, NEW h \in Handlers, NEW key \in req'[h].gone
    PROVE  key \in req[h].gone \/ key \in Referenced
<1>1. CASE \E g \in Handlers : Loud(g) \/ \E l, r : Quiet(g, l, r)
  <2> PICK g \in Handlers : Loud(g) \/ \E l, r : Quiet(g, l, r)
    BY <1>1
  <2>1. CASE \E l, r : Quiet(g, l, r)
    <3> PICK l, r : Quiet(g, l, r)
      BY <2>1
    <3>1. CASE h = g
      <4>1. key \in req[h].gone \cup ({slots[k] : k \in SlotNames} \ {None})
        BY <3>1, MovesGive DEF Quiet
      <4>2. DOMAIN slots = SlotNames
        BY DEF Inv, TypeOK
      <4> QED  BY <4>1, <4>2, NamedBy
    <3> QED  BY <3>1, MovesGive DEF Quiet
  <2>2. CASE \E k : Stored(g, k)
    <3> PICK k : Stored(g, k)
      BY <2>2
    <3> QED  BY StoredRequest
  <2>3. CASE Found(g)
    BY <2>3, FoundRequest, NamedBy
  <2>4. CASE RowDeleted(g)
    BY <2>4, DeletedRequest
  <2>5. CASE \/ Created(g) \/ NotCreated(g) \/ Undone(g) \/ ListingDeleted(g) \/ Exchanged(g)
             \/ Replaced(g) \/ Written(g) \/ NotWritten(g)
    <3>1. NoReq.gone = {}
      BY DEF NoReq
    <3> QED  BY <2>5, <3>1, OtherRequest
  <2> QED  BY <2>1, <2>2, <2>3, <2>4, <2>5 DEF Loud
<1>2. CASE WorkFrame \/ \E k : Deleted(k)
  BY <1>2 DEF WorkFrame, Deleted
<1>3. CASE Restarted
  <2>1. NoReq.gone = {}
    BY DEF NoReq
  <2> QED  BY <1>3, <2>1 DEF Restarted
<1> QED  BY <1>1, <1>2, <1>3 DEF Sorted

\* A deletion is begun for what a row names, or has named.
LEMMA DeletingAfter ==
    ASSUME Inv, Sorted, UNCHANGED mix, NEW key \in deleting'
    PROVE  \/ key \in deleting
           \/ \E h \in Handlers : Found(h) /\ req[h].id \in Gallery /\ key \in FilesOf(rows[req[h].id])
           \/ \E h \in Handlers : Replaced(h) /\ key \in req[h].gone
<1>1. ASSUME NEW h \in Handlers, Loud(h)
      PROVE  key \in deleting \/ (Found(h) /\ key \in FilesOf(rows[req[h].id])) \/ (Replaced(h) /\ key \in req[h].gone)
  BY <1>1 DEF Loud, Stored, Created, NotCreated, Undone, Found, RowDeleted, ListingDeleted, Exchanged, Replaced,
    Written, NotWritten
<1> QED  BY <1>1, FoundRequest DEF Sorted, Quiet, Untouched, WorkFrame, Deleted, Restarted

LEMMA GonesStep ==
    ASSUME Inv, Sorted, UNCHANGED mix
    PROVE  deleting' \cup Gones' \subseteq deleting \cup Gones \cup Referenced
<1>1. \A key : key \in Gones <=> \E h \in Handlers : key \in req[h].gone
  BY DEF Gones
<1>2. \A key : key \in Gones' <=> \E h \in Handlers : key \in req'[h].gone
  BY DEF Gones
<1>3. \A key \in Gones' : key \in Gones \cup Referenced
  BY <1>1, <1>2, GoneAfter
<1>4. \A key \in deleting' : key \in deleting \cup Gones \cup Referenced
  BY <1>1, DeletingAfter, NamedBy
<1> QED  BY <1>3, <1>4

\* A key that a row names is one it named, or the one its request has uploaded, or
\* what has been made.
LEMMA ReferencedAfter ==
    ASSUME Inv, Sorted, UNCHANGED mix, NEW key \in Referenced'
    PROVE  \/ key \in Referenced
           \/ \E h \in Handlers : (Created(h) \/ Written(h)) /\ key = req[h].key
           \/ WorkFrame /\ Finished /\ key \in Results
<1>0. DOMAIN slots = SlotNames /\ DOMAIN slots' = SlotNames
  BY SlotsStep DEF Inv, TypeOK
<1>1. ASSUME NEW i \in Gallery', key \in FilesOf(rows'[i])
      PROVE  \/ key \in Referenced
             \/ \E h \in Handlers : Created(h) /\ key = req[h].key
             \/ WorkFrame /\ Finished /\ key \in Results
  <2>1. i \in MediaIds /\ rows'[i] # None
    BY DEF Gallery
  <2>2. CASE rows'[i] = rows[i] \/ SameFiles(i)
    BY <1>1, <2>1, <2>2, NamedBy DEF SameFiles, Gallery
  <2>3. CASE RowAdded(i)
    <3>1. PICK h \in Handlers : Created(h) /\ rows'[i] = NewRow(h)
      BY <2>3 DEF RowAdded
    <3>2. FilesOf(NewRow(h)) = {req[h].key}
      BY <3>1, NewRowIsRow DEF Created
    <3> QED  BY <1>1, <3>1, <3>2
  <2>4. CASE RowReady(i)
    <3>1. key \in {Video(i), Poster(i)} /\ i = job.id /\ WorkFrame /\ Finished
      BY <1>1, <2>4 DEF RowReady, FilesOf
    <3> QED  BY <3>1 DEF Results
  <2>5. CASE RowHasFailed(i)
    <3>1. key = Source(i) /\ i = job.id /\ rows[i] # None /\ Failed
      BY <1>1, <2>5 DEF RowHasFailed, FilesOf
    <3>2. Processing(i)
      BY <3>1, JobStands DEF Failed, JobMoves
    <3>3. i \in Gallery /\ rows[i].url = key
      <4>1. /\ i \in Gallery
            /\ rows[i] = [type |-> "video", url |-> Source(i), posterUrl |-> None,
                          status |-> "PROCESSING", sortOrder |-> rows[i].sortOrder]
        BY <2>1, <3>2, ProcessingRow
      <4> QED  BY <3>1, <4>1
    <3>4. key # None
      BY <1>1 DEF FilesOf
    <3> QED  BY <3>3, <3>4, NamedBy DEF FilesOf
  <2>6. ~RowGone(i)
    BY <2>1 DEF RowGone
  <2> QED  BY <2>1, <2>2, <2>3, <2>4, <2>5, <2>6, RowAfter
<1>2. ASSUME NEW k \in SlotNames, slots'[k] = key, key # None
      PROVE  key \in Referenced \/ \E h \in Handlers : Written(h) /\ key = req[h].key
  <2>1. CASE \E h \in Handlers : Written(h)
    <3> PICK h \in Handlers : Written(h)
      BY <2>1
    <3>1. slots' = [slots EXCEPT ![req[h].kind] = req[h].key]
      BY DEF Written
    <3> QED  BY <1>0, <1>2, <3>1, NamedBy
  <2>2. CASE ~\E h \in Handlers : Written(h)
    <3>1. UNCHANGED slots
      BY <2>2 DEF Sorted, Loud, Stored, Created, NotCreated, Undone, Found, RowDeleted, ListingDeleted, Exchanged, Replaced,
        NotWritten, Quiet, Untouched, WorkFrame, Deleted, Restarted
    <3> QED  BY <1>0, <1>2, <3>1, NamedBy
  <2> QED  BY <2>1, <2>2
<1> QED  BY <1>0, <1>1, <1>2, NamedByNext

\* A file leaves the bucket for a reason.
LEMMA BucketLoses ==
    ASSUME Inv, Sorted, UNCHANGED mix, NEW key \in DOMAIN bucket, key \notin DOMAIN bucket'
    PROVE  \/ \E h \in Handlers : Undone(h) /\ key = req[h].key /\ key = Source(req[h].id)
           \/ Deleted(key)
           \/ WorkFrame /\ Cleaned /\ key = job.src /\ key = Source(job.id)
           \/ WorkFrame /\ TakenBack /\ key \in Results /\ rows[job.id] = None
<1>1. ASSUME NEW h \in Handlers, Loud(h) PROVE Undone(h) /\ key = req[h].key /\ key = Source(req[h].id)
  <2>1. Undone(h) /\ key = req[h].key
    BY <1>1 DEF Loud, Stored, Created, NotCreated, Undone, Found, RowDeleted, ListingDeleted, Exchanged, Replaced,
      Written, NotWritten
  <2>2. InPlace(Bound, "undo", req[h]) /\ req[h].kind = "add"
    BY <2>1, Standing DEF Undone, ComesTo
  <2> QED  BY <2>1, <2>2 DEF InPlace, HasKey
<1>2. CASE WorkFrame /\ AtWork
  <2>1. CASE Cleaned
    BY <1>2, <2>1, JobStands DEF Cleaned
  <2>2. CASE TakenBack
    BY <1>2, <2>2, JobStands DEF TakenBack, JobMoves
  <2>3. ~(Taken \/ Transcoded \/ MadeAll \/ MadeSome \/ Finished \/ TooLate \/ NotFinished \/ Failed)
    BY DEF Taken, Transcoded, MadeAll, MadeSome, Finished, TooLate, NotFinished, Failed
  <2> QED  BY <1>2, <2>1, <2>2, <2>3 DEF AtWork
<1>3. ASSUME NEW k, Deleted(k) PROVE Deleted(key)
  <2>1. k = key
    BY <1>3 DEF Deleted
  <2> QED  BY <1>3, <2>1
<1> QED  BY <1>1, <1>2, <1>3 DEF Sorted, Quiet, Untouched, Restarted

\* And comes into it when it is uploaded or made.
LEMMA BucketGains ==
    ASSUME Inv, Sorted, UNCHANGED mix, NEW key \in DOMAIN bucket', key \notin DOMAIN bucket
    PROVE  \/ \E h \in Handlers : Stored(h, key)
           \/ WorkFrame /\ (MadeAll \/ MadeSome) /\ key \in Results /\ job.pc = "upload"
<1>1. ASSUME NEW h \in Handlers, Loud(h) PROVE Stored(h, key)
  <2>1. \E k : Stored(h, k)
    BY <1>1 DEF Loud, Created, NotCreated, Undone, Found, RowDeleted, ListingDeleted, Exchanged, Replaced,
      Written, NotWritten
  <2>2. PICK k : Stored(h, k)
    BY <2>1
  <2>3. k = key
    BY <2>2 DEF Stored
  <2> QED  BY <2>2, <2>3
<1>2. CASE WorkFrame /\ AtWork
  BY <1>2 DEF AtWork, Taken, Transcoded, MadeAll, MadeSome, Finished, TooLate, NotFinished, TakenBack, Failed, Cleaned, JobMoves
<1> QED  BY <1>1, <1>2 DEF Sorted, Quiet, Untouched, Restarted, Deleted

\* The histories of keys and of removals only grow.
LEMMA HistoryGrows ==
    ASSUME Inv, Sorted, UNCHANGED mix
    PROVE  twice \subseteq twice' /\ leaked \subseteq leaked' /\ removed \subseteq removed'
<1>1. ASSUME NEW h \in Handlers, Loud(h) PROVE twice \subseteq twice' /\ leaked \subseteq leaked' /\ removed \subseteq removed'
  BY <1>1 DEF Loud, Stored, Created, NotCreated, Undone, Found, RowDeleted, ListingDeleted, Exchanged, Replaced,
    Written, NotWritten
<1>2. CASE WorkFrame /\ AtWork
  BY <1>2 DEF WorkFrame, AtWork, Taken, Transcoded, MadeAll, MadeSome, Finished, TooLate, NotFinished, TakenBack, Failed, Cleaned
<1> QED  BY <1>1, <1>2 DEF Sorted, Quiet, Untouched, Restarted, Deleted

-----------------------------------------------------------------------------
(* Ids, and what has not been made yet *)

\* A request that adds has been adding, or has just been given its id.
LEMMA AddingAfter ==
    ASSUME Inv, Sorted, UNCHANGED mix, NEW h \in Handlers, Adding(h)'
    PROVE  \/ Adding(h) /\ req'[h].id = req[h].id
           \/ \E l, r : Quiet(h, l, r) /\ named' = named + 1 /\ req'[h].id = named + 1
<1>1. CASE \E g \in Handlers : Loud(g) \/ \E l, r : Quiet(g, l, r)
  <2> PICK g \in Handlers : Loud(g) \/ \E l, r : Quiet(g, l, r)
    BY <1>1
  <2>1. CASE \E l, r : Quiet(g, l, r)
    <3> PICK l, r : Quiet(g, l, r)
      BY <2>1
    <3>1. CASE h = g
      <4>1. pc'[h] = l /\ req'[h] = r /\ l \in {"put", "create"} /\ r.kind = "add"
        BY <3>1, MovesGive DEF Quiet, Adding
      <4>2. named' = named + 1 /\ r.id = named + 1
        BY <4>1 DEF Quiet
      <4> QED  BY <3>1, <4>1, <4>2
    <3> QED  BY <3>1, MovesGive DEF Quiet, Adding
  <2>2. CASE \E k : Stored(g, k)
    <3> PICK k : Stored(g, k)
      BY <2>2
    <3>1. pc[g] = "put"
      BY DEF Stored
    <3> QED  BY <3>1, StoredRequest DEF Adding
  <2>3. CASE Found(g)
    BY <2>3, FoundRequest DEF Adding
  <2>4. CASE RowDeleted(g)
    BY <2>4, DeletedRequest DEF Adding
  <2>5. CASE \/ Created(g) \/ NotCreated(g) \/ Undone(g) \/ ListingDeleted(g) \/ Exchanged(g)
             \/ Replaced(g) \/ Written(g) \/ NotWritten(g)
    BY <2>5, OtherRequest DEF Adding
  <2> QED  BY <2>1, <2>2, <2>3, <2>4, <2>5 DEF Loud
<1>2. CASE WorkFrame \/ \E k : Deleted(k)
  BY <1>2 DEF WorkFrame, Deleted, Adding
<1>3. CASE Restarted
  BY <1>3 DEF Restarted, Adding
<1> QED  BY <1>1, <1>2, <1>3 DEF Sorted

\* A clip is enqueued under the id its row was created with.
LEMMA EnqueuedAfter ==
    ASSUME Inv, Sorted, UNCHANGED mix, NEW h \in Handlers, pc'[h] = "enqueue"
    PROVE  /\ pc[h] = "enqueue" \/ Created(h)
           /\ HasId(h) /\ req'[h].id = req[h].id /\ req'[h].key = req[h].key
<1>1. CASE \E g \in Handlers : Loud(g) \/ \E l, r : Quiet(g, l, r)
  <2> PICK g \in Handlers : Loud(g) \/ \E l, r : Quiet(g, l, r)
    BY <1>1
  <2>1. CASE \E l, r : Quiet(g, l, r)
    <3> PICK l, r : Quiet(g, l, r)
      BY <2>1
    <3>1. h # g
      BY MovesGive DEF Quiet
    <3> QED  BY <3>1, MovesGive DEF Quiet, HasId
  <2>2. CASE \E k : Stored(g, k)
    <3> PICK k : Stored(g, k)
      BY <2>2
    <3>1. h # g
      <4>1. pc'[g] = AfterPut(g) /\ req[g].kind \in {"add", "icon", "banner"}
        BY StoredRequest, NamesGiven DEF SlotNames
      <4> QED  BY <4>1 DEF AfterPut
    <3> QED  BY <3>1, StoredRequest DEF HasId
  <2>3. CASE Found(g)
    BY <2>3, FoundRequest DEF HasId
  <2>4. CASE RowDeleted(g)
    BY <2>4, DeletedRequest DEF HasId
  <2>5. CASE \/ Created(g) \/ NotCreated(g) \/ Undone(g) \/ ListingDeleted(g) \/ Exchanged(g)
             \/ Replaced(g) \/ Written(g) \/ NotWritten(g)
    <3>1. CASE h = g
      <4>1. Created(h) /\ req'[h] = req[h]
        BY <2>5, <3>1, OtherRequest
      <4>2. pc[h] = "create" /\ req[h].kind = "add"
        BY <4>1, NewRowIsRow DEF Created
      <4> QED  BY <4>1, <4>2 DEF HasId, Adding
    <3> QED  BY <2>5, <3>1, OtherRequest DEF HasId
  <2> QED  BY <2>1, <2>2, <2>3, <2>4, <2>5 DEF Loud
<1>2. CASE WorkFrame \/ \E k : Deleted(k)
  BY <1>2 DEF WorkFrame, Deleted, HasId
<1>3. CASE Restarted
  BY <1>3 DEF Restarted
<1> QED  BY <1>1, <1>2, <1>3 DEF Sorted

\* The job works on what it has worked on, or on a row that is PROCESSING.
LEMMA JobAfter ==
    ASSUME Inv, Sorted, UNCHANGED mix
    PROVE  \/ job' = NoJob
           \/ job.pc # "idle" /\ job'.id = job.id /\ (job'.pc \notin {"idle", "clean"} => job.pc # "clean")
           \/ \E i \in Gallery : Processing(i) /\ job'.id = i
<1>1. CASE UNCHANGED job
  <2>1. job = NoJob \/ job.pc # "idle"
    BY DEF Inv, Fits, JobFits
  <2> QED  BY <1>1, <2>1
<1>2. CASE WorkFrame /\ AtWork
  <2>1. CASE Taken
    <3>1. job' = NoJob \/ \E i \in Gallery : Processing(i) /\ job' = [pc |-> "transcode", id |-> i, src |-> Source(i)]
      BY <2>1 DEF Taken
    <3> QED  BY <3>1
  <2>2. CASE Cleaned
    BY <2>2 DEF Cleaned
  <2>3. CASE ~Taken /\ ~Cleaned
    BY <1>2, <2>3 DEF AtWork, Transcoded, MadeAll, MadeSome, Finished, TooLate, NotFinished, TakenBack, Failed, JobMoves
  <2> QED  BY <2>1, <2>2, <2>3
<1>3. ASSUME NEW h \in Handlers, Loud(h) PROVE UNCHANGED job
  BY <1>3 DEF Loud, Stored, Created, NotCreated, Undone, Found, RowDeleted, ListingDeleted, Exchanged, Replaced, Written, NotWritten
<1> QED  BY <1>1, <1>2, <1>3 DEF Sorted, Quiet, Untouched, Deleted, Restarted

LEMMA JobIsNamed ==
    ASSUME Inv
    PROVE  job.id \in Nat /\ job.id <= named /\ (job.id \in MediaIds => job # NoJob)
<1>1. CASE job = NoJob
  <2>1. job.id = 0 /\ 0 \notin MediaIds
    BY <1>1, Types DEF NoJob, Inv
  <2> QED  BY <1>1, <2>1, Types DEF Inv
<1>2. CASE job # NoJob
  BY <1>2, GalleryIsFinite DEF Inv, Fits, JobFits
<1> QED  BY <1>1, <1>2

LEMMA IdsStep ==
    ASSUME Inv, Sorted, UNCHANGED mix
    PROVE  IdsAreFresh'
<1>n. named \in Nat /\ named' \in Nat /\ named <= named' /\ MediaIds \subseteq Nat
  BY CountersStep, GalleryIsFinite
<1>a. \A h \in Handlers : Adding(h) =>
          /\ req[h].id \in MediaIds /\ req[h].id <= named /\ rows[req[h].id] = None /\ job.id # req[h].id
          /\ \A o \in Handlers \ {h} : HasId(o) => req[o].id # req[h].id
  BY DEF Inv, IdsAreFresh
<1>b. \A h \in Handlers : HasId(h) => req[h].id <= named /\ req[h].id \in Nat
  <2>1. \A h \in Handlers : pc[h] = "enqueue" => req[h].id <= named
    BY DEF Inv, IdsAreFresh
  <2>2. \A h \in Handlers : req[h].id \in Nat
    BY Standing DEF InPlace
  <2> QED  BY <1>a, <2>1, <2>2 DEF HasId
<1>1. ASSUME NEW h \in Handlers, Adding(h), req'[h].id = req[h].id, Adding(h)'
      PROVE  /\ req'[h].id \in MediaIds /\ req'[h].id <= named' /\ rows'[req'[h].id] = None /\ job'.id # req'[h].id
  <2> DEFINE i == req[h].id
  <2>1. i \in MediaIds /\ i <= named /\ rows[i] = None /\ job.id # i
    BY <1>1, <1>a
  <2>2. rows'[i] = None
    <3>1. ~RowAdded(i)
      <4> SUFFICES ASSUME NEW g \in Handlers, Created(g), i = req[g].id PROVE FALSE
        BY DEF RowAdded
      <4>1. HasId(g)
        <5>1. pc[g] = "create" /\ req[g].kind = "add"
          BY NewRowIsRow DEF Created
        <5> QED  BY <5>1 DEF HasId, Adding
      <4>2. g = h
        BY <1>1, <1>a, <4>1
      <4>3. ~Adding(h)'
        BY <4>2, OtherRequest DEF Adding
      <4> QED  BY <1>1, <4>3
    <3>2. ~SameFiles(i) /\ ~RowReady(i) /\ ~RowHasFailed(i)
      BY <2>1 DEF SameFiles, RowReady, RowHasFailed
    <3>3. RowGone(i) => rows'[i] = None
      BY DEF RowGone
    <3> QED  BY <2>1, <3>1, <3>2, <3>3, RowAfter
  <2>3. job'.id # i
    <3>1. job' = NoJob => job'.id = 0
      BY DEF NoJob
    <3>2. i # 0
      BY <2>1, Types DEF Inv
    <3>3. \A k \in Gallery : k # i
      BY <2>1 DEF Gallery
    <3> QED  BY <2>1, <3>1, <3>2, <3>3, JobAfter
  <2>4. i <= named'
    <3>1. i \in Nat
      BY <1>n, <2>1
    <3> HIDE DEF i
    <3> QED  BY <1>n, <2>1, <3>1
  <2> QED  BY <1>1, <2>1, <2>2, <2>3, <2>4
<1>2. ASSUME NEW h \in Handlers, NEW l, NEW r, Quiet(h, l, r), named' = named + 1, req'[h].id = named + 1
      PROVE  /\ req'[h].id \in MediaIds /\ req'[h].id <= named' /\ rows'[req'[h].id] = None /\ job'.id # req'[h].id
  <2>1. named + 1 \in MediaIds /\ UNCHANGED <<rows, job>>
    <3>1. named' # named
      BY <1>2, <1>n
    <3> QED  BY <1>2, <3>1 DEF Quiet, Untouched
  <2>2. rows[named + 1] = None
    <3>1. named + 1 \notin Gallery
      BY <1>n, Types DEF Inv
    <3> QED  BY <2>1, <3>1, Types DEF Inv
  <2>3. job.id # named + 1
    BY <1>n, JobIsNamed
  <2> QED  BY <1>2, <1>n, <2>1, <2>2, <2>3
<1>3. ASSUME NEW h \in Handlers, HasId(h)'
      PROVE  \/ HasId(h) /\ req'[h].id = req[h].id
             \/ \E l, r : Quiet(h, l, r) /\ named' = named + 1 /\ req'[h].id = named + 1
  <2>1. Adding(h)' \/ pc'[h] = "enqueue"
    BY <1>3 DEF HasId
  <2> QED  BY <2>1, AddingAfter, EnqueuedAfter DEF HasId
<1>4. ASSUME NEW h \in Handlers, Adding(h)', NEW o \in Handlers \ {h}, HasId(o)'
      PROVE  req'[o].id # req'[h].id
  <2>1. CASE \E l, r : Quiet(h, l, r) /\ named' = named + 1 /\ req'[h].id = named + 1
    <3>1. pc'[o] = pc[o] /\ req'[o] = req[o]
      BY <2>1, MovesGive DEF Quiet
    <3>2. HasId(o)
      BY <1>4, <3>1 DEF HasId, Adding
    <3> QED  BY <1>b, <1>n, <2>1, <3>1, <3>2
  <2>2. CASE Adding(h) /\ req'[h].id = req[h].id
    <3>1. CASE HasId(o) /\ req'[o].id = req[o].id
      BY <1>a, <2>2, <3>1
    <3>2. CASE req'[o].id = named + 1
      BY <1>a, <1>n, <2>2, <3>2
    <3> QED  BY <1>3, <1>4, <3>1, <3>2
  <2> QED  BY <1>4, <2>1, <2>2, AddingAfter
<1>5. ASSUME NEW h \in Handlers, pc'[h] = "enqueue" PROVE req'[h].id <= named'
  <2>1. HasId(h) /\ req'[h].id = req[h].id
    BY <1>5, EnqueuedAfter
  <2> QED  BY <1>b, <1>n, <2>1
<1>6. ASSUME NEW h \in Handlers, Adding(h)'
      PROVE  /\ req'[h].id \in MediaIds /\ req'[h].id <= named' /\ rows'[req'[h].id] = None /\ job'.id # req'[h].id
  BY <1>1, <1>2, <1>6, AddingAfter
<1> QED  BY <1>4, <1>5, <1>6 DEF IdsAreFresh

\* What is still to be made is named by no row.
LEMMA ToBeMadeUnnamed ==
    ASSUME Inv, NEW i \in MediaIds, ToBeMade(i)
    PROVE  Video(i) \notin Referenced /\ Poster(i) \notin Referenced
<1>1. ASSUME NEW key \in {Video(i), Poster(i)}, NEW j \in Gallery, key \in FilesOf(rows[j])
      PROVE  i \in Gallery /\ rows[i].status = "READY"
  <2>1. RowFits(Bound, j, rows[j]) /\ key \in {rows[j].url, rows[j].posterUrl}
    BY <1>1 DEF Inv, Fits, FilesOf
  <2>2. key # None
    BY <1>1 DEF FilesOf
  <2>3. j = i /\ rows[j].status = "READY"
    BY <1>1, <2>1, <2>2, KeysDiffer DEF RowFits
  <2> QED  BY <2>3
<1>2. ASSUME i \in Gallery, rows[i].status = "READY" PROVE FALSE
  <2>1. i \in 1..named /\ rows[i] # None /\ ~Processing(i)
    BY <1>2, Types DEF Inv, Processing
  <2>2. ~(i > named)
    BY <2>1, Types DEF Inv
  <2>3. ~(job.pc \notin {"idle", "clean"} /\ job.id = i)
    BY <2>1, JobStands
  <2>4. ~\E h \in Handlers : Adding(h) /\ req[h].id = i
    BY <2>1 DEF Inv, IdsAreFresh
  <2> QED  BY <2>1, <2>2, <2>3, <2>4 DEF ToBeMade
<1>3. \A k \in SlotNames : slots[k] # Video(i) /\ slots[k] # Poster(i)
  <2>1. \A k \in SlotNames : slots[k] \in KeysOf(k, Bound) \cup {None}
    BY DEF Inv, Fits
  <2>2. Video(i) # None /\ Poster(i) # None
    <3>1. Video(i) \in Key /\ Poster(i) \in Key
      BY GalleryIsFinite DEF Key, Video, Poster, Owners
    <3> QED  BY <3>1, NoneAssumption
  <2>3. \A k \in SlotNames : \A n : \A key \in KeysOf(k, n) : key # Video(i) /\ key # Poster(i)
    BY KeysDiffer DEF SlotNames
  <2> QED  BY <2>1, <2>2, <2>3
<1>4. DOMAIN slots = SlotNames
  BY DEF Inv, TypeOK
<1> QED  BY <1>1, <1>2, <1>3, <1>4, NamedBy

LEMMA ResultsStep ==
    ASSUME Inv, Sorted, UNCHANGED mix
    PROVE  ResultsAreNew'
<1>1. ASSUME NEW i \in MediaIds, ToBeMade(i)' PROVE ToBeMade(i)
  <2>1. CASE i > named'
    BY <2>1, CountersStep, GalleryIsFinite DEF ToBeMade
  <2>2. CASE Processing(i)'
    <3>1. rows'[i] # None /\ rows'[i].status = "PROCESSING"
      BY <2>2 DEF Processing
    <3>2. CASE rows'[i] = rows[i] \/ SameFiles(i)
      BY <3>1, <3>2 DEF SameFiles, Processing, ToBeMade
    <3>3. CASE RowAdded(i)
      <4>1. PICK h \in Handlers : Created(h) /\ i = req[h].id
        BY <3>3 DEF RowAdded
      <4>2. pc[h] = "create" /\ req[h].kind = "add"
        BY <4>1, NewRowIsRow DEF Created
      <4> QED  BY <4>1, <4>2 DEF ToBeMade, Adding
    <3>4. ~RowReady(i) /\ ~RowHasFailed(i) /\ ~RowGone(i)
      BY <3>1 DEF RowReady, RowHasFailed, RowGone
    <3> QED  BY <3>2, <3>3, <3>4, RowAfter
  <2>3. CASE job'.pc \notin {"idle", "clean"} /\ job'.id = i
    <3>1. job' # NoJob
      BY <2>3 DEF NoJob
    <3> QED  BY <2>3, <3>1, JobAfter DEF ToBeMade
  <2>4. CASE \E h \in Handlers : Adding(h)' /\ req'[h].id = i
    <3> PICK h \in Handlers : Adding(h)' /\ req'[h].id = i
      BY <2>4
    <3>1. named + 1 > named
      BY Types DEF Inv
    <3> QED  BY <3>1, AddingAfter DEF ToBeMade
  <2> QED  BY <1>1, <2>1, <2>2, <2>3, <2>4 DEF ToBeMade
<1>2. ASSUME NEW i \in MediaIds, ToBeMade(i)
      PROVE  Video(i) \notin deleting' \cup Gones' /\ Poster(i) \notin deleting' \cup Gones'
  <2>1. Video(i) \notin deleting \cup Gones /\ Poster(i) \notin deleting \cup Gones
    BY <1>2 DEF Inv, ResultsAreNew
  <2> QED  BY <1>2, <2>1, ToBeMadeUnnamed, GonesStep
<1> QED  BY <1>1, <1>2 DEF ResultsAreNew

-----------------------------------------------------------------------------
(* Pictures, and what is shown *)

\* The key a request holds is that of the source of its clip, or of a picture.
LEMMA HeldKeys ==
    ASSUME Inv, NEW h \in Handlers, req[h].key # None
    PROVE  /\ HasKey(pc[h], req[h].kind)
           /\ \/ req[h].kind = "add" /\ IsVideo(req[h].file) /\ req[h].key = Source(req[h].id)
              \/ req[h].kind = "add" /\ ~IsVideo(req[h].file) /\ pc[h] = "create" /\ req[h].key[1] = "listing"
              \/ req[h].kind \in SlotNames /\ req[h].key[1] = req[h].kind
<1>1. InPlace(Bound, pc[h], req[h]) /\ ComesTo(req[h].kind, pc[h])
  BY Standing
<1>2. HasKey(pc[h], req[h].kind)
  BY <1>1 DEF InPlace
<1>3. req[h].kind \in {"add"} \cup SlotNames
  BY <1>1, <1>2 DEF HasKey, ComesTo, SlotNames
<1> QED  BY <1>1, <1>2, <1>3, KeysDiffer DEF InPlace

\* A picture a request holds, and that nobody else was given.
LEMMA OwnPicture ==
    ASSUME Inv, NEW h \in Handlers, req[h].key # None, req[h].key[1] # "src", req[h].key \notin twice
    PROVE  /\ req[h].key \in DOMAIN bucket
           /\ req[h].key \notin deleting \cup Referenced \cup Gones
           /\ \A o \in Handlers \ {h} : req[o].key # req[h].key
BY DEF Inv, PicturesAreOwn

LEMMA PicturesStep ==
    ASSUME Inv, Sorted, UNCHANGED mix
    PROVE  PicturesAreOwn'
<1> SUFFICES ASSUME NEW h \in Handlers, NEW k, k = req'[h].key, k # None, k[1] # "src", k \notin twice'
             PROVE  /\ k \in DOMAIN bucket'
                    /\ k \notin deleting' \cup Referenced' \cup Gones'
                    /\ \A o \in Handlers \ {h} : req'[o].key # k
  BY DEF PicturesAreOwn
<1>0. k \notin twice
  BY HistoryGrows
<1>1. CASE Stored(h, k)
  <2>1. k \notin InUse
    BY <1>1 DEF Stored
  <2>2. /\ k \notin DOMAIN bucket \cup deleting \cup Referenced /\ \A o \in Handlers : req[o].key # k
        /\ k \notin Gones
    BY <2>1 DEF InUse, Gones
  <2>3. k \in DOMAIN bucket'
    BY <1>1 DEF Stored
  <2>4. k \notin Gones' \cup deleting'
    BY <2>2, GonesStep
  <2>5. \A o \in Handlers \ {h} : req'[o].key = req[o].key
    BY <1>1, StoredRequest
  <2>6. k \notin Referenced'
    <3>1. ~\E g \in Handlers : (Created(g) \/ Written(g)) /\ k = req[g].key
      BY <2>2
    <3>2. ~WorkFrame
      <4>1. pc'[h] # pc[h]
        <5>1. pc[h] = "put" /\ pc'[h] = AfterPut(h) /\ req[h].kind \in {"add", "icon", "banner"}
          BY <1>1, StoredRequest, NamesGiven DEF Stored, SlotNames
        <5> QED  BY <5>1 DEF AfterPut
      <4> QED  BY <4>1 DEF WorkFrame
    <3> QED  BY <2>2, <3>1, <3>2, ReferencedAfter
  <2> QED  BY <2>2, <2>3, <2>4, <2>5, <2>6
<1>2. CASE ~Stored(h, k)
  <2>1. req[h].key = k
    BY <1>2, KeyAfter
  <2>2. /\ k \in DOMAIN bucket
        /\ k \notin deleting \cup Referenced \cup Gones
        /\ \A o \in Handlers \ {h} : req[o].key # k
    BY <1>0, <2>1, OwnPicture
  <2>3. k[1] \in {"listing"} \cup SlotNames
    BY <2>1, HeldKeys, KeysDiffer
  <2>4. k \in DOMAIN bucket'
    <3>1. \A n : k # Source(n) /\ k # Video(n) /\ k # Poster(n)
      BY <2>3, KeysDiffer DEF SlotNames
    <3>2. ~Deleted(k)
      BY <2>2 DEF Deleted
    <3>3. k \notin Results
      BY <3>1 DEF Results
    <3> QED  BY <2>2, <3>1, <3>2, <3>3, BucketLoses
  <2>5. k \notin deleting' \cup Gones'
    BY <2>2, GonesStep
  <2>6. k \notin Referenced'
    <3>1. ~\E g \in Handlers : (Created(g) \/ Written(g)) /\ k = req[g].key
      <4> SUFFICES ASSUME NEW g \in Handlers, Created(g) \/ Written(g), k = req[g].key PROVE FALSE
        OBVIOUS
      <4>1. g = h
        BY <2>2
      <4>2. ~Moves(h, "idle", NoReq)
        <5>1. NoReq.key = None
          BY DEF NoReq
        <5>2. Moves(h, "idle", NoReq) => req'[h] = NoReq
          BY MovesGive
        <5> QED  BY <5>1, <5>2
      <4>3. Created(h) /\ IsVideo(req[h].file)
        BY <4>1, <4>2 DEF Created, Written
      <4>4. k = Source(req[h].id)
        BY <2>1, <4>1, <4>3, NewRowIsRow DEF Created
      <4> QED  BY <4>4, KeysDiffer
    <3>2. k \notin Results
      BY <2>3, KeysDiffer DEF Results, SlotNames
    <3> QED  BY <2>2, <3>1, <3>2, ReferencedAfter
  <2>7. ASSUME NEW o \in Handlers \ {h}, req'[o].key = k PROVE FALSE
    <3>1. req[o].key # k
      BY <2>2
    <3>2. Stored(o, k)
      BY <2>7, <3>1, KeyAfter
    <3>3. k \in InUse
      BY <2>2 DEF InUse
    <3> QED  BY <3>2, <3>3 DEF Stored
  <2> QED  BY <2>4, <2>5, <2>6, <2>7
<1> QED  BY <1>1, <1>2

\* What two rows could share is a picture.
LEMMA OnlyPicturesShared ==
    ASSUME NEW n, NEW i, NEW j, i # j, NEW one, NEW other, RowFits(n, i, one), RowFits(n, j, other),
           NEW key \in FilesOf(one) \cap FilesOf(other)
    PROVE  key[1] = "listing" /\ one.url = key /\ other.url = key
<1>1. key \in {one.url, one.posterUrl} /\ key \in {other.url, other.posterUrl} /\ key # None
  BY DEF FilesOf
<1>2. \/ key = one.url /\ key \in KeysOf("listing", n)
      \/ key \in {Source(i), Video(i), Poster(i)}
  BY <1>1 DEF RowFits
<1>3. \/ key = other.url /\ key \in KeysOf("listing", n)
      \/ key \in {Source(j), Video(j), Poster(j)}
  BY <1>1 DEF RowFits
<1>4. \A k \in KeysOf("listing", n) : k[1] = "listing"
  BY KeysDiffer
<1>5. \A m : Source(m)[1] = "src" /\ Video(m)[1] = "mp4" /\ Poster(m)[1] = "poster"
  BY KeysDiffer
<1>6. ~(key \in {Source(i), Video(i), Poster(i)} /\ key \in {Source(j), Video(j), Poster(j)})
  BY KeysDiffer
<1> QED  BY <1>2, <1>3, <1>4, <1>5, <1>6

\* A picture that a row names after a step was named by that row, or is the one that
\* has just been uploaded for it.
LEMMA PictureAfter ==
    ASSUME Inv, Sorted, UNCHANGED mix, NEW i \in Gallery', NEW key \in FilesOf(rows'[i]), key[1] = "listing"
    PROVE  \/ i \in Gallery /\ key \in FilesOf(rows[i])
           \/ \E h \in Handlers : Created(h) /\ i = req[h].id /\ key = req[h].key
<1>1. i \in MediaIds /\ rows'[i] # None
  BY DEF Gallery
<1>2. key \in {rows'[i].url, rows'[i].posterUrl}
  BY DEF FilesOf
<1>3. key # Source(i) /\ key # Video(i) /\ key # Poster(i) /\ key # None
  BY KeysDiffer DEF FilesOf
<1>4. CASE rows'[i] = rows[i] \/ SameFiles(i)
  BY <1>1, <1>4 DEF SameFiles, Gallery
<1>5. CASE RowAdded(i)
  <2>1. PICK h \in Handlers : Created(h) /\ i = req[h].id /\ rows'[i] = NewRow(h)
    BY <1>5 DEF RowAdded
  <2>2. FilesOf(NewRow(h)) = {req[h].key}
    BY <2>1, NewRowIsRow DEF Created
  <2> QED  BY <2>1, <2>2
<1>6. ~RowReady(i)
  BY <1>2, <1>3 DEF RowReady
<1>7. ~RowHasFailed(i)
  BY <1>2, <1>3 DEF RowHasFailed
<1>8. ~RowGone(i)
  BY <1>1 DEF RowGone
<1> QED  BY <1>1, <1>4, <1>5, <1>6, <1>7, <1>8, RowAfter

LEMMA ShareStep ==
    ASSUME Inv, Sorted, UNCHANGED mix
    PROVE  RowsShareNothing'
<1> SUFFICES ASSUME NEW i \in Gallery', NEW j \in Gallery', i # j,
                    NEW key \in FilesOf(rows'[i]) \cap FilesOf(rows'[j]), key \notin twice'
             PROVE  FALSE
  BY DEF RowsShareNothing, FilesOf
<1>0. key \notin twice
  BY HistoryGrows
<1>1. key[1] = "listing"
  <2>1. RowFits(Bound', i, rows'[i]) /\ RowFits(Bound', j, rows'[j])
    BY RowsStep DEF RowsFit
  <2> QED  BY <2>1, OnlyPicturesShared
<1>2. ASSUME NEW h \in Handlers, Created(h), key = req[h].key
      PROVE  key \notin Referenced /\ \A o \in Handlers \ {h} : req[o].key # key
  <2>1. key # None
    BY DEF FilesOf
  <2> QED  BY <1>0, <1>1, <1>2, <2>1, OwnPicture
<1>3. CASE i \in Gallery /\ j \in Gallery /\ key \in FilesOf(rows[i]) /\ key \in FilesOf(rows[j])
  BY <1>0, <1>3 DEF Inv, RowsShareNothing
<1>4. \A m \in Gallery : key \in FilesOf(rows[m]) => key \in Referenced
  BY NamedBy
<1>5. ASSUME NEW h \in Handlers, Created(h), i = req[h].id, key = req[h].key PROVE FALSE
  BY <1>2, <1>4, <1>5, <1>1, PictureAfter
<1>6. ASSUME NEW h \in Handlers, Created(h), j = req[h].id, key = req[h].key PROVE FALSE
  BY <1>2, <1>4, <1>6, <1>1, PictureAfter
<1> QED  BY <1>1, <1>3, <1>5, <1>6, PictureAfter

LEMMA RowsShownStep ==
    ASSUME Inv, Sorted, UNCHANGED mix
    PROVE  RowsAreShown'
<1> SUFFICES ASSUME NEW i \in Gallery', i \notin removed', rows'[i].status = "READY",
                    NEW key \in FilesOf(rows'[i]), key \notin twice'
             PROVE  key \in DOMAIN bucket' /\ key \notin deleting'
  BY DEF RowsAreShown, Stays, FilesOf
<1>0. key \notin twice /\ i \notin removed /\ i \in MediaIds /\ rows'[i] # None /\ key # None
  BY HistoryGrows DEF Gallery, FilesOf
<1>1. CASE i \in Gallery /\ FilesOf(rows'[i]) = FilesOf(rows[i]) /\ rows[i].status = "READY"
  <2>1. key \in FilesOf(rows[i]) /\ Stays(key)
    BY <1>0, <1>1 DEF Inv, RowsAreShown
  <2>2. RowFits(Bound, i, rows[i]) /\ rows[i] # None
    BY <1>1 DEF Inv, Fits, Gallery
  <2>3. key[1] = "listing" \/ key \in {Video(i), Poster(i)}
    BY <1>1, <2>1, <2>2, KeysDiffer DEF RowFits, FilesOf
  <2>4. key \in DOMAIN bucket'
    <3>1. \A n : key # Source(n)
      BY <2>3, KeysDiffer
    <3>2. ~Deleted(key)
      BY <2>1 DEF Deleted, Stays
    <3>3. key \in Results => job.id = i
      BY <2>3, KeysDiffer DEF Results
    <3> QED  BY <2>1, <2>2, <3>1, <3>2, <3>3, BucketLoses DEF Stays
  <2>5. key \notin deleting'
    <3>1. ASSUME NEW h \in Handlers, Found(h), req[h].id \in Gallery, key \in FilesOf(rows[req[h].id]) PROVE FALSE
      <4>1. req[h].id # i
        BY <3>1 DEF Found
      <4> QED  BY <1>0, <1>1, <2>1, <3>1, <4>1 DEF Inv, RowsShareNothing
    <3>2. ASSUME NEW h \in Handlers, Replaced(h), key \in req[h].gone PROVE FALSE
      <4>1. InPlace(Bound, "replace", req[h]) /\ req[h].kind \in SlotNames
        BY <3>2, Standing DEF Replaced, ComesTo
      <4>2. key[1] \in SlotNames
        BY <3>2, <4>1, KeysDiffer DEF InPlace
      <4> QED  BY <2>3, <4>2, KeysDiffer DEF SlotNames
    <3> QED  BY <2>1, <3>1, <3>2, DeletingAfter DEF Stays
  <2> QED  BY <2>4, <2>5
<1>2. CASE RowAdded(i)
  <2>1. PICK h \in Handlers : Created(h) /\ rows'[i] = NewRow(h)
    BY <1>2 DEF RowAdded
  <2>2. key = req[h].key /\ req[h].key[1] # "src"
    <3>1. FilesOf(NewRow(h)) = {req[h].key}
      BY <2>1, NewRowIsRow DEF Created
    <3>2. ~IsVideo(req[h].file)
      BY <2>1, NewRowIsRow DEF Created
    <3>3. key = req[h].key
      BY <2>1, <3>1
    <3> QED  BY <1>0, <3>2, <3>3, HeldKeys DEF SlotNames
  <2>3. key \in DOMAIN bucket /\ key \notin deleting
    BY <1>0, <2>2, OwnPicture
  <2> QED  BY <2>1, <2>3 DEF Created
<1>3. CASE RowReady(i)
  <2>1. key \in {Video(i), Poster(i)} /\ i = job.id /\ Finished /\ WorkFrame
    BY <1>3 DEF RowReady, FilesOf
  <2>2. job.pc = "update" /\ UNCHANGED <<bucket, deleting>>
    BY <2>1 DEF Finished, JobMoves, WorkFrame
  <2>3. key \in Results /\ Results \subseteq DOMAIN bucket
    BY <2>1, <2>2, JobStands DEF Results
  <2>4. ToBeMade(i)
    BY <2>1, <2>2 DEF ToBeMade
  <2>5. key \notin deleting
    BY <1>0, <2>1, <2>4 DEF Inv, ResultsAreNew
  <2> QED  BY <2>2, <2>3, <2>5
<1>4. ~RowHasFailed(i) /\ ~RowGone(i)
  BY <1>0 DEF RowHasFailed, RowGone
<1>5. CASE rows'[i] = rows[i] \/ SameFiles(i)
  BY <1>0, <1>1, <1>5 DEF SameFiles, Gallery
<1> QED  BY <1>0, <1>2, <1>3, <1>4, <1>5, RowAfter

\* A request that writes has just replaced, or has been writing.
LEMMA WritesAfter ==
    ASSUME Inv, Sorted, UNCHANGED mix, NEW h \in Handlers, pc[h] = "write"
    PROVE  \/ Written(h) \/ NotWritten(h) \/ Restarted
           \/ pc'[h] = "write" /\ req'[h] = req[h]
<1>1. CASE \E g \in Handlers : Loud(g) \/ \E l, r : Quiet(g, l, r)
  <2> PICK g \in Handlers : Loud(g) \/ \E l, r : Quiet(g, l, r)
    BY <1>1
  <2>1. CASE \E l, r : Quiet(g, l, r)
    <3> PICK l, r : Quiet(g, l, r)
      BY <2>1
    <3>1. g # h
      BY DEF Quiet
    <3> QED  BY <3>1, MovesGive DEF Quiet
  <2>2. CASE \E k : Stored(g, k)
    BY <2>2, StoredRequest DEF Stored
  <2>3. CASE Found(g)
    BY <2>3, FoundRequest DEF Found
  <2>4. CASE RowDeleted(g)
    BY <2>4, DeletedRequest DEF RowDeleted
  <2>5. CASE \/ Created(g) \/ NotCreated(g) \/ Undone(g) \/ ListingDeleted(g) \/ Exchanged(g)
             \/ Replaced(g) \/ Written(g) \/ NotWritten(g)
    <3>1. g = h => Written(h) \/ NotWritten(h)
      BY <2>5 DEF Created, NotCreated, Undone, ListingDeleted, Exchanged, Replaced
    <3> QED  BY <2>5, <3>1, OtherRequest
  <2> QED  BY <2>1, <2>2, <2>3, <2>4, <2>5 DEF Loud
<1>2. CASE WorkFrame \/ \E k : Deleted(k)
  BY <1>2 DEF WorkFrame, Deleted
<1> QED  BY <1>1, <1>2 DEF Sorted

\* A slot is left half replaced by a failure or the end of the process, until it is written.
LEMMA BrokenStays ==
    ASSUME Inv, Sorted, UNCHANGED mix, NEW k \in SlotNames, BeingReplaced(k), ~BeingReplaced(k)'
    PROVE  \E h \in Handlers : Written(h) /\ req[h].kind = k
<1>1. CASE k \in broken
  <2>1. k \notin broken'
    BY DEF BeingReplaced
  <2>2. ASSUME NEW h \in Handlers, Loud(h) PROVE Written(h) /\ req[h].kind = k
    BY <1>1, <2>1, <2>2 DEF Loud, Stored, Created, NotCreated, Undone, Found, RowDeleted, ListingDeleted, Exchanged, Replaced,
      Written, NotWritten
  <2> QED  BY <1>1, <2>1, <2>2 DEF Sorted, Quiet, Untouched, WorkFrame, Deleted, Restarted
<1>2. CASE \E h \in Handlers : req[h].kind = k /\ pc[h] = "write"
  <2> PICK h \in Handlers : req[h].kind = k /\ pc[h] = "write"
    BY <1>2
  <2>1. k \notin broken' /\ ~(req'[h].kind = k /\ pc'[h] = "write")
    BY DEF BeingReplaced
  <2>2. ~NotWritten(h)
    BY <2>1 DEF NotWritten
  <2>3. ~Restarted
    BY <2>1 DEF Restarted
  <2> QED  BY <2>1, <2>2, <2>3, WritesAfter
<1> QED  BY <1>1, <1>2 DEF BeingReplaced

LEMMA SlotsShownStep ==
    ASSUME Inv, Sorted, UNCHANGED mix
    PROVE  SlotsAreShown'
<1> SUFFICES ASSUME NEW k \in SlotNames, NEW key, key = slots'[k], key # None, key \notin twice', ~BeingReplaced(k)'
             PROVE  key \in DOMAIN bucket' /\ key \notin deleting'
  BY DEF SlotsAreShown, Stays
<1>0. key \notin twice /\ slots \in [SlotNames -> Key \cup {None}]
  BY HistoryGrows DEF Inv, TypeOK
<1>1. ASSUME NEW h \in Handlers, Written(h), req[h].kind = k
      PROVE  key \in DOMAIN bucket' /\ key \notin deleting'
  <2>1. slots'[k] = req[h].key /\ UNCHANGED <<bucket, deleting>>
    BY <1>0, <1>1 DEF Written
  <2>2. key = req[h].key
    BY <2>1
  <2>3. req[h].key[1] # "src"
    <3>1. req[h].key[1] = req[h].kind
      BY <1>1, <2>2, HeldKeys DEF SlotNames
    <3> QED  BY <1>1, <3>1 DEF SlotNames
  <2> QED  BY <1>0, <2>1, <2>2, <2>3, OwnPicture
<1>2. CASE ~\E h \in Handlers : Written(h) /\ req[h].kind = k
  <2>1. slots[k] = key
    <3>1. ASSUME NEW h \in Handlers, Written(h) PROVE slots'[k] = slots[k]
      <4>1. req[h].kind # k
        BY <1>2, <3>1
      <4> QED  BY <1>0, <3>1, <4>1 DEF Written
    <3>2. (\E h \in Handlers : Written(h)) \/ UNCHANGED slots
      BY DEF Sorted, Loud, Stored, Created, NotCreated, Undone, Found, RowDeleted, ListingDeleted, Exchanged, Replaced,
        NotWritten, Quiet, Untouched, WorkFrame, Deleted, Restarted
    <3> QED  BY <3>1, <3>2
  <2>2. Stays(key)
    <3>1. ~BeingReplaced(k)
      BY <1>2, BrokenStays
    <3> QED  BY <1>0, <2>1, <3>1 DEF Inv, SlotsAreShown
  <2>3. key[1] = k
    BY <2>1, KeysDiffer DEF Inv, Fits
  <2>4. key \in DOMAIN bucket'
    <3>1. \A n : key # Source(n) /\ key # Video(n) /\ key # Poster(n)
      BY <2>3, KeysDiffer DEF SlotNames
    <3>2. ~Deleted(key)
      BY <2>2 DEF Deleted, Stays
    <3>3. key \notin Results
      BY <3>1 DEF Results
    <3> QED  BY <2>2, <3>1, <3>2, <3>3, BucketLoses DEF Stays
  <2>5. key \notin deleting'
    <3>1. ASSUME NEW h \in Handlers, req[h].id \in Gallery, key \in FilesOf(rows[req[h].id]) PROVE FALSE
      <4>1. RowFits(Bound, req[h].id, rows[req[h].id]) /\ key \in {rows[req[h].id].url, rows[req[h].id].posterUrl}
        BY <3>1 DEF Inv, Fits, FilesOf
      <4>2. key # None
        OBVIOUS
      <4>3. key[1] \in {"listing", "src", "mp4", "poster"}
        BY <4>1, <4>2, KeysDiffer DEF RowFits
      <4> QED  BY <2>3, <4>3 DEF SlotNames
    <3>2. ASSUME NEW h \in Handlers, Replaced(h), key \in req[h].gone PROVE FALSE
      <4>1. InPlace(Bound, "replace", req[h]) /\ req[h].kind \in SlotNames
        BY <3>2, Standing DEF Replaced, ComesTo
      <4>2. key[1] = req[h].kind
        BY <3>2, <4>1, KeysDiffer DEF InPlace
      <4>3. pc'[h] = "write" /\ req'[h] = req[h]
        BY <3>2, MovesGive DEF Replaced
      <4> QED  BY <2>3, <4>2, <4>3 DEF BeingReplaced
    <3> QED  BY <2>2, <3>1, <3>2, DeletingAfter DEF Stays
  <2> QED  BY <2>4, <2>5
<1> QED  BY <1>1, <1>2

-----------------------------------------------------------------------------
(* Nothing is forgotten *)

\* A request comes to the deletion, or to the writing, by sending off what is to go.
LEMMA GoneAtWork ==
    ASSUME Inv, Sorted, UNCHANGED mix, NEW h \in Handlers, pc'[h] \in {"delete", "write"}
    PROVE  \/ req'[h].gone \subseteq deleting'
           \/ pc[h] \in {"delete", "write"} /\ req'[h] = req[h]
<1>1. CASE \E g \in Handlers : Loud(g) \/ \E l, r : Quiet(g, l, r)
  <2> PICK g \in Handlers : Loud(g) \/ \E l, r : Quiet(g, l, r)
    BY <1>1
  <2>1. CASE \E l, r : Quiet(g, l, r)
    <3> PICK l, r : Quiet(g, l, r)
      BY <2>1
    <3>1. g # h
      BY MovesGive DEF Quiet
    <3> QED  BY <3>1, MovesGive DEF Quiet
  <2>2. CASE \E k : Stored(g, k)
    <3> PICK k : Stored(g, k)
      BY <2>2
    <3>1. h # g
      <4>1. pc'[g] = AfterPut(g) /\ req[g].kind \in {"add", "icon", "banner"}
        BY StoredRequest, NamesGiven DEF SlotNames
      <4> QED  BY <4>1 DEF AfterPut
    <3> QED  BY <3>1, StoredRequest
  <2>3. CASE Found(g)
    <3>1. deleting' = deleting \cup FilesOf(rows[req[g].id])
      BY <2>3 DEF Found
    <3> QED  BY <2>3, <3>1, FoundRequest
  <2>4. CASE RowDeleted(g)
    BY <2>4, DeletedRequest
  <2>5. CASE \/ Created(g) \/ NotCreated(g) \/ Undone(g) \/ ListingDeleted(g) \/ Exchanged(g)
             \/ Replaced(g) \/ Written(g) \/ NotWritten(g)
    <3>1. g = h => Replaced(h) /\ req'[h] = req[h]
      BY <2>5, OtherRequest
    <3>2. Replaced(h) => deleting' = deleting \cup req[h].gone
      BY DEF Replaced
    <3> QED  BY <2>5, <3>1, <3>2, OtherRequest
  <2> QED  BY <2>1, <2>2, <2>3, <2>4, <2>5 DEF Loud
<1>2. CASE WorkFrame \/ \E k : Deleted(k)
  BY <1>2 DEF WorkFrame, Deleted
<1>3. CASE Restarted
  BY <1>3 DEF Restarted
<1> QED  BY <1>1, <1>2, <1>3 DEF Sorted

\* What is to be deleted, or is leaked, is so or is no longer in the bucket.
LEMMA DeletingKept ==
    ASSUME Inv, Sorted, UNCHANGED mix, ~Restarted, NEW key \in deleting \cup leaked, key \in DOMAIN bucket'
    PROVE  key \in deleting' \cup leaked'
<1>1. CASE key \in leaked
  BY <1>1, HistoryGrows
<1>2. CASE key \in deleting /\ key \notin deleting'
  <2>1. ASSUME NEW h \in Handlers, Loud(h) PROVE FALSE
    BY <1>2, <2>1 DEF Loud, Stored, Created, NotCreated, Undone, Found, RowDeleted, ListingDeleted, Exchanged, Replaced,
      Written, NotWritten
  <2>2. ASSUME NEW k, Deleted(k) PROVE key \in leaked'
    BY <1>2, <2>2 DEF Deleted
  <2> QED  BY <1>2, <2>1, <2>2 DEF Sorted, Quiet, Untouched, WorkFrame
<1> QED  BY <1>1, <1>2

LEMMA GoneStep ==
    ASSUME Inv, Sorted, UNCHANGED mix
    PROVE  GoneIsGone'
<1> SUFFICES ASSUME NEW h \in Handlers, pc'[h] \in {"delete", "write"},
                    NEW key \in req'[h].gone, key \notin twice', key \in DOMAIN bucket'
             PROVE  key \in deleting' \cup leaked'
  BY DEF GoneIsGone
<1>0. key \notin twice
  BY HistoryGrows
<1>1. CASE req'[h].gone \subseteq deleting'
  BY <1>1
<1>2. CASE pc[h] \in {"delete", "write"} /\ req'[h] = req[h]
  <2>1. key \in req[h].gone /\ key \in Gones
    BY <1>2 DEF Gones
  <2>2. ~Restarted
    BY DEF Restarted
  <2>3. CASE key \in DOMAIN bucket
    <3>1. key \in deleting \cup leaked
      BY <1>0, <1>2, <2>1, <2>3 DEF Inv, GoneIsGone
    <3> QED  BY <2>2, <3>1, DeletingKept
  <2>4. CASE key \notin DOMAIN bucket
    <3>1. ASSUME NEW g \in Handlers, Stored(g, key) PROVE FALSE
      <4>1. key \in InUse
        BY <2>1 DEF InUse, Gones
      <4> QED  BY <3>1, <4>1 DEF Stored
    <3>2. ASSUME key \in Results, job.pc = "upload" PROVE FALSE
      <4>1. job.id \in MediaIds /\ ToBeMade(job.id)
        BY <3>2, JobStands DEF ToBeMade
      <4> QED  BY <2>1, <3>2, <4>1 DEF Inv, ResultsAreNew, Results
    <3> QED  BY <2>4, <3>1, <3>2, BucketGains
  <2> QED  BY <2>3, <2>4
<1> QED  BY <1>1, <1>2, GoneAtWork

\* What a request has sent off and is not shared is on its way, or leaked.
LEMMA SentOff ==
    ASSUME Inv, Sorted, UNCHANGED mix, ~Restarted, NEW h \in Handlers, pc[h] \in {"delete", "write"},
           NEW key \in req[h].gone \ twice, key \in DOMAIN bucket, key \in DOMAIN bucket'
    PROVE  key \in deleting' \cup leaked'
<1>1. key \in deleting \cup leaked
  BY DEF Inv, GoneIsGone
<1> QED  BY <1>1, DeletingKept

LEMMA NamedKept ==
    ASSUME Inv, Sorted, UNCHANGED mix, ~Restarted, NEW key \in Referenced,
           key \in DOMAIN bucket, key \in DOMAIN bucket'
    PROVE  key \in Held'
<1>0. DOMAIN slots = SlotNames /\ DOMAIN slots' = SlotNames /\ slots \in [SlotNames -> Key \cup {None}]
  BY SlotsStep DEF Inv, TypeOK
<1>1. ASSUME NEW i \in Gallery, key \in FilesOf(rows[i]) PROVE key \in Held'
  <2>0. i \in MediaIds /\ rows[i] # None
    BY DEF Gallery
  <2>1. CASE (rows'[i] = rows[i] \/ SameFiles(i)) \/ RowHasFailed(i)
    <3>1. rows'[i] # None
      <4>1. CASE RowHasFailed(i)
        <5>1. rows'[i] \in Row \cup {None} /\ rows'[i].status = "FAILED"
          BY <2>0, <4>1, RowsStep DEF RowsFit, RowHasFailed
        <5>2. Processing(job.id) /\ i = job.id /\ job.id \in MediaIds
          BY <4>1, <2>0, JobStands DEF RowHasFailed, Failed, JobMoves
        <5>3. rows[i].sortOrder \in Nat
          BY <2>0, Types DEF Inv, Row
        <5>4. Source(i) \in Key
          BY <2>0, GalleryIsFinite DEF Source, Key, Owners
        <5>5. rows'[i] \in Row
          BY <4>1, <5>3, <5>4 DEF RowHasFailed, Row
        <5> QED  BY <5>5, NoneAssumption
      <4>2. CASE ~RowHasFailed(i)
        BY <2>0, <2>1, <4>2 DEF SameFiles
      <4> QED  BY <4>1, <4>2
    <3>2. i \in Gallery'
      BY <2>0, <3>1 DEF Gallery
    <3>3. key \in FilesOf(rows'[i])
      <4>1. CASE rows'[i] = rows[i] \/ SameFiles(i)
        BY <1>1, <4>1 DEF SameFiles
      <4>2. CASE RowHasFailed(i)
        <5>1. Processing(i)
          BY <2>0, <4>2, JobStands DEF RowHasFailed, Failed, JobMoves
        <5>2. rows[i] = [type |-> "video", url |-> Source(i), posterUrl |-> None,
                         status |-> "PROCESSING", sortOrder |-> rows[i].sortOrder]
          BY <2>0, <5>1, ProcessingRow
        <5>3. rows'[i].url = Source(i) /\ rows'[i].posterUrl = None
          BY <4>2 DEF RowHasFailed
        <5>4. rows[i].url = Source(i) /\ rows[i].posterUrl = None
          BY <5>2
        <5> QED  BY <1>1, <5>3, <5>4 DEF FilesOf
      <4> QED  BY <2>1, <4>1, <4>2
    <3> QED  BY <3>2, <3>3, NamedByNext DEF Held
  <2>2. CASE RowReady(i)
    <3>1. Processing(i) /\ i = job.id /\ job' = [pc |-> "clean", id |-> job.id, src |-> Source(job.id)]
      BY <2>2 DEF RowReady, Finished, JobMoves
    <3>2. rows[i] = [type |-> "video", url |-> Source(i), posterUrl |-> None,
                     status |-> "PROCESSING", sortOrder |-> rows[i].sortOrder]
      BY <2>0, <3>1, ProcessingRow
    <3>3. rows[i].url = Source(i) /\ rows[i].posterUrl = None
      BY <3>2
    <3>4. key = Source(i)
      BY <1>1, <3>3 DEF FilesOf
    <3>5. job'.pc = "clean" /\ job'.src = key
      BY <3>1, <3>4
    <3> QED  BY <3>5 DEF Held, JobHolds
  <2>3. CASE RowGone(i)
    <3> PICK h \in Handlers : ListingDeleted(h) \/ (RowDeleted(h) /\ req[h].id = i)
      BY <2>3 DEF RowGone
    <3>1. CASE ListingDeleted(h)
      <4> DEFINE all == UNION {FilesOf(rows[j]) : j \in Gallery}
      <4>1. leaked' = leaked \cup all
        BY <3>1 DEF ListingDeleted
      <4>2. key \in all
        BY <1>1
      <4> HIDE DEF all
      <4> QED  BY <4>1, <4>2 DEF Held
    <3>2. CASE RowDeleted(h) /\ req[h].id = i
      <4>1. leaked' = leaked \cup (FilesOf(rows[i]) \ (req[h].gone \ twice)) /\ pc[h] = "delete"
        BY <3>2 DEF RowDeleted
      <4> QED  BY <1>1, <4>1, SentOff DEF Held
    <3> QED  BY <3>1, <3>2
  <2>4. ~RowAdded(i)
    BY <2>0 DEF RowAdded
  <2> QED  BY <2>0, <2>1, <2>2, <2>3, <2>4, RowAfter
<1>2. ASSUME NEW k \in SlotNames, slots[k] = key, key # None PROVE key \in Held'
  <2>1. ASSUME NEW h \in Handlers, Written(h), req[h].kind = k PROVE key \in Held'
    <3>1. slots'[k] = req[h].key /\ pc[h] = "write"
          /\ leaked' = leaked \cup ({slots[k]} \ ({None, req[h].key} \cup (req[h].gone \ twice)))
      BY <1>0, <2>1 DEF Written
    <3>2. CASE key = req[h].key
      BY <1>0, <1>2, <3>1, <3>2, NamedByNext DEF Held
    <3>3. CASE key \in req[h].gone \ twice
      BY <3>1, <3>3, SentOff DEF Held
    <3>4. CASE key # req[h].key /\ key \notin req[h].gone \ twice
      BY <1>2, <3>1, <3>4 DEF Held
    <3> QED  BY <3>2, <3>3, <3>4
  <2>2. CASE ~\E h \in Handlers : Written(h) /\ req[h].kind = k
    <3>1. ASSUME NEW h \in Handlers, Written(h) PROVE slots'[k] = slots[k]
      <4>1. req[h].kind # k
        BY <2>2, <3>1
      <4> QED  BY <1>0, <3>1, <4>1 DEF Written
    <3>2. (\E h \in Handlers : Written(h)) \/ UNCHANGED slots
      BY DEF Sorted, Loud, Stored, Created, NotCreated, Undone, Found, RowDeleted, ListingDeleted, Exchanged, Replaced,
        NotWritten, Quiet, Untouched, WorkFrame, Deleted, Restarted
    <3>3. slots'[k] = key
      BY <1>2, <3>1, <3>2
    <3> QED  BY <1>0, <1>2, <3>3, NamedByNext DEF Held
  <2> QED  BY <2>1, <2>2
<1> QED  BY <1>0, <1>1, <1>2, NamedBy

LEMMA WorkedOnKept ==
    ASSUME Inv, Sorted, UNCHANGED mix, ~Restarted, NEW key \in JobHolds, key \in DOMAIN bucket'
    PROVE  key \in Held'
<1>1. CASE UNCHANGED job
  BY <1>1 DEF Held, JobHolds, Results
<1>2. CASE WorkFrame /\ AtWork
  <2>0. job.pc # "idle"
    BY DEF JobHolds
  <2>1. job.src = Source(job.id) /\ job.id \in MediaIds
    BY <2>0, JobStands
  <2>2. CASE Cleaned
    <3>1. key = job.src
      BY <2>2 DEF JobHolds, Cleaned
    <3> QED  BY <2>2, <3>1 DEF Cleaned, Held
  <2>3. CASE ~Cleaned /\ key = job.src
    <3>1. \E step, next : JobMoves(step, next) /\ next # "idle"
      BY <1>2, <2>0, <2>3 DEF AtWork, Taken, Transcoded, MadeAll, MadeSome, Finished, TooLate, NotFinished, TakenBack, Failed
    <3>2. job'.src = key /\ job'.pc # "idle"
      BY <2>1, <2>3, <3>1 DEF JobMoves
    <3> QED  BY <3>2 DEF Held, JobHolds
  <2>4. CASE ~Cleaned /\ key \in Results /\ job.pc \in {"update", "withdraw"}
    <3>1. Finished \/ TooLate \/ NotFinished \/ TakenBack
      BY <1>2, <2>4 DEF AtWork, Taken, Transcoded, MadeAll, MadeSome, Failed, JobMoves
    <3>2. CASE Finished
      <4> DEFINE i == job.id
      <4>1. /\ rows' = [rows EXCEPT ![i] = [type |-> "video", url |-> Video(i), posterUrl |-> Poster(i),
                                            status |-> "READY", sortOrder |-> rows[i].sortOrder]]
        BY <3>2 DEF Finished
      <4> HIDE DEF i
      <4>2. rows'[i].url = Video(i) /\ rows'[i].posterUrl = Poster(i)
        BY <2>1, <4>1, Types DEF Inv, i
      <4>3. Processing(i)
        BY <3>2 DEF Finished, i
      <4>4. rows[i].sortOrder \in Nat
        BY <2>1, <4>3, ProcessingRow DEF Row, i
      <4>5. Video(i) \in Key /\ Poster(i) \in Key
        BY <2>1, GalleryIsFinite DEF Video, Poster, Key, Owners, i
      <4>6. rows'[i] \in Row
        <5>1. rows'[i] = [type |-> "video", url |-> Video(i), posterUrl |-> Poster(i),
                          status |-> "READY", sortOrder |-> rows[i].sortOrder]
          BY <2>1, <4>1, Types DEF Inv, i
        <5> QED  BY <4>4, <4>5, <5>1 DEF Row
      <4>7. i \in Gallery'
        BY <2>1, <4>6, NoneAssumption DEF Gallery, i
      <4>8. key \in {Video(i), Poster(i)} /\ key # None
        BY <2>4, <4>5, NoneAssumption DEF Results, i
      <4>9. key \in FilesOf(rows'[i])
        BY <4>2, <4>8 DEF FilesOf
      <4> QED  BY <4>7, <4>9, NamedByNext DEF Held
    <3>3. CASE TooLate
      <4>1. job'.pc = "withdraw" /\ job'.id = job.id
        BY <3>3 DEF TooLate, JobMoves
      <4>2. Results' = Results
        BY <4>1 DEF Results
      <4> QED  BY <2>4, <4>1, <4>2 DEF Held, JobHolds
    <3>4. CASE NotFinished
      BY <2>4, <3>4 DEF NotFinished, Held
    <3>5. CASE TakenBack
      BY <2>4, <3>5 DEF TakenBack, Held
    <3> QED  BY <3>1, <3>2, <3>3, <3>4, <3>5
  <2> QED  BY <2>2, <2>3, <2>4 DEF JobHolds
<1>3. ASSUME NEW h \in Handlers, Loud(h) PROVE UNCHANGED job
  BY <1>3 DEF Loud, Stored, Created, NotCreated, Undone, Found, RowDeleted, ListingDeleted, Exchanged, Replaced, Written, NotWritten
<1> QED  BY <1>1, <1>2, <1>3 DEF Sorted, Quiet, Untouched, Deleted

LEMMA HeldKept ==
    ASSUME Inv, Sorted, UNCHANGED mix, NEW key \in Held, key \in DOMAIN bucket, key \in DOMAIN bucket'
    PROVE  key \in Held'
<1>1. CASE Restarted
  <2>1. leaked' = leaked \cup (DOMAIN bucket \ Referenced)
    BY <1>1 DEF Restarted
  <2>2. Referenced' = Referenced
    BY <1>1 DEF Restarted, Referenced, Gallery
  <2> QED  BY <2>1, <2>2 DEF Held
<1>2. CASE ~Restarted
  BY <1>2, NamedKept, WorkedOnKept, DeletingKept DEF Held
<1> QED  BY <1>1, <1>2

LEMMA EnqueuedStep ==
    ASSUME Inv, Sorted, UNCHANGED mix
    PROVE  EnqueuedIsHeld'
<1> SUFFICES ASSUME NEW h \in Handlers, pc'[h] = "enqueue", req'[h].key \in DOMAIN bucket'
             PROVE  req'[h].key \in Held'
  BY DEF EnqueuedIsHeld
<1> DEFINE key == req[h].key
<1>1. HasId(h) /\ req'[h].key = key /\ (pc[h] = "enqueue" \/ Created(h))
  BY EnqueuedAfter
<1>2. CASE Created(h)
  <2>1. rows'[req[h].id] = NewRow(h) /\ NewRow(h) # None /\ FilesOf(NewRow(h)) = {key} /\ req[h].id \in MediaIds
    <3>1. rows' = [rows EXCEPT ![req[h].id] = NewRow(h)] /\ pc[h] = "create" /\ DOMAIN rows = MediaIds
      BY <1>2, Types DEF Created, Inv
    <3> QED  BY <3>1, NewRowIsRow
  <2>2. req[h].id \in Gallery'
    BY <2>1 DEF Gallery
  <2>3. key \in FilesOf(rows'[req[h].id])
    BY <2>1
  <2> QED  BY <1>1, <2>2, <2>3, NamedByNext DEF Held
<1>3. CASE pc[h] = "enqueue"
  <2>1. InPlace(Bound, "enqueue", req[h]) /\ req[h].kind = "add"
    BY <1>3, Standing DEF ComesTo
  <2>2. key = Source(req[h].id)
    BY <2>1 DEF InPlace, HasKey
  <2>3. key \in DOMAIN bucket
    <3>1. ASSUME NEW g \in Handlers, Stored(g, key) PROVE FALSE
      <4>1. pc[g] = "put" /\ g # h
        BY <1>3, <3>1 DEF Stored
      <4>2. IsVideo(req[g].file) /\ req[g].kind = "add" /\ key = Source(req[g].id)
        <5>1. key[1] = "src"
          BY <2>2, KeysDiffer
        <5>2. \A o \in {"listing"} \cup SlotNames : key \notin KeysOf(o, Bound')
          BY <5>1, KeysDiffer DEF SlotNames
        <5> QED  BY <3>1, <5>2, NamesGiven
      <4>3. Adding(g)
        BY <4>1, <4>2 DEF Adding
      <4>4. req[g].id # req[h].id
        BY <1>1, <4>1, <4>3 DEF Inv, IdsAreFresh
      <4> QED  BY <2>2, <4>2, <4>4, KeysDiffer
    <3>2. key \notin Results
      BY <2>2, KeysDiffer DEF Results
    <3> QED  BY <1>1, <3>1, <3>2, BucketGains
  <2>4. key \in Held
    BY <1>3, <2>3 DEF Inv, EnqueuedIsHeld
  <2> QED  BY <1>1, <2>3, <2>4, HeldKept
<1> QED  BY <1>1, <1>2, <1>3

\* A key that a request lets go of is kept by something else, or is no longer there.
LEMMA KeyHandedOn ==
    ASSUME Inv, Sorted, UNCHANGED mix, NEW h \in Handlers, NEW key, key = req[h].key, req'[h].key # key,
           key \in DOMAIN bucket, key \in DOMAIN bucket'
    PROVE  key \in Held'
<1>0. key # None /\ HasKey(pc[h], req[h].kind)
  <2>1. key # None
    BY KeysKnown
  <2> QED  BY <2>1, HeldKeys
<1>1. CASE \E g \in Handlers : Loud(g) \/ \E l, r : Quiet(g, l, r)
  <2> PICK g \in Handlers : Loud(g) \/ \E l, r : Quiet(g, l, r)
    BY <1>1
  <2>1. CASE \E l, r : Quiet(g, l, r)
    <3> PICK l, r : Quiet(g, l, r)
      BY <2>1
    <3>1. h = g
      BY MovesGive DEF Quiet
    <3>2. pc[h] = "enqueue"
      BY <3>1, MovesGive DEF Quiet
    <3>3. key \in Held
      BY <3>2 DEF Inv, EnqueuedIsHeld
    <3> QED  BY <3>3, HeldKept
  <2>2. CASE \E k : Stored(g, k)
    <3> PICK k : Stored(g, k)
      BY <2>2
    <3>1. h = g
      BY StoredRequest
    <3>2. pc[h] = "put"
      BY <3>1 DEF Stored
    <3> QED  BY <1>0, <3>2 DEF HasKey
  <2>3. CASE Found(g)
    <3>1. h = g
      BY <2>3, FoundRequest
    <3> QED  BY <1>0, <2>3, <3>1 DEF HasKey, Found
  <2>4. CASE RowDeleted(g)
    <3>1. h = g
      BY <2>4, DeletedRequest
    <3> QED  BY <1>0, <2>4, <3>1 DEF HasKey, RowDeleted
  <2>5. CASE ListingDeleted(g) \/ Exchanged(g) \/ Replaced(g)
    <3>1. h = g
      BY <2>5, OtherRequest
    <3>2. CASE ListingDeleted(g) \/ Exchanged(g)
      BY <1>0, <3>1, <3>2 DEF HasKey, ListingDeleted, Exchanged
    <3>3. CASE Replaced(g)
      BY <3>1, <3>3, MovesGive DEF Replaced
    <3> QED  BY <2>5, <3>2, <3>3
  <2>6. CASE Created(g)
    <3>1. h = g
      BY <2>6, OtherRequest
    <3>2. rows'[req[h].id] = NewRow(h) /\ NewRow(h) # None /\ FilesOf(NewRow(h)) = {key} /\ req[h].id \in MediaIds
      <4>1. rows' = [rows EXCEPT ![req[h].id] = NewRow(h)] /\ pc[h] = "create" /\ DOMAIN rows = MediaIds
        BY <2>6, <3>1, Types DEF Created, Inv
      <4> QED  BY <4>1, NewRowIsRow
    <3>3. req[h].id \in Gallery'
      BY <3>2 DEF Gallery
    <3>4. key \in FilesOf(rows'[req[h].id])
      BY <3>2
    <3> QED  BY <3>3, <3>4, NamedByNext DEF Held
  <2>7. CASE NotCreated(g)
    <3>1. h = g
      BY <2>7, OtherRequest
    <3>2. CASE IsVideo(req[h].file)
      BY <2>7, <3>1, <3>2, MovesGive DEF NotCreated
    <3>3. CASE ~IsVideo(req[h].file)
      BY <2>7, <3>1, <3>3 DEF NotCreated, Held
    <3> QED  BY <3>2, <3>3
  <2>8. CASE Undone(g)
    <3>1. h = g
      BY <2>8, OtherRequest
    <3> QED  BY <2>8, <3>1 DEF Undone, Held
  <2>9. CASE Written(g)
    <3>1. h = g
      BY <2>9, OtherRequest
    <3>2. req[h].kind \in SlotNames
      BY <2>9, <3>1, Standing DEF Written, ComesTo
    <3>3. slots \in [SlotNames -> Key \cup {None}] /\ DOMAIN slots' = SlotNames
      BY SlotsStep DEF Inv, TypeOK
    <3>4. slots'[req[h].kind] = key
      BY <2>9, <3>1, <3>2, <3>3 DEF Written
    <3> QED  BY <1>0, <3>2, <3>3, <3>4, NamedByNext DEF Held
  <2>10. CASE NotWritten(g)
    <3>1. h = g
      BY <2>10, OtherRequest
    <3> QED  BY <2>10, <3>1 DEF NotWritten, Held
  <2> QED  BY <2>1, <2>2, <2>3, <2>4, <2>5, <2>6, <2>7, <2>8, <2>9, <2>10 DEF Loud
<1>2. CASE WorkFrame \/ \E k : Deleted(k)
  BY <1>2 DEF WorkFrame, Deleted
<1>3. CASE Restarted
  <2>1. leaked' = leaked \cup (DOMAIN bucket \ Referenced)
    BY <1>3 DEF Restarted
  <2>2. Referenced' = Referenced
    BY <1>3 DEF Restarted, Referenced, Gallery
  <2> QED  BY <2>1, <2>2 DEF Held
<1> QED  BY <1>1, <1>2, <1>3 DEF Sorted

LEMMA FilesStep ==
    ASSUME Inv, Sorted, UNCHANGED mix
    PROVE  FilesAreHeld'
<1> SUFFICES ASSUME NEW key \in DOMAIN bucket', ~\E h \in Handlers : req'[h].key = key
             PROVE  key \in Held'
  BY DEF FilesAreHeld
<1>1. CASE key \in DOMAIN bucket
  <2>1. CASE key \in Held
    BY <1>1, <2>1, HeldKept
  <2>2. CASE \E h \in Handlers : req[h].key = key
    BY <1>1, <2>2, KeyHandedOn
  <2> QED  BY <1>1, <2>1, <2>2 DEF Inv, FilesAreHeld
<1>2. CASE key \notin DOMAIN bucket
  <2>1. ASSUME NEW h \in Handlers, Stored(h, key) PROVE FALSE
    BY <2>1, StoredRequest
  <2>2. CASE WorkFrame /\ MadeAll /\ key \in Results
    <3>1. job'.pc = "update" /\ job'.id = job.id
      BY <2>2 DEF MadeAll, JobMoves
    <3>2. Results' = Results
      BY <3>1 DEF Results
    <3> QED  BY <2>2, <3>1, <3>2 DEF Held, JobHolds
  <2>3. CASE WorkFrame /\ MadeSome /\ key \in Results
    BY <1>2, <2>3 DEF MadeSome, Held
  <2> QED  BY <1>2, <2>1, <2>2, <2>3, BucketGains
<1> QED  BY <1>1, <1>2


-----------------------------------------------------------------------------
(* One request at a time *)

\* What a step of a request leaves alone.
LEMMA StepIsOwn ==
    ASSUME Inv, UNCHANGED mix, NEW h \in Handlers, Step(h)
    PROVE  /\ pc[h] # "idle" /\ alone' = alone
           /\ \A o \in Handlers \ {h} : pc'[o] = pc[o] /\ req'[o] = req[o]
<1>1. pc[h] # "idle" /\ alone' = alone
  <2>1. CASE Count(h) \/ ReadLast(h) \/ Refuse(h) \/ Upload(h) \/ Create(h) \/ Undo(h) \/ Enqueue(h)
    BY <2>1 DEF Count, ReadLast, Refuse, Upload, Create, Undo, Enqueue, history
  <2>2. CASE Find(h) \/ DeleteRow(h) \/ ListGallery(h) \/ NextOrListing(h) \/ Swap(h) \/ Swapped(h)
    BY <2>2 DEF Find, DeleteRow, ListGallery, NextOrListing, Swap, Swapped, history
  <2>3. CASE ReadSlot(h) \/ Replace(h) \/ WriteSlot(h)
    BY <2>3 DEF ReadSlot, Replace, WriteSlot, history
  <2> QED  BY <2>1, <2>2, <2>3 DEF Step
<1>2. ASSUME NEW l, NEW r, Quiet(h, l, r)
      PROVE  \A o \in Handlers \ {h} : pc'[o] = pc[o] /\ req'[o] = req[o]
  <2>1. Moves(h, l, r)
    BY <1>2 DEF Quiet
  <2> QED  BY <2>1, MovesGive
<1>3. CASE Loud(h)
  BY <1>1, <1>3, StoredRequest, FoundRequest, DeletedRequest, OtherRequest DEF Loud
<1> QED  BY <1>1, <1>2, <1>3, StepsAreSorted

\* A request that has stopped, or is where nothing is asked of it.
LEMMA RightElsewhere ==
    ASSUME NEW h \in Handlers, pc'[h] \notin {"last", "put", "create", "swapped"}
    PROVE  Right(h)'
BY DEF Right, Adding

LEMMA CountIsRight ==
    ASSUME Inv, NEW h \in Handlers, Count(h)
    PROVE  Right(h)'
<1>1. DOMAIN pc = Handlers /\ rows' = rows /\ pc[h] = "count"
  BY Standing DEF Count
<1>2. CASE Done(h)
  BY <1>1, <1>2, RightElsewhere DEF Done
<1>3. CASE Cardinality(Gallery) < MaxMedia /\ Go(h, "last")
  <2>1. pc'[h] = "last"
    BY <1>1, <1>3 DEF Go
  <2>2. Gallery' = Gallery
    BY <1>1 DEF Gallery
  <2> QED  BY <1>3, <2>1, <2>2 DEF Right, Adding
<1>4. Cardinality(Gallery) \in Nat /\ MaxMedia \in Nat
  BY GalleryIsFinite, FS_CardinalityType, BoundsAssumption
<1> QED  BY <1>2, <1>3, <1>4 DEF Count

LEMMA ReadLastIsRight ==
    ASSUME Inv, NEW h \in Handlers, ReadLast(h), Right(h)
    PROVE  Right(h)'
<1> DEFINE r == [req[h] EXCEPT !.sort = NextPlace, !.id = named + 1]
<1>1. pc[h] = "last" /\ Moves(h, "put", r) /\ rows' = rows
  BY DEF ReadLast, Moves, Go
<1>2. r = [kind |-> req[h].kind, id |-> named + 1, file |-> req[h].file, key |-> req[h].key,
           sort |-> NextPlace, todo |-> req[h].todo, gone |-> req[h].gone]
  <2>1. req[h] = [kind |-> req[h].kind, id |-> req[h].id, file |-> req[h].file, key |-> req[h].key,
                  sort |-> req[h].sort, todo |-> req[h].todo, gone |-> req[h].gone]
    BY RecordStands
  <2>2. r = [req[h] EXCEPT !.sort = NextPlace, !.id = named + 1]
    OBVIOUS
  <2> HIDE DEF r
  <2> QED  BY <2>1, <2>2, SortAndIdUpdated
<1> HIDE DEF r
<1>3. r.sort = NextPlace /\ r.kind = req[h].kind
  BY <1>2
<1>4. pc'[h] = "put" /\ req'[h] = r
  BY <1>1, MovesGive
<1>5. req[h].kind = "add"
  BY <1>1, Standing DEF ComesTo
<1>6. Gallery' = Gallery /\ Cardinality(Gallery) < MaxMedia
  BY <1>1, <1>5 DEF Right, Gallery
<1>7. \A i \in Gallery : rows[i].sortOrder < NextPlace
  BY NextPlaceIsLast, Types DEF Inv
<1> QED  BY <1>1, <1>3, <1>4, <1>6, <1>7 DEF Right, Adding

LEMMA StoredIsRight ==
    ASSUME Inv, UNCHANGED mix, NEW h \in Handlers, NEW key, Stored(h, key), Right(h)
    PROVE  Right(h)'
<1>1. /\ pc'[h] = AfterPut(h) /\ req'[h].kind = req[h].kind /\ req'[h].sort = req[h].sort
      /\ rows' = rows /\ pc[h] = "put"
  BY StoredRequest DEF Stored
<1>2. req[h].kind \in {"add"} \cup SlotNames
  BY <1>1, Standing DEF ComesTo
<1>3. CASE req[h].kind \in SlotNames
  <2>1. AfterPut(h) \in {"replace", "read"}
    BY <1>3 DEF SlotNames, AfterPut
  <2> QED  BY <1>1, <2>1, RightElsewhere
<1>4. CASE req[h].kind = "add"
  <2>1. pc'[h] = "create" /\ Gallery' = Gallery
    BY <1>1, <1>4 DEF AfterPut, Gallery
  <2> QED  BY <1>1, <1>4, <2>1 DEF Right, Adding
<1> QED  BY <1>2, <1>3, <1>4

LEMMA SwapIsRight ==
    ASSUME Inv, NEW h \in Handlers, Swap(h)
    PROVE  Right(h)'
<1>1. rows' = rows /\ DOMAIN pc = Handlers
  BY Standing DEF Swap
<1>2. CASE Done(h)
  BY <1>1, <1>2, RightElsewhere DEF Done
<1>3. ASSUME NEW i \in Gallery, NEW j \in Gallery,
             i # j,
             Moves(h, "swapped", [req[h] EXCEPT !["todo"] = <<[id |-> i, sort |-> rows[j].sortOrder],
                                                              [id |-> j, sort |-> rows[i].sortOrder]>>])
      PROVE  Right(h)'
  <2> DEFINE t == <<[id |-> i, sort |-> rows[j].sortOrder], [id |-> j, sort |-> rows[i].sortOrder]>>
             r == [req[h] EXCEPT !["todo"] = t]
  <2>1. Moves(h, "swapped", r)
    BY <1>3
  <2>2. t[1].id = i /\ t[1].sort = rows[j].sortOrder /\ t[2].id = j /\ t[2].sort = rows[i].sortOrder
    OBVIOUS
  <2> HIDE DEF t
  <2>3. r = [kind |-> req[h].kind, id |-> req[h].id, file |-> req[h].file, key |-> req[h].key,
             sort |-> req[h].sort, todo |-> t, gone |-> req[h].gone]
    BY RecordStands, TodoUpdated
  <2> HIDE DEF r
  <2>4. pc'[h] = "swapped" /\ req'[h].todo = t /\ Gallery' = Gallery
    BY <1>1, <2>1, <2>3, MovesGive DEF Gallery
  <2> QED  BY <1>1, <1>3, <2>2, <2>4 DEF Right, Adding
<1> QED  BY <1>2, <1>3, SwapFindsTwo

LEMMA ReadSlotIsRight ==
    ASSUME Inv, NEW h \in Handlers, ReadSlot(h)
    PROVE  Right(h)'
<1> DEFINE old == {slots[req[h].kind]} \ {None}
           r == [req[h] EXCEPT !["gone"] = old]
           l == IF req[h].kind = "icon" THEN "put" ELSE "replace"
<1>1. pc[h] = "read" /\ Moves(h, l, r)
  BY DEF ReadSlot, Moves, Go, Knows
<1> HIDE DEF old
<1>2. r = [kind |-> req[h].kind, id |-> req[h].id, file |-> req[h].file, key |-> req[h].key,
           sort |-> req[h].sort, todo |-> req[h].todo, gone |-> old]
  BY RecordStands, GoneUpdated
<1> HIDE DEF r
<1>3. req'[h].kind = req[h].kind /\ req[h].kind # "add" /\ pc'[h] \in {"put", "replace"}
  BY <1>1, <1>2, MovesGive, Standing DEF ComesTo, SlotNames
<1> QED  BY <1>3 DEF Right, Adding

\* A request that is where it should be stays so by its own step.
LEMMA StepIsRight ==
    ASSUME Inv, UNCHANGED mix, NEW h \in Handlers, Step(h), Right(h)
    PROVE  Right(h)'
<1>d. DOMAIN pc = Handlers
  BY Standing
<1>1. CASE Count(h) \/ ReadLast(h) \/ Swap(h) \/ ReadSlot(h)
  BY <1>1, CountIsRight, ReadLastIsRight, SwapIsRight, ReadSlotIsRight
<1>2. CASE Upload(h)
  <2>1. CASE Done(h)
    BY <1>d, <2>1, RightElsewhere DEF Done
  <2>2. ASSUME NEW key, Stored(h, key) PROVE Right(h)'
    BY <2>2, StoredIsRight
  <2>3. Done(h) \/ \E key \in Names(h) : Knows(h, "key", key) /\ Go(h, AfterPut(h)) /\ DOMAIN bucket' = DOMAIN bucket \cup {key}
                   /\ clock' = (IF IsVideo(req[h].file) THEN clock ELSE key[2])
                   /\ twice' = (IF key \in InUse THEN twice \cup {key} ELSE twice)
                   /\ UNCHANGED failures
    BY <1>2 DEF Upload, Put
  <2>4. pc[h] = "put" /\ UNCHANGED <<mix, listed, rows, slots, deleting, queue, job, named, asked, restarts,
                   removed, broken, alone, stuck, leaked>>
    BY <1>2 DEF Upload, work
  <2>5. ASSUME NEW key \in Names(h), Knows(h, "key", key), Go(h, AfterPut(h)), DOMAIN bucket' = DOMAIN bucket \cup {key},
               clock' = (IF IsVideo(req[h].file) THEN clock ELSE key[2]),
               twice' = (IF key \in InUse THEN twice \cup {key} ELSE twice), UNCHANGED failures
        PROVE  Stored(h, key)
    <3>1. Moves(h, AfterPut(h), [req[h] EXCEPT !["key"] = key])
      BY <2>5, Zenon DEF Moves, Knows, Go
    <3> QED  BY <2>4, <2>5, <3>1 DEF Stored
  <2> QED  BY <2>1, <2>2, <2>3, <2>5
<1>3. CASE Refuse(h) \/ Create(h) \/ Undo(h) \/ Enqueue(h)
  <2>1. pc'[h] \in {"idle", "enqueue", "undo"}
    BY <1>d, <1>3 DEF Refuse, Create, Undo, Enqueue, Done, Go
  <2> QED  BY <2>1, RightElsewhere
<1>4. CASE Find(h) \/ DeleteRow(h) \/ ListGallery(h) \/ NextOrListing(h)
  <2>1. pc'[h] \in {"idle", "delete", "next", "find"}
    BY <1>d, <1>4 DEF Find, DeleteRow, ListGallery, NextOrListing, Done, Go
  <2> QED  BY <2>1, RightElsewhere
<1>5. CASE Swapped(h) \/ Replace(h) \/ WriteSlot(h)
  <2>1. pc'[h] \in {"idle", "write"}
    BY <1>d, <1>5 DEF Swapped, Replace, WriteSlot, Done, Go
  <2> QED  BY <2>1, RightElsewhere
<1> QED  BY <1>1, <1>2, <1>3, <1>4, <1>5 DEF Step


\* A new request is alone when nobody else is at work.
LEMMA AskIsRight ==
    ASSUME Inv, UNCHANGED mix, NEW h \in Handlers, NEW q \in Request, Ask(h, q), alone'
    PROVE  AloneIsRight'
<1> DEFINE r == [NoReq EXCEPT !.kind = q.kind, !.file = q.file, !.id = q.id]
           l == CASE q.kind = "add" -> "count"
               [] q.kind \in {"up", "down"} -> "swap"
               [] q.kind = "remove" -> "find"
               [] q.kind = "removeListing" -> "list"
               [] q.kind = "icon" -> "read"
               [] q.kind = "banner" -> "put"
<1>1. Moves(h, l, r) /\ \A o \in Handlers : pc[o] = "idle"
  BY DEF Ask, Moves, Go
<1>2. q.kind \in mix.kinds /\ mix.kinds \subseteq Kinds
  BY MixesAssumption DEF Request, Inv, TypeOK
<1>3. /\ q.kind = "add" => l = "count"
      /\ q.kind \in {"up", "down"} => l = "swap"
      /\ q.kind = "remove" => l = "find"
      /\ q.kind = "removeListing" => l = "list"
      /\ q.kind = "icon" => l = "read"
      /\ q.kind = "banner" => l = "put"
  OBVIOUS
<1>q. r = [kind |-> q.kind, id |-> q.id, file |-> q.file, key |-> None, sort |-> 0, todo |-> <<>>, gone |-> {}]
  BY AskedRecord
<1> HIDE DEF r, l
<1>r. r.kind = q.kind
  BY <1>q
<1>4. l \in {"count", "swap", "find", "list", "read", "put"} /\ (l = "put" => r.kind = "banner")
  BY <1>2, <1>3, <1>r DEF Kinds, SlotNames
<1>5. pc'[h] = l /\ req'[h] = r /\ \A o \in Handlers \ {h} : pc'[o] = "idle"
  BY <1>1, MovesGive
<1>6. Right(h)'
  BY <1>4, <1>5 DEF Right, Adding
<1>7. \A o \in Handlers \ {h} : Right(o)'
  BY <1>5, RightElsewhere
<1> QED  BY <1>5, <1>6, <1>7 DEF AloneIsRight

SamePlaces ==
    /\ \A i \in MediaIds : rows'[i] # None <=> rows[i] # None
    /\ \A i \in MediaIds : rows[i] # None => rows'[i].sortOrder = rows[i].sortOrder

\* The worker adds no row, takes none away and moves none.
LEMMA WorkKeepsPlaces ==
    ASSUME Inv, Sorted, UNCHANGED mix, \A h \in Handlers : ~Created(h) /\ ~RowDeleted(h) /\ ~ListingDeleted(h) /\ ~Exchanged(h)
    PROVE  SamePlaces
<1>1. ASSUME NEW i \in MediaIds, RowReady(i) \/ RowHasFailed(i)
      PROVE  rows[i] # None /\ rows'[i] # None /\ rows'[i].sortOrder = rows[i].sortOrder
  <2>1. rows[i] # None /\ rows[i] \in Row /\ i = job.id
    BY <1>1, Types DEF Inv, Gallery, RowReady, RowHasFailed
  <2>2. i \in 0..Bound /\ Bound \in Nat
    <3>1. i \in Nat
      BY GalleryIsFinite
    <3>2. i <= named /\ named \in Nat /\ clock \in Nat
      BY <2>1, Types DEF Inv, Gallery
    <3> QED  BY <3>1, <3>2 DEF Bound
  <2>3. Video(i) \in Key /\ Poster(i) \in Key /\ Source(i) \in Key
    BY <2>2, KeysAreGiven
  <2>4. rows[i].sortOrder \in Nat
    BY <2>1 DEF Row
  <2>5. CASE RowReady(i)
    <3>1. rows'[i] = [type |-> "video", url |-> Video(i), posterUrl |-> Poster(i),
                      status |-> "READY", sortOrder |-> rows[i].sortOrder]
      BY <2>5 DEF RowReady
    <3>2. rows'[i] \in Row
      BY <2>3, <2>4, <3>1 DEF Row
    <3> QED  BY <2>1, <3>1, <3>2, NoneAssumption
  <2>6. CASE RowHasFailed(i)
    <3>1. rows'[i] = [type |-> "video", url |-> Source(i), posterUrl |-> None,
                      status |-> "FAILED", sortOrder |-> rows[i].sortOrder]
      BY <2>6 DEF RowHasFailed
    <3>2. rows'[i] \in Row
      BY <2>3, <2>4, <3>1 DEF Row
    <3> QED  BY <2>1, <3>1, <3>2, NoneAssumption
  <2> QED  BY <1>1, <2>5, <2>6
<1>2. \A i \in MediaIds : rows'[i] = rows[i] \/ RowReady(i) \/ RowHasFailed(i)
  BY RowAfter DEF RowAdded, RowGone
<1> QED  BY <1>1, <1>2 DEF SamePlaces

\* Who is not asked does not become alone again.
LEMMA AloneNoMore ==
    ASSUME Sorted PROVE alone' => alone
<1>1. ASSUME NEW h \in Handlers, Loud(h) PROVE alone' = alone
  BY <1>1 DEF Loud, Stored, Created, NotCreated, Undone, Found, RowDeleted, ListingDeleted, Exchanged,
              Replaced, Written, NotWritten
<1> QED  BY <1>1 DEF Sorted, Quiet, Untouched, WorkFrame, Deleted, Restarted

\* A request that does not move stays right while no row moves.
LEMMA StillRight ==
    ASSUME SamePlaces, NEW h \in Handlers, pc'[h] = pc[h], req'[h] = req[h], Right(h)
    PROVE  Right(h)'
<1>1. Gallery' = Gallery
  BY DEF SamePlaces, Gallery
<1>2. \A i \in Gallery : rows'[i].sortOrder = rows[i].sortOrder
  BY DEF SamePlaces, Gallery
<1> QED  BY <1>1, <1>2 DEF Right, Adding

LEMMA AloneStep ==
    ASSUME Inv, Next
    PROVE  AloneIsRight'
<1>m. Sorted /\ UNCHANGED mix
  BY NextIsSorted
<1> SUFFICES ASSUME alone' PROVE AloneIsRight'
  BY DEF AloneIsRight
<1>a. alone /\ (\A h, o \in Handlers : pc[h] # "idle" /\ pc[o] # "idle" => h = o) /\ \A h \in Handlers : Right(h)
  BY <1>m, AloneNoMore DEF Inv, AloneIsRight
<1>1. ASSUME NEW h \in Handlers, NEW r \in Request, Ask(h, r) PROVE AloneIsRight'
  BY <1>m, <1>1, AskIsRight
<1>2. ASSUME NEW h \in Handlers, Step(h) PROVE AloneIsRight'
  <2>1. pc[h] # "idle" /\ \A o \in Handlers \ {h} : pc'[o] = pc[o]
    BY <1>m, <1>2, StepIsOwn
  <2>2. \A o \in Handlers \ {h} : pc'[o] = "idle"
    BY <1>a, <2>1
  <2>3. \A o \in Handlers \ {h} : Right(o)'
    BY <2>2, RightElsewhere
  <2>4. Right(h)'
    BY <1>a, <1>m, <1>2, StepIsRight
  <2>5. \A a, b \in Handlers : pc'[a] # "idle" /\ pc'[b] # "idle" => a = b
    BY <2>2
  <2>6. \A o \in Handlers : Right(o)'
    BY <2>3, <2>4
  <2> QED  BY <2>5, <2>6 DEF AloneIsRight
<1>3. CASE \A h \in Handlers : pc'[h] = pc[h] /\ req'[h] = req[h] /\ SamePlaces
  <2>1. \A o \in Handlers : Right(o)'
    BY <1>a, <1>3, StillRight
  <2>2. \A a, b \in Handlers : pc'[a] # "idle" /\ pc'[b] # "idle" => a = b
    BY <1>a, <1>3
  <2> QED  BY <2>1, <2>2 DEF AloneIsRight
<1>4. ASSUME NEW key \in deleting, Delete(key) PROVE AloneIsRight'
  <2>1. UNCHANGED <<rows, pc, req>>
    BY <1>4 DEF Delete, requests
  <2>2. SamePlaces
    BY <2>1 DEF SamePlaces
  <2> QED  BY <1>3, <2>1, <2>2
<1>5. CASE Work
  <2>1. WorkFrame /\ AtWork
    BY <1>m, <1>5, WorkEffect
  <2>2. UNCHANGED <<pc, req>>
    BY <2>1 DEF WorkFrame
  <2>3. ASSUME NEW h \in Handlers PROVE ~Created(h) /\ ~RowDeleted(h) /\ ~ListingDeleted(h) /\ ~Exchanged(h)
    <3>1. pc'[h] = pc[h]
      BY <2>2
    <3>2. Created(h) => pc[h] = "create" /\ pc'[h] \in {"enqueue", "idle"}
      BY MovesGive DEF Created
    <3>3. RowDeleted(h) => pc[h] = "delete" /\ pc'[h] \in {"next", "idle"}
      BY DeletedRequest DEF RowDeleted
    <3>4. ListingDeleted(h) \/ Exchanged(h) => pc[h] \in {"next", "swapped"} /\ pc'[h] = "idle"
      BY MovesGive DEF ListingDeleted, Exchanged
    <3> QED  BY <3>1, <3>2, <3>3, <3>4
  <2>4. SamePlaces
    BY <1>m, <2>3, WorkKeepsPlaces
  <2> QED  BY <1>3, <2>2, <2>4
<1>6. CASE Restart
  <2>1. \A o \in Handlers : pc'[o] = "idle"
    BY <1>6 DEF Restart
  <2>2. \A o \in Handlers : Right(o)'
    BY <2>1, RightElsewhere
  <2> QED  BY <2>1, <2>2 DEF AloneIsRight
<1> QED  BY <1>1, <1>2, <1>4, <1>5, <1>6 DEF Next


\* Rows that change places.
LEMMA ExchangedPlaces ==
    ASSUME Inv, NEW h \in Handlers, Exchanged(h), rows' # rows, Right(h)
    PROVE  /\ Gallery' = Gallery
           /\ \E a, b \in Gallery :
                 /\ a # b /\ rows'[a].sortOrder = rows[b].sortOrder /\ rows'[b].sortOrder = rows[a].sortOrder
                 /\ \A i \in Gallery \ {a, b} : rows'[i].sortOrder = rows[i].sortOrder
<1> DEFINE one == req[h].todo[1]
           other == req[h].todo[2]
<1>1. /\ pc[h] = "swapped"
      /\ rows' = [i \in MediaIds |->
                    IF i = one.id THEN [rows[i] EXCEPT !.sortOrder = one.sort]
                    ELSE IF i = other.id THEN [rows[i] EXCEPT !.sortOrder = other.sort]
                    ELSE rows[i]]
  BY DEF Exchanged
<1>2. /\ one.id \in Gallery /\ other.id \in Gallery /\ one.id # other.id
      /\ rows[one.id].sortOrder = other.sort /\ rows[other.id].sortOrder = one.sort
  BY <1>1 DEF Right
<1> HIDE DEF one, other
<1>3. \A i \in Gallery : i \in MediaIds /\ rows[i] \in Row
  BY Types DEF Inv
<1>4. rows'[one.id].sortOrder = one.sort
  <2>1. rows[one.id] \in Row /\ rows'[one.id] = [rows[one.id] EXCEPT !.sortOrder = one.sort]
    BY <1>1, <1>2, <1>3
  <2> QED  BY <2>1 DEF Row
<1>5. rows'[other.id].sortOrder = other.sort
  <2>1. rows[other.id] \in Row /\ rows'[other.id] = [rows[other.id] EXCEPT !.sortOrder = other.sort]
    BY <1>1, <1>2, <1>3
  <2> QED  BY <2>1 DEF Row
<1>6. \A i \in Gallery \ {one.id, other.id} : rows'[i].sortOrder = rows[i].sortOrder
  BY <1>1, <1>3
<1>7. Gallery' = Gallery
  <2>1. \A i \in MediaIds : rows'[i] # None <=> rows[i] # None
    BY ExchangedRows DEF SameFiles
  <2> QED  BY <2>1 DEF Gallery
<1> QED  BY <1>2, <1>4, <1>5, <1>6, <1>7

\* One request at a time leaves the gallery within its limit, each row in a place of
\* its own.
LEMMA GalleryStep ==
    ASSUME Inv, Sorted, UNCHANGED mix
    PROVE  GalleryInOrder'
<1> SUFFICES ASSUME alone'
             PROVE  /\ Cardinality(Gallery') <= MaxMedia
                    /\ \A i, j \in Gallery' : rows'[i].sortOrder = rows'[j].sortOrder => i = j
  BY DEF GalleryInOrder
<1>a. alone /\ \A h \in Handlers : Right(h)
  BY AloneNoMore DEF Inv, AloneIsRight
<1>g. /\ Cardinality(Gallery) <= MaxMedia
      /\ \A i, j \in Gallery : rows[i].sortOrder = rows[j].sortOrder => i = j
  BY <1>a DEF Inv, GalleryInOrder
<1>f. /\ IsFiniteSet(Gallery) /\ Cardinality(Gallery) \in Nat /\ MaxMedia \in Nat /\ DOMAIN rows = MediaIds
      /\ Gallery \subseteq MediaIds
      /\ \A i \in Gallery : rows[i].sortOrder \in Nat
  BY GalleryIsFinite, FS_CardinalityType, BoundsAssumption, Types DEF Inv, Row
<1>1. ASSUME NEW h \in Handlers, Created(h)
      PROVE  /\ Cardinality(Gallery') <= MaxMedia
             /\ \A i, j \in Gallery' : rows'[i].sortOrder = rows'[j].sortOrder => i = j
  <2> DEFINE n == req[h].id
  <2>1. /\ pc[h] = "create" /\ rows' = [rows EXCEPT ![n] = NewRow(h)]
        /\ n \in MediaIds /\ rows[n] = None /\ NewRow(h) # None /\ req[h].kind = "add"
        /\ NewRow(h).sortOrder = req[h].sort /\ req[h].sort \in Nat
    <3>1. InPlace(Bound, pc[h], req[h])
      BY Standing
    <3> QED  BY <1>1, <3>1, NewRowIsRow DEF Created, InPlace
  <2> HIDE DEF n
  <2>2. Gallery' = Gallery \cup {n} /\ n \notin Gallery
    BY <1>f, <2>1 DEF Gallery
  <2>3. Cardinality(Gallery) < MaxMedia /\ \A i \in Gallery : rows[i].sortOrder < req[h].sort
    BY <1>a, <2>1 DEF Right, Adding
  <2>4. Cardinality(Gallery') = Cardinality(Gallery) + 1
    BY <1>f, <2>2, FS_AddElement
  <2>5. rows'[n].sortOrder = req[h].sort /\ \A i \in Gallery : rows'[i].sortOrder = rows[i].sortOrder
    BY <1>f, <2>1, <2>2
  <2>6. \A i, j \in Gallery \cup {n} : rows'[i].sortOrder = rows'[j].sortOrder => i = j
    BY <1>f, <1>g, <2>1, <2>3, <2>5
  <2> QED  BY <1>f, <2>2, <2>3, <2>4, <2>6
<1>2. ASSUME NEW h \in Handlers, RowDeleted(h)
      PROVE  /\ Cardinality(Gallery') <= MaxMedia
             /\ \A i, j \in Gallery' : rows'[i].sortOrder = rows'[j].sortOrder => i = j
  <2>1. rows' = [rows EXCEPT ![req[h].id] = None]
    BY <1>2 DEF RowDeleted
  <2>2. Gallery' \in SUBSET Gallery /\ \A i \in Gallery' : rows'[i] = rows[i]
    BY <1>f, <2>1 DEF Gallery
  <2>3. Cardinality(Gallery') <= Cardinality(Gallery) /\ Cardinality(Gallery') \in Nat
    BY <1>f, <2>2, FS_Subset, FS_CardinalityType
  <2> QED  BY <1>f, <1>g, <2>2, <2>3
<1>3. ASSUME NEW h \in Handlers, ListingDeleted(h)
      PROVE  /\ Cardinality(Gallery') <= MaxMedia
             /\ \A i, j \in Gallery' : rows'[i].sortOrder = rows'[j].sortOrder => i = j
  <2>1. Gallery' = {}
    BY <1>3 DEF ListingDeleted, Gallery
  <2> QED  BY <1>f, <2>1, FS_EmptySet
<1>4. ASSUME NEW h \in Handlers, Exchanged(h), rows' # rows
      PROVE  /\ Cardinality(Gallery') <= MaxMedia
             /\ \A i, j \in Gallery' : rows'[i].sortOrder = rows'[j].sortOrder => i = j
  <2>1. Gallery' = Gallery
    BY <1>a, <1>4, ExchangedPlaces
  <2>2. PICK a \in Gallery, b \in Gallery :
                 /\ a # b /\ rows'[a].sortOrder = rows[b].sortOrder /\ rows'[b].sortOrder = rows[a].sortOrder
                 /\ \A i \in Gallery \ {a, b} : rows'[i].sortOrder = rows[i].sortOrder
    BY <1>a, <1>4, ExchangedPlaces
  <2> QED  BY <1>g, <2>1, <2>2
<1>5. CASE SamePlaces
  <2>1. Gallery' = Gallery /\ \A i \in Gallery : rows'[i].sortOrder = rows[i].sortOrder
    BY <1>5 DEF SamePlaces, Gallery
  <2> QED  BY <1>g, <2>1
<1>6. CASE UNCHANGED rows
  <2>1. SamePlaces
    BY <1>6 DEF SamePlaces
  <2> QED  BY <1>5, <2>1
<1>7. CASE \A h \in Handlers : ~Created(h) /\ ~RowDeleted(h) /\ ~ListingDeleted(h) /\ ~Exchanged(h)
  BY <1>5, <1>7, WorkKeepsPlaces
<1> QED  BY <1>1, <1>2, <1>3, <1>4, <1>6, <1>7


-----------------------------------------------------------------------------
(* The beginning *)

LEMMA HeldKeysDiffer ==
    /\ \A i \in Nat : HeldKey(i) \in Key /\ HeldKey(i) \in {"src", "listing"} \X {i}
    /\ \A i, j : HeldKey(i) = HeldKey(j) => i = j
BY DEF HeldKey, Source, Picture, Key, Owners

\* The gallery the process starts over.
LEMMA GalleryAtFirst ==
    ASSUME Init
    PROVE  /\ Gallery = DOMAIN mix.held /\ DOMAIN mix.held = 1..Len(mix.held) /\ DOMAIN mix.held \subseteq MediaIds
           /\ Len(mix.held) \in Nat /\ Len(mix.held) <= MaxMedia /\ Len(mix.held) <= Cardinality(MediaIds)
           /\ rows \in [MediaIds -> Row \cup {None}]
           /\ \A i \in Gallery : /\ rows[i].type = mix.held[i].type /\ rows[i].url = HeldKey(i)
                                 /\ rows[i].posterUrl = None /\ rows[i].sortOrder = i - 1
                                 /\ rows[i].status = IF IsVideo(mix.held[i]) THEN "PROCESSING" ELSE "READY"
                                 /\ rows[i].type \in {"image", "video"}
                                 /\ FilesOf(rows[i]) = {HeldKey(i)}
<1>1. /\ Len(mix.held) \in MediaIds \cup {0} /\ Len(mix.held) <= MaxMedia /\ DOMAIN mix.held = 1..Len(mix.held)
      /\ \A i \in DOMAIN mix.held : mix.held[i].type \in {"image", "video"}
  BY MixesAssumption DEF Init
<1>2. /\ MediaIds \subseteq Nat /\ Cardinality(MediaIds) \in Nat /\ MediaIds = 1..Cardinality(MediaIds)
  BY GalleryIsFinite, IdsAssumption
<1>3. Len(mix.held) \in Nat /\ Len(mix.held) <= Cardinality(MediaIds)
  BY <1>1, <1>2
<1>4. DOMAIN mix.held \subseteq MediaIds /\ DOMAIN mix.held \subseteq Nat
  BY <1>1, <1>2, <1>3
<1>5. rows = [i \in MediaIds |->
                  IF i \in DOMAIN mix.held
                  THEN [type |-> mix.held[i].type, url |-> HeldKey(i), posterUrl |-> None,
                        status |-> IF IsVideo(mix.held[i]) THEN "PROCESSING" ELSE "READY",
                        sortOrder |-> i - 1]
                  ELSE None]
  BY DEF Init
<1>6. ASSUME NEW i \in DOMAIN mix.held
      PROVE  /\ rows[i] = [type |-> mix.held[i].type, url |-> HeldKey(i), posterUrl |-> None,
                           status |-> IF IsVideo(mix.held[i]) THEN "PROCESSING" ELSE "READY", sortOrder |-> i - 1]
             /\ rows[i] \in Row /\ rows[i] # None
  <2>1. rows[i] = [type |-> mix.held[i].type, url |-> HeldKey(i), posterUrl |-> None,
                   status |-> IF IsVideo(mix.held[i]) THEN "PROCESSING" ELSE "READY", sortOrder |-> i - 1]
    BY <1>4, <1>5
  <2>2. HeldKey(i) \in Key /\ mix.held[i].type \in {"image", "video"}
    BY <1>1, <1>4, HeldKeysDiffer
  <2>3. i - 1 \in Nat
    BY <1>1, <1>3
  <2>4. rows[i] \in Row
    BY <2>1, <2>2, <2>3 DEF Row
  <2> QED  BY <2>1, <2>4, NoneAssumption
<1>7. Gallery = DOMAIN mix.held
  <2>1. \A i \in MediaIds : i \notin DOMAIN mix.held => rows[i] = None
    BY <1>5
  <2> QED  BY <1>4, <1>6, <2>1 DEF Gallery
<1>8. rows \in [MediaIds -> Row \cup {None}]
  <2>1. \A i \in MediaIds : rows[i] \in Row \cup {None}
    <3>1. \A i \in MediaIds : i \notin DOMAIN mix.held => rows[i] = None
      BY <1>5
    <3> QED  BY <1>6, <3>1
  <2>2. DOMAIN rows = MediaIds /\ rows = [i \in MediaIds |-> rows[i]]
    BY <1>5
  <2> QED  BY <2>1, <2>2
<1>9. ASSUME NEW i \in Gallery
      PROVE  /\ rows[i].type = mix.held[i].type /\ rows[i].url = HeldKey(i)
             /\ rows[i].posterUrl = None /\ rows[i].sortOrder = i - 1
             /\ rows[i].status = IF IsVideo(mix.held[i]) THEN "PROCESSING" ELSE "READY"
             /\ rows[i].type \in {"image", "video"}
             /\ FilesOf(rows[i]) = {HeldKey(i)}
  <2>1. rows[i] = [type |-> mix.held[i].type, url |-> HeldKey(i), posterUrl |-> None,
                   status |-> IF IsVideo(mix.held[i]) THEN "PROCESSING" ELSE "READY", sortOrder |-> i - 1]
    BY <1>6, <1>7
  <2>2. /\ rows[i].type = mix.held[i].type /\ rows[i].url = HeldKey(i)
        /\ rows[i].posterUrl = None /\ rows[i].sortOrder = i - 1
        /\ rows[i].status = IF IsVideo(mix.held[i]) THEN "PROCESSING" ELSE "READY"
    BY <2>1
  <2>3. HeldKey(i) \in Key
    BY <1>4, <1>7, HeldKeysDiffer
  <2>4. FilesOf(rows[i]) = {HeldKey(i)}
    BY <2>2, <2>3, NoneAssumption DEF FilesOf
  <2> QED  BY <1>1, <1>7, <2>2, <2>4
<1> QED  BY <1>1, <1>3, <1>4, <1>7, <1>8, <1>9

LEMMA BucketAtFirst ==
    ASSUME Init
    PROVE  /\ DOMAIN bucket = {HeldKey(i) : i \in Gallery} /\ Referenced = {HeldKey(i) : i \in Gallery}
           /\ DOMAIN bucket \subseteq GivenKeys
<1>1. /\ Gallery = DOMAIN mix.held /\ DOMAIN mix.held = 1..Len(mix.held) /\ Len(mix.held) \in Nat
      /\ \A i \in Gallery : FilesOf(rows[i]) = {HeldKey(i)}
  BY GalleryAtFirst
<1>2. DOMAIN bucket = {HeldKey(i) : i \in Gallery}
  BY <1>1 DEF Init
<1>3. \A key : key \in Referenced <=> \E i \in Gallery : key = HeldKey(i)
  <2>1. \A k \in DOMAIN slots : slots[k] = None
    BY DEF Init
  <2>2. \A key : key \in Referenced <=> \E i \in Gallery : key \in FilesOf(rows[i])
    BY <2>1, NamedBy
  <2>3. \A i \in Gallery : \A key : key \in FilesOf(rows[i]) <=> key = HeldKey(i)
    BY <1>1
  <2> QED  BY <2>2, <2>3
<1>4. ASSUME NEW i \in Gallery PROVE HeldKey(i) \in GivenKeys
  <2>1. named = Len(mix.held) /\ clock = Len(mix.held)
    BY DEF Init
  <2>2. i \in 0..(named + clock) /\ i \in Nat
    BY <1>1, <2>1
  <2>3. HeldKey(i) \in {"src", "listing"} \X {i}
    BY <2>2, HeldKeysDiffer
  <2> QED  BY <2>2, <2>3 DEF GivenKeys, Owners
<1> QED  BY <1>2, <1>3, <1>4


LEMMA TypesAtFirst ==
    ASSUME Init PROVE TypeOK
<1>1. /\ mix \in Mixes /\ listed \in BOOLEAN /\ alone \in BOOLEAN /\ broken \subseteq SlotNames
      /\ removed \cup stuck \subseteq MediaIds /\ asked = 0 /\ failures = 0 /\ restarts = 0
      /\ job.pc = "idle" /\ slots \in [SlotNames -> Key \cup {None}]
      /\ named = Len(mix.held) /\ clock = Len(mix.held) /\ listed
  BY DEF Init, NoJob
<1>2. queue \in Seq(MediaIds)
  BY ResumeType DEF Init
<1>3. /\ rows \in [MediaIds -> Row \cup {None}] /\ Gallery = 1..Len(mix.held) /\ Len(mix.held) \in Nat
      /\ Len(mix.held) <= Cardinality(MediaIds)
  BY GalleryAtFirst
<1>4. named \in 0..Cardinality(MediaIds) /\ clock \in Nat /\ Gallery \subseteq 1..named
  BY <1>1, <1>3, GalleryIsFinite
<1>5. DOMAIN bucket \cup deleting \cup leaked \cup twice \cup Referenced \subseteq GivenKeys
  BY BucketAtFirst DEF Init
<1>6. \A h \in Handlers : req[h].kind \in mix.kinds \cup {"none"}
  BY DEF Init, NoReq
<1>7. asked \in 0..MaxRequests /\ failures \in 0..MaxFailures /\ restarts \in 0..MaxRestarts
  BY <1>1, BoundsAssumption
<1> QED  BY <1>1, <1>2, <1>3, <1>4, <1>5, <1>6, <1>7 DEF TypeOK

LEMMA FitsAtFirst ==
    ASSUME Init PROVE Fits
<1>1. /\ pc = [h \in Handlers |-> "idle"] /\ req = [h \in Handlers |-> NoReq] /\ job = NoJob
      /\ \A k \in SlotNames : slots[k] = None
      /\ named = Len(mix.held) /\ clock = Len(mix.held)
  BY DEF Init
<1>2. pc \in [Handlers -> Label] /\ DOMAIN req = Handlers /\ req = [h \in Handlers |-> req[h]]
  BY <1>1 DEF Label
<1>3. \A h \in Handlers : InPlace(Bound, pc[h], req[h])
  BY <1>1, IdleInPlace
<1>4. ASSUME NEW i \in Gallery PROVE RowFits(Bound, i, rows[i])
  <2>1. /\ rows[i].type = mix.held[i].type /\ rows[i].url = HeldKey(i) /\ rows[i].posterUrl = None
        /\ rows[i].status = IF IsVideo(mix.held[i]) THEN "PROCESSING" ELSE "READY"
        /\ rows[i].type \in {"image", "video"}
    BY GalleryAtFirst
  <2>2. i \in 0..Bound
    <3>1. Gallery = 1..Len(mix.held) /\ Len(mix.held) \in Nat
      BY GalleryAtFirst
    <3>2. Bound = Len(mix.held) + Len(mix.held)
      BY <1>1 DEF Bound
    <3> QED  BY <3>1, <3>2
  <2>3. CASE IsVideo(mix.held[i])
    BY <2>1, <2>3 DEF RowFits, IsVideo, HeldKey
  <2>4. CASE ~IsVideo(mix.held[i])
    <3>1. HeldKey(i) \in KeysOf("listing", Bound)
      BY <2>2, <2>4 DEF HeldKey, Picture, KeysOf
    <3> QED  BY <2>1, <2>4, <3>1 DEF RowFits, IsVideo
  <2> QED  BY <2>3, <2>4
<1> QED  BY <1>1, <1>2, <1>3, <1>4 DEF Fits, JobFits

\* At first the gallery is all there is.
LEMMA InvAtFirst ==
    ASSUME Init PROVE Inv
<1>1. /\ \A h \in Handlers : /\ pc[h] = "idle" /\ req[h].key = None /\ req[h].gone = {}
                             /\ req[h].kind = "none"
      /\ \A k \in SlotNames : slots[k] = None
      /\ deleting = {} /\ leaked = {} /\ twice = {} /\ removed = {}
  BY DEF Init, NoReq
<1>2. /\ \A i \in Gallery : FilesOf(rows[i]) = {HeldKey(i)} /\ rows[i].sortOrder = i - 1
      /\ Gallery = 1..Len(mix.held) /\ Len(mix.held) \in Nat /\ Len(mix.held) <= MaxMedia
  BY GalleryAtFirst
<1>3. DOMAIN bucket = {HeldKey(i) : i \in Gallery} /\ Referenced = {HeldKey(i) : i \in Gallery}
  BY BucketAtFirst
<1>4. IdsAreFresh
  BY <1>1 DEF IdsAreFresh, Adding
<1>5. ResultsAreNew
  BY <1>1 DEF ResultsAreNew, Gones
<1>6. PicturesAreOwn
  BY <1>1 DEF PicturesAreOwn
<1>7. RowsShareNothing
  <2>1. ASSUME NEW i \in Gallery, NEW j \in Gallery, i # j
        PROVE  FilesOf(rows[i]) \cap FilesOf(rows[j]) = {}
    <3>1. HeldKey(i) # HeldKey(j)
      BY <2>1, HeldKeysDiffer
    <3>2. FilesOf(rows[i]) = {HeldKey(i)} /\ FilesOf(rows[j]) = {HeldKey(j)}
      BY <1>2
    <3> QED  BY <3>1, <3>2
  <2> QED  BY <2>1 DEF RowsShareNothing
<1>8. RowsAreShown
  BY <1>1, <1>2, <1>3 DEF RowsAreShown, Stays
<1>9. SlotsAreShown /\ GoneIsGone /\ EnqueuedIsHeld
  BY <1>1 DEF SlotsAreShown, GoneIsGone, EnqueuedIsHeld
<1>10. FilesAreHeld
  BY <1>3 DEF FilesAreHeld, Held
<1>11. AloneIsRight
  BY <1>1 DEF AloneIsRight, Right, Adding
<1>12. GalleryInOrder
  <2>1. Cardinality(Gallery) = Len(mix.held)
    BY <1>2, FS_Interval
  <2>2. \A i, j \in Gallery : i - 1 = j - 1 => i = j
    BY <1>2
  <2> QED  BY <1>2, <2>1, <2>2 DEF GalleryInOrder
<1> QED  BY <1>4, <1>5, <1>6, <1>7, <1>8, <1>9, <1>10, <1>11, <1>12, TypesAtFirst, FitsAtFirst DEF Inv

-----------------------------------------------------------------------------
(* The theorems *)

LEMMA InvStep ==
    ASSUME Inv, Next PROVE Inv'
<1>1. Sorted /\ UNCHANGED mix
  BY NextIsSorted
<1> QED  BY <1>1, TypesStep, IdsStep, ResultsStep, PicturesStep, ShareStep, RowsShownStep, SlotsShownStep,
            GoneStep, EnqueuedStep, FilesStep, AloneStep, GalleryStep DEF Inv

LEMMA InvStutters ==
    ASSUME Inv, UNCHANGED vars PROVE Inv'
<1> USE DEF vars, disk, work, requests, counters, world, history
<1>1. TypeOK'
  BY DEF Inv, TypeOK, Gallery, Referenced, FilesOf, GivenKeys
<1>2. Fits'
  BY DEF Inv, Fits, JobFits, Gallery, Bound, InPlace, RowFits, Results, Processing
<1>3. IdsAreFresh' /\ ResultsAreNew'
  BY DEF Inv, IdsAreFresh, Adding, HasId, ResultsAreNew, ToBeMade, Gones, Processing
<1>4. PicturesAreOwn' /\ RowsShareNothing' /\ RowsAreShown'
  BY DEF Inv, PicturesAreOwn, RowsShareNothing, RowsAreShown, Gones, Referenced, Gallery, FilesOf, Stays
<1>5. SlotsAreShown' /\ GoneIsGone'
  BY DEF Inv, SlotsAreShown, GoneIsGone, Stays, BeingReplaced
<1>6. EnqueuedIsHeld' /\ FilesAreHeld'
  BY DEF Inv, EnqueuedIsHeld, FilesAreHeld, Held, JobHolds, Results, Referenced, Gallery, FilesOf
<1>7. AloneIsRight' /\ GalleryInOrder'
  BY DEF Inv, AloneIsRight, Right, Adding, GalleryInOrder, Gallery
<1> QED  BY <1>1, <1>2, <1>3, <1>4, <1>5, <1>6, <1>7 DEF Inv

\* The invariant of which the theorems are parts.
LEMMA InvAlways == Spec => []Inv
<1>1. Init => Inv
  BY InvAtFirst
<1>2. Inv /\ [Next]_vars => Inv'
  BY InvStep, InvStutters
<1> QED  BY <1>1, <1>2, PTL DEF Spec

\* GalleryHolds: what is shown is in the bucket, and the gallery keeps its limit and
\* its order as long as requests come one at a time.
THEOREM TheGalleryHolds == Spec => []GalleryHolds
<1>1. ASSUME Inv PROVE ShownFilesExist
  <2>1. ASSUME NEW i \in Gallery \ removed, rows[i].status = "READY"
        PROVE  FilesOf(rows[i]) \subseteq DOMAIN bucket \cup twice
    BY <1>1, <2>1 DEF Inv, RowsAreShown, Stays
  <2>2. ASSUME NEW k \in SlotNames \ broken
        PROVE  \/ slots[k] \in DOMAIN bucket \cup twice \cup {None}
               \/ \E h \in Handlers : req[h].kind = k /\ pc[h] = "write"
    BY <1>1, <2>2 DEF Inv, SlotsAreShown, BeingReplaced, Stays
  <2> QED  BY <2>1, <2>2 DEF ShownFilesExist
<1>2. Inv => GalleryHolds
  BY <1>1 DEF Inv, GalleryHolds
<1> QED  BY <1>2, InvAlways, PTL

\* FilesAreAccountedFor: no file is forgotten by the code itself.
THEOREM NoFileIsForgotten == Spec => []FilesAreAccountedFor
<1>1. ASSUME Inv, NEW key \in DOMAIN bucket PROVE key \in Referenced \cup InHand \cup leaked
  <2>1. key # None
    <3>1. key \in Key
      BY <1>1, KeysAreGiven, Types DEF Inv, TypeOK, GivenKeys, Key
    <3> QED  BY <3>1, NoneAssumption
  <2>2. CASE key \in Held
    BY <2>2 DEF Held, JobHolds, InHand
  <2>3. ASSUME NEW h \in Handlers, req[h].key = key PROVE key \in InHand
    BY <2>1, <2>3 DEF InHand
  <2> QED  BY <1>1, <2>2, <2>3 DEF Inv, FilesAreHeld
<1>2. Inv => FilesAreAccountedFor
  BY <1>1 DEF FilesAreAccountedFor
<1> QED  BY <1>2, InvAlways, PTL

-----------------------------------------------------------------------------
(* The storefront cache, a system of its own with variables of its own.  IInv is   *)
(* inductive; there is a lemma for each of its conjuncts, and in it a case for     *)
(* each action that can disturb it.                                                *)

USE DEF redis, reading, writing, cacheVars, Goto, Return, Entry

LEMMA CacheAtFirst == ASSUME CacheInit PROVE IInv
<1>1. CacheTypeOK
  <2>1. forgot \in BOOLEAN
    BY Zenon DEF CacheInit
  <2> QED BY <2>1, MaxWritesAssumption DEF CacheInit, CacheTypeOK
<1>2. VersionsArePast /\ PromisesAreBumped
  BY DEF CacheInit, VersionsArePast, PromisesAreBumped
<1>3. PresentValuesAreNew /\ SeenValuesAreNew
  BY DEF CacheInit, PresentValuesAreNew, SeenValuesAreNew
<1>4. AnswersAreFresh
  BY DEF CacheInit, AnswersAreFresh
<1> QED BY <1>1, <1>2, <1>3, <1>4, Zenon DEF IInv

(* Types                                                                   *)

LEMMA CacheTypeStep == ASSUME CacheTypeOK, [CacheNext]_cacheVars PROVE CacheTypeOK'
<1> USE DEF CacheTypeOK
<1>1. ASSUME NEW r \in Readers, Begin(r) \/ GetVersion(r) \/ Throw(r)
      PROVE  CacheTypeOK'
  BY <1>1 DEF Begin, GetVersion, Throw
<1>2. ASSUME NEW r \in Readers, Hit(r) \/ Miss(r) \/ Load(r) \/ Bypass(r)
      PROVE  CacheTypeOK'
  BY <1>2 DEF Hit, Hits, Miss, Load, Bypass
<1>3. ASSUME NEW e \in inflight, Store(e) \/ LoseStore(e) PROVE CacheTypeOK'
  BY <1>3 DEF Store, LoseStore
<1>4. ASSUME NEW e \in entries, Expire(e) PROVE CacheTypeOK'
  BY <1>4 DEF Expire
<1>5. CASE Forget
  BY <1>5 DEF Forget
<1>6. ASSUME NEW w \in Writers, Accept(w) \/ Commit(w) \/ Bump(w)
      PROVE  CacheTypeOK'
  <2>1. CASE Accept(w)
    BY <2>1, MaxWritesAssumption DEF Accept, Advance
  <2>2. CASE Commit(w)
    BY <2>2 DEF Commit, Advance
  <2>3. CASE Bump(w)
    BY <2>3 DEF Bump, Advance
  <2> QED BY <1>6, <2>1, <2>2, <2>3
<1>7. ASSUME NEW w \in Writers, Finish(w) \/ NoBump(w) PROVE CacheTypeOK'
  BY <1>7 DEF Finish, NoBump, Max2
<1>8. CASE UNCHANGED cacheVars
  BY <1>8
<1> QED BY <1>1, <1>2, <1>3, <1>4, <1>5, <1>6, <1>7, <1>8 DEF CacheNext, Read, Write

\* (all of cache.service.ts) Every variable has its type, Redis failures and
\* restarts included.
THEOREM CacheTypeCorrect == CacheSpec => []CacheTypeOK
<1>1. CacheInit => CacheTypeOK
  BY CacheAtFirst DEF IInv
<1>2. CacheTypeOK /\ [CacheNext]_cacheVars => CacheTypeOK'
  BY CacheTypeStep
<1> QED BY <1>1, <1>2, PTL DEF CacheSpec

-----------------------------------------------------------------------------
(* Versions                                                                *)

\* What Redis has lost stays lost.
LEMMA ForgotStays == ASSUME forgot, [CacheNext]_cacheVars PROVE forgot'
BY DEF CacheNext, Read, Write, Begin, GetVersion, Hit, Miss, Load, Bypass, Throw,
       Store, LoseStore, Expire, Forget, Accept, Commit, Bump, Finish, NoBump

LEMMA VersionsStep ==
    ASSUME CacheTypeOK, VersionsArePast, [CacheNext]_cacheVars, ~forgot'
    PROVE  VersionsArePast'
<1> USE DEF CacheTypeOK, VersionsArePast
\* A reader takes the present version, and sends a SET under it.
<1>1. ASSUME NEW r \in Readers, GetVersion(r) PROVE VersionsArePast'
  BY <1>1 DEF GetVersion
<1>2. ASSUME NEW r \in Readers, Load(r) PROVE VersionsArePast'
  BY <1>2 DEF Load
<1>3. ASSUME NEW r \in Readers, Begin(r) \/ Hit(r) \/ Miss(r) \/ Bypass(r) \/ Throw(r)
      PROVE  VersionsArePast'
  BY <1>3 DEF Begin, Hit, Miss, Bypass, Throw
<1>4. ASSUME NEW e \in inflight, Store(e) \/ LoseStore(e)
      PROVE  VersionsArePast'
  BY <1>4 DEF Store, LoseStore
<1>5. ASSUME NEW e \in entries, Expire(e) PROVE VersionsArePast'
  BY <1>5 DEF Expire
\* The version only grows.
<1>6. ASSUME NEW w \in Writers, Bump(w) PROVE VersionsArePast'
  BY <1>6 DEF Bump
<1>7. ASSUME NEW w \in Writers, Accept(w) \/ Commit(w) \/ Finish(w) \/ NoBump(w)
      PROVE  VersionsArePast'
  BY <1>7 DEF Accept, Commit, Finish, NoBump
<1>8. CASE UNCHANGED cacheVars
  BY <1>8
<1> QED BY <1>1, <1>2, <1>3, <1>4, <1>5, <1>6, <1>7, <1>8
        DEF CacheNext, Read, Write, Forget

-----------------------------------------------------------------------------
(* Promises                                                                *)

LEMMA PromisesStep ==
    ASSUME CacheTypeOK, PromisesAreBumped, [CacheNext]_cacheVars, ~forgot'
    PROVE  PromisesAreBumped'
<1> USE DEF CacheTypeOK, PromisesAreBumped
<1>1. ASSUME NEW r \in Readers, Begin(r) PROVE PromisesAreBumped'
  BY <1>1 DEF Begin
<1>2. ASSUME NEW w \in Writers, Commit(w) PROVE PromisesAreBumped'
  <2>1. stage[w] \in 1..2 /\ stage' = [stage EXCEPT ![w] = stage[w] + 1]
    BY <1>2 DEF Commit, Advance
  <2>2. stage[w] # 2
    BY <1>2, <<"commit", "bump">>[2] = "bump" DEF Commit, Steps
  <2>3. \A v \in Writers : stage'[v] = 3 => v # w /\ stage[v] = 3
    BY <2>1, <2>2
  <2> QED BY <1>2, <2>3 DEF Commit
\* What the writer has committed is in the database when it bumps.
<1>3. ASSUME NEW w \in Writers, Bump(w) PROVE PromisesAreBumped'
  BY <1>3 DEF Bump, Advance
<1>4. ASSUME NEW w \in Writers, Finish(w) PROVE PromisesAreBumped'
  BY <1>4 DEF Finish, Max2
<1>5. ASSUME NEW w \in Writers, Accept(w) \/ NoBump(w) PROVE PromisesAreBumped'
  BY <1>5 DEF Accept, NoBump
<1>6. ASSUME NEW r \in Readers,
             GetVersion(r) \/ Hit(r) \/ Miss(r) \/ Load(r) \/ Bypass(r) \/ Throw(r)
      PROVE  PromisesAreBumped'
  BY <1>6 DEF GetVersion, Hit, Miss, Load, Bypass, Throw
<1>7. ASSUME NEW e \in entries \cup inflight,
             Store(e) \/ LoseStore(e) \/ Expire(e)
      PROVE  PromisesAreBumped'
  BY <1>7 DEF Store, LoseStore, Expire
<1>8. CASE UNCHANGED cacheVars
  BY <1>8
<1> QED BY <1>1, <1>2, <1>3, <1>4, <1>5, <1>6, <1>7, <1>8
        DEF CacheNext, Read, Write, Forget

-----------------------------------------------------------------------------
(* Values                                                                  *)

LEMMA PresentStep ==
    ASSUME CacheTypeOK, VersionsArePast, PromisesAreBumped, PresentValuesAreNew,
           [CacheNext]_cacheVars, ~forgot'
    PROVE  PresentValuesAreNew'
<1> USE DEF CacheTypeOK, PresentValuesAreNew
\* A value is read from the database after the INCR of its own version.
<1>1. ASSUME NEW r \in Readers, Load(r) PROVE PresentValuesAreNew'
  BY <1>1 DEF Load, PromisesAreBumped
\* The new version has no value yet.
<1>2. ASSUME NEW w \in Writers, Bump(w) PROVE PresentValuesAreNew'
  <2>1. \A e \in entries \cup inflight : e.ver # ver'
    BY <1>2 DEF Bump, VersionsArePast
  <2> QED BY <1>2, <2>1 DEF Bump
<1>3. ASSUME NEW e \in inflight, Store(e) \/ LoseStore(e)
      PROVE  PresentValuesAreNew'
  BY <1>3 DEF Store, LoseStore
<1>4. ASSUME NEW e \in entries, Expire(e) PROVE PresentValuesAreNew'
  BY <1>4 DEF Expire
<1>5. ASSUME NEW r \in Readers,
             Begin(r) \/ GetVersion(r) \/ Hit(r) \/ Miss(r) \/ Bypass(r) \/ Throw(r)
      PROVE  PresentValuesAreNew'
  BY <1>5 DEF Begin, GetVersion, Hit, Miss, Bypass, Throw
<1>6. ASSUME NEW w \in Writers, Accept(w) \/ Commit(w) \/ Finish(w) \/ NoBump(w)
      PROVE  PresentValuesAreNew'
  BY <1>6 DEF Accept, Commit, Finish, NoBump
<1>7. CASE UNCHANGED cacheVars
  BY <1>7
<1> QED BY <1>1, <1>2, <1>3, <1>4, <1>5, <1>6, <1>7
        DEF CacheNext, Read, Write, Forget

LEMMA SeenStep ==
    ASSUME CacheTypeOK, PromisesAreBumped, PresentValuesAreNew, SeenValuesAreNew,
           [CacheNext]_cacheVars, ~forgot'
    PROVE  SeenValuesAreNew'
<1> USE DEF CacheTypeOK, SeenValuesAreNew
\* The values under the present version are new enough for everybody.
<1>1. ASSUME NEW r \in Readers, GetVersion(r) PROVE SeenValuesAreNew'
  BY <1>1 DEF GetVersion, PromisesAreBumped, PresentValuesAreNew
\* So is a value that was read from the database just now.
<1>2. ASSUME NEW r \in Readers, Load(r) PROVE SeenValuesAreNew'
  BY <1>2 DEF Load, PromisesAreBumped
<1>3. ASSUME NEW r \in Readers, Begin(r) \/ Hit(r) \/ Miss(r) \/ Bypass(r) \/ Throw(r)
      PROVE  SeenValuesAreNew'
  BY <1>3 DEF Begin, Hit, Miss, Bypass, Throw
<1>4. ASSUME NEW e \in inflight, Store(e) \/ LoseStore(e)
      PROVE  SeenValuesAreNew'
  BY <1>4 DEF Store, LoseStore
<1>5. ASSUME NEW e \in entries, Expire(e) PROVE SeenValuesAreNew'
  BY <1>5 DEF Expire
<1>6. ASSUME NEW w \in Writers,
             Accept(w) \/ Commit(w) \/ Bump(w) \/ Finish(w) \/ NoBump(w)
      PROVE  SeenValuesAreNew'
  BY <1>6 DEF Accept, Commit, Bump, Finish, NoBump
<1>7. CASE UNCHANGED cacheVars
  BY <1>7
<1> QED BY <1>1, <1>2, <1>3, <1>4, <1>5, <1>6, <1>7
        DEF CacheNext, Read, Write, Forget

LEMMA AnswerStep ==
    ASSUME CacheTypeOK, PromisesAreBumped, SeenValuesAreNew, AnswersAreFresh,
           [CacheNext]_cacheVars, ~forgot'
    PROVE  AnswersAreFresh'
<1> USE DEF CacheTypeOK, AnswersAreFresh
<1>1. ASSUME NEW r \in Readers, Hit(r) PROVE AnswersAreFresh'
  BY <1>1 DEF Hit, Hits, SeenValuesAreNew
<1>2. ASSUME NEW r \in Readers, Load(r) \/ Bypass(r) PROVE AnswersAreFresh'
  BY <1>2 DEF Load, Bypass, PromisesAreBumped
<1>3. ASSUME NEW r \in Readers, Begin(r) \/ GetVersion(r) \/ Miss(r) \/ Throw(r)
      PROVE  AnswersAreFresh'
  BY <1>3 DEF Begin, GetVersion, Miss, Throw
<1>4. ASSUME NEW e \in entries \cup inflight,
             Store(e) \/ LoseStore(e) \/ Expire(e)
      PROVE  AnswersAreFresh'
  BY <1>4 DEF Store, LoseStore, Expire
<1>5. ASSUME NEW w \in Writers,
             Accept(w) \/ Commit(w) \/ Bump(w) \/ Finish(w) \/ NoBump(w)
      PROVE  AnswersAreFresh'
  BY <1>5 DEF Accept, Commit, Bump, Finish, NoBump
<1>6. CASE UNCHANGED cacheVars
  BY <1>6
<1> QED BY <1>1, <1>2, <1>3, <1>4, <1>5, <1>6 DEF CacheNext, Read, Write, Forget

-----------------------------------------------------------------------------
(* (cache.service.ts:78-116) Whoever computed and stored it, and whenever,  *)
(* what wrap answers is at least as new as every write that was finished    *)
(* when it was called.                                                      *)
THEOREM FreshAnswers == CacheSpec => []AnswersAreFresh
<1>1. CacheInit => IInv
  BY CacheAtFirst
<1>2. ASSUME IInv, [CacheNext]_cacheVars PROVE IInv'
  <2>1. CASE forgot'
    BY <1>2, <2>1, CacheTypeStep DEF IInv, AnswersAreFresh
  <2>2. CASE ~forgot'
    <3>1. ~forgot
      BY <1>2, <2>2, ForgotStays
    <3>2. /\ CacheTypeOK /\ VersionsArePast /\ PromisesAreBumped
          /\ PresentValuesAreNew /\ SeenValuesAreNew /\ AnswersAreFresh
      BY <1>2, <3>1, Zenon DEF IInv
    <3>3. CacheTypeOK' /\ VersionsArePast' /\ PromisesAreBumped'
      BY <1>2, <2>2, <3>2, CacheTypeStep, VersionsStep, PromisesStep, Zenon
    <3>4. PresentValuesAreNew' /\ SeenValuesAreNew' /\ AnswersAreFresh'
      BY <1>2, <2>2, <3>2, PresentStep, SeenStep, AnswerStep, Zenon
    <3> QED BY <3>3, <3>4, Zenon DEF IInv
  <2> QED BY <2>1, <2>2
<1>3. IInv => AnswersAreFresh
  BY DEF IInv
<1> QED BY <1>1, <1>2, <1>3, PTL DEF CacheSpec
=============================================================================
