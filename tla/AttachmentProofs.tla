-------------------------- MODULE AttachmentProofs --------------------------
(***************************************************************************)
(* Proofs about Attachments, for any number of requests, names, uploads    *)
(* and failures.                                                           *)
(***************************************************************************)
EXTENDS Attachments, FiniteSetTheorems, TLAPS

\* Every request is one, with its fields.
LEMMA UploadFields ==
  ASSUME IInv, NEW s \in Slots
  PROVE  /\ upload[s] \in Upload
         /\ upload[s].pc \in {"idle", "received", "save", "remove", "insert", "cleanup"}
         /\ upload[s].pc # "idle" => upload[s].id \in Id /\ upload[s].id <= uploads
         /\ upload[s].on \in Instances
         /\ upload[s].name \in FileNames
         /\ upload[s].version \in Nat
         /\ upload[s].before \in Nat
  BY UploadsAssumption DEF IInv, TypeOK, Upload, UploadsAreNumbered, Id

\* A request that is not there is one too.
LEMMA IdleIsUpload ==
  /\ Idle \in Upload
  /\ Idle.pc = "idle"
  BY NamesAssumption, InstancesAssumption DEF Idle, Upload

\* An object is in a place.
LEMMA ObjectsArePlaced ==
  ASSUME NEW u, u.id \in Id, u.on \in Instances
  PROVE  Object(u) \in Id \X Places
  BY DEF Object, Place, Places

\* A step that moves one request on leaves the others alone.
LEMMA UploadUpdate ==
  ASSUME IInv, NEW s \in Slots, NEW u \in Upload, upload' = [upload EXCEPT ![s] = u]
  PROVE  /\ upload' \in [Slots -> Upload]
         /\ \A r \in Slots : upload'[r] = IF r = s THEN u ELSE upload[r]
  BY DEF IInv, TypeOK

\* The rows of a name are finitely many.
LEMMA CountIsNat ==
  ASSUME rows \in Seq(Row), NEW n
  PROVE  /\ IsFiniteSet({i \in DOMAIN rows : rows[i].name = n})
         /\ countVersions(n) \in Nat
<1>1. Len(rows) \in Nat /\ DOMAIN rows = 1..Len(rows)
  OBVIOUS
<1>2. IsFiniteSet(1..Len(rows))
  BY <1>1, FS_Interval
<1>3. {i \in DOMAIN rows : rows[i].name = n} \in SUBSET (1..Len(rows))
  BY <1>1
<1>4. IsFiniteSet({i \in DOMAIN rows : rows[i].name = n})
  BY <1>2, <1>3, FS_Subset
<1> QED
  BY <1>4, FS_CardinalityType DEF countVersions

\* A new row counts for its own name and for no other.
LEMMA CountGrows ==
  ASSUME rows \in Seq(Row), NEW r \in Row, rows' = Append(rows, r), NEW n
  PROVE  /\ countVersions(n)' \in Nat
         /\ countVersions(n) <= countVersions(n)'
         /\ r.name = n => countVersions(n)' = countVersions(n) + 1
<1> DEFINE Now == {i \in DOMAIN rows : rows[i].name = n}
<1> DEFINE Then == {i \in DOMAIN rows' : rows'[i].name = n}
<1> DEFINE new == Len(rows) + 1
<1>1. /\ Len(rows) \in Nat
      /\ DOMAIN rows = 1..Len(rows)
      /\ DOMAIN rows' = 1..new
      /\ \A i \in 1..Len(rows) : rows'[i] = rows[i]
      /\ rows'[new] = r
  OBVIOUS
<1>2. new \notin Now
  BY <1>1
<1>3. IsFiniteSet(Now) /\ Cardinality(Now) \in Nat
  BY CountIsNat DEF countVersions
<1>4. countVersions(n) = Cardinality(Now) /\ countVersions(n)' = Cardinality(Then)
  BY DEF countVersions
<1>5. CASE r.name = n
  <2>1. Then = Now \cup {new}
    BY <1>1, <1>5
  <2> HIDE DEF Now, Then, new
  <2>2. Cardinality(Then) = Cardinality(Now) + 1
    BY <2>1, <1>2, <1>3, FS_AddElement
  <2> QED
    BY <2>2, <1>3, <1>4
<1>6. CASE r.name # n
  <2>1. Then = Now
    BY <1>1, <1>6
  <2> HIDE DEF Now, Then, new
  <2> QED
    BY <2>1, <1>3, <1>4, <1>6
<1> QED
  BY <1>5, <1>6

\* What the rows promise each other survives a step that adds none.
LEMMA SameRows ==
  ASSUME IInv, UNCHANGED <<rows, storage>>, stored \subseteq stored'
  PROVE  /\ RowsHaveObjects' /\ LaterIsNewer'
         /\ \A n : countVersions(n)' = countVersions(n)
         /\ (\A i \in DOMAIN rows : rows[i].version <= countVersions(rows[i].name) /\ rows[i].before < i)'
<1>1. \A n : countVersions(n)' = countVersions(n)
  BY DEF countVersions
<1>2. \A i \in DOMAIN rows : rows[i].version <= countVersions(rows[i].name) /\ rows[i].before < i
  BY DEF IInv, VersionsAreCounted
<1> QED
  BY <1>1, <1>2 DEF IInv, RowsHaveObjects, Object, Place, LaterIsNewer

\* What was answered is of the rows there are, and stays explained while they do.
LEMMA SameAnswers ==
  ASSUME IInv, UNCHANGED <<storage, missing>>,
         \A i \in DOMAIN rows : i \in DOMAIN rows' /\ rows'[i] = rows[i]
  PROVE  AnswersAreOfRows' /\ MissingIsElsewhere'
  BY DEF IInv, AnswersAreOfRows, MissingIsElsewhere

\* A step that moves one request on without a new row, a new version or a
\* download preserves the invariant, if its files are as they should be.
LEMMA Onwards ==
  ASSUME IInv, NEW s \in Slots, NEW u \in Upload,
         upload' = [upload EXCEPT ![s] = u],
         u.pc # "idle" =>
           /\ u.id = upload[s].id /\ u.on = upload[s].on /\ u.name = upload[s].name
           /\ upload[s].pc # "idle",
         u.pc \in {"save", "remove", "insert"} =>
           /\ upload[s].pc \in {"save", "remove", "insert"}
           /\ u.version = upload[s].version /\ u.before = upload[s].before,
         u.pc \in {"remove", "insert"} => Object(u) \in stored',
         u.pc = "insert" /\ storage = "local" => u.id \notin temp',
         u.pc = "idle" /\ upload[s].pc # "idle" /\ storage = "local" =>
           upload[s].id \notin temp' \/ upload[s].id \in left',
         stored \subseteq stored', stored' \subseteq Id \X Places,
         temp' \subseteq temp, left \subseteq left', left' \subseteq Id,
         failures' \in Nat,
         UNCHANGED <<storage, uploads, rows, missing>>
  PROVE  IInv'
<1>1. /\ upload' \in [Slots -> Upload]
      /\ \A r \in Slots : upload'[r] = IF r = s THEN u ELSE upload[r]
  BY UploadUpdate
<1>2. TypeOK'
  BY <1>1 DEF IInv, TypeOK
<1>3. UploadsAreNumbered'
  BY <1>1 DEF IInv, UploadsAreNumbered
<1>4. InsertsWhatIsStored'
  <2>1. ASSUME NEW q \in Slots, upload'[q].pc \in {"remove", "insert"}
        PROVE  (Object(upload[q]) \in stored)'
    <3>1. Object(upload[q])' = <<upload'[q].id, Place(upload'[q].on)>>
      BY DEF Object, Place
    <3>2. CASE q = s
      BY <1>1, <2>1, <3>1, <3>2 DEF Object
    <3>3. CASE q # s
      BY <1>1, <2>1, <3>1, <3>3 DEF IInv, InsertsWhatIsStored, Object
    <3> QED
      BY <3>2, <3>3
  <2> QED
    BY <2>1 DEF InsertsWhatIsStored
<1>5. AnswersAreOfRows' /\ MissingIsElsewhere'
  BY SameAnswers
<1>6. VersionsAreCounted'
  <2>1. (\A i \in DOMAIN rows : rows[i].version <= countVersions(rows[i].name) /\ rows[i].before < i)'
    BY SameRows
  <2>2. ASSUME NEW r \in Slots, upload'[r].pc \in {"save", "remove", "insert"}
        PROVE  (/\ upload[r].version <= countVersions(upload[r].name) + 1
                /\ upload[r].before <= Len(rows)
                /\ \A j \in 1..upload[r].before :
                     rows[j].name = upload[r].name => rows[j].version < upload[r].version)'
    <3>1. /\ upload[r].pc \in {"save", "remove", "insert"}
          /\ upload'[r].version = upload[r].version
          /\ upload'[r].before = upload[r].before
          /\ upload'[r].name = upload[r].name
      BY <1>1, <2>2
    <3>2. countVersions(upload[r].name)' = countVersions(upload[r].name)
      BY <3>1 DEF countVersions
    <3> QED
      BY <3>1, <3>2 DEF IInv, VersionsAreCounted
  <2> QED
    BY <2>1, <2>2 DEF VersionsAreCounted
<1>7. MovedIsGone'
  BY <1>1 DEF IInv, MovedIsGone
<1>8. LocalLeavesNoTemp'
  <2>1. SUFFICES ASSUME storage = "local", NEW f \in temp' PROVE f \in InFlight' \/ f \in left'
    BY DEF LocalLeavesNoTemp
  <2>2. f \in InFlight \/ f \in left
    BY <2>1 DEF IInv, LocalLeavesNoTemp
  <2>3. ASSUME f \in InFlight PROVE f \in InFlight' \/ f \in left'
    <3>1. PICK r \in Slots : upload[r].pc # "idle" /\ f = upload[r].id
      BY <2>3 DEF InFlight
    <3>2. CASE r = s /\ u.pc = "idle"
      BY <3>1, <3>2, <2>1
    <3>3. CASE ~(r = s /\ u.pc = "idle")
      BY <3>1, <3>3, <1>1 DEF InFlight
    <3> QED
      BY <3>2, <3>3
  <2> QED
    BY <2>2, <2>3
<1> QED
  BY <1>2, <1>3, <1>4, <1>5, <1>6, <1>7, <1>8, SameRows DEF IInv

\* Committing the row preserves the invariant, whether the handler learns of it
\* or not.
LEMMA AddRow ==
  ASSUME IInv, NEW s \in Slots, NEW u \in Upload, upload[s].pc = "insert",
         rows' = Append(rows, RowOf(upload[s])),
         upload' = [upload EXCEPT ![s] = u],
         u.pc \in {"idle", "cleanup"}, u.pc = "cleanup" => u.id = upload[s].id,
         failures' \in Nat,
         UNCHANGED <<storage, uploads, temp, stored, missing, left>>
  PROVE  IInv'
<1> DEFINE r == RowOf(upload[s])
<1> DEFINE new == Len(rows) + 1
<1>1. /\ upload' \in [Slots -> Upload]
      /\ \A q \in Slots : upload'[q] = IF q = s THEN u ELSE upload[q]
  BY UploadUpdate
<1>2. r \in Row
  BY UploadFields DEF RowOf, Row
<1>3. /\ rows \in Seq(Row)
      /\ rows' \in Seq(Row)
      /\ Len(rows) \in Nat
      /\ DOMAIN rows = 1..Len(rows)
      /\ Len(rows') = new
      /\ DOMAIN rows' = 1..new
      /\ \A i \in 1..Len(rows) : rows'[i] = rows[i]
      /\ rows'[new] = r
  BY <1>2 DEF IInv, TypeOK
<1>4. /\ Object(r) \in stored /\ r.name = upload[s].name
      /\ r.version = upload[s].version /\ r.before = upload[s].before
  BY DEF RowOf, IInv, InsertsWhatIsStored, Object
<1>5. TypeOK'
  BY <1>1, <1>3 DEF IInv, TypeOK
<1>6. UploadsAreNumbered'
  BY <1>1 DEF IInv, UploadsAreNumbered
<1>7. RowsHaveObjects'
  BY <1>3, <1>4 DEF IInv, RowsHaveObjects, Object, Place
<1>8. InsertsWhatIsStored' /\ AnswersAreOfRows' /\ MissingIsElsewhere' /\ MovedIsGone'
  <2>1. InsertsWhatIsStored' /\ MovedIsGone'
    BY <1>1 DEF IInv, InsertsWhatIsStored, Object, Place, MovedIsGone
  <2> QED
    BY <2>1, <1>3, SameAnswers
<1>9. /\ r.version <= countVersions(r.name) + 1
      /\ r.before \in Nat /\ r.version \in Nat /\ r.before <= Len(rows)
      /\ \A j \in 1..r.before : rows[j].name = r.name => rows[j].version < r.version
  BY <1>4, UploadFields DEF IInv, VersionsAreCounted
<1>10. \A n : /\ countVersions(n) \in Nat
              /\ countVersions(n)' \in Nat
              /\ countVersions(n) <= countVersions(n)'
              /\ r.name = n => countVersions(n)' = countVersions(n) + 1
  BY <1>2, <1>3, CountGrows, CountIsNat
<1> HIDE DEF r
<1>11. VersionsAreCounted'
  <2>1. ASSUME NEW i \in 1..new
        PROVE  (rows[i].version <= countVersions(rows[i].name) /\ rows[i].before < i)'
    <3>1. CASE i = new
      <4>1. rows'[i] = r
        BY <1>3, <3>1
      <4>2. PICK n : n = r.name
        OBVIOUS
      <4>3. (countVersions(rows[i].name))' = countVersions(n)'
        BY <4>1, <4>2 DEF countVersions
      <4>4. countVersions(n)' = countVersions(n) + 1
        BY <1>10, <4>2
      <4> QED
        BY <4>1, <4>2, <4>3, <4>4, <3>1, <1>3, <1>9
    <3>2. CASE i # new
      <4>1. i \in 1..Len(rows) /\ rows'[i] = rows[i]
        BY <1>3, <3>2
      <4>2. rows[i] \in Row
        BY <1>3, <4>1
      <4>3. rows[i].version <= countVersions(rows[i].name) /\ rows[i].before < i
        BY <4>1, <1>3 DEF IInv, VersionsAreCounted
      <4>4. PICK n : n = rows[i].name
        OBVIOUS
      <4>5. (countVersions(rows[i].name))' = countVersions(n)'
        BY <4>1, <4>4 DEF countVersions
      <4>6. countVersions(n) <= countVersions(n)' /\ countVersions(n) \in Nat /\ countVersions(n)' \in Nat
        BY <1>10
      <4> QED
        BY <4>1, <4>2, <4>3, <4>4, <4>5, <4>6 DEF Row
    <3> QED
      BY <3>1, <3>2
  <2>2. ASSUME NEW q \in Slots, upload'[q].pc \in {"save", "remove", "insert"}
        PROVE  (/\ upload[q].version <= countVersions(upload[q].name) + 1
                /\ upload[q].before <= Len(rows)
                /\ \A j \in 1..upload[q].before :
                     rows[j].name = upload[q].name => rows[j].version < upload[q].version)'
    <3>1. upload'[q] = upload[q] /\ upload[q].pc \in {"save", "remove", "insert"}
      BY <1>1, <2>2
    <3>2. /\ upload[q].version <= countVersions(upload[q].name) + 1
          /\ upload[q].before <= Len(rows)
          /\ \A j \in 1..upload[q].before :
               rows[j].name = upload[q].name => rows[j].version < upload[q].version
      BY <3>1 DEF IInv, VersionsAreCounted
    <3>3. upload[q].version \in Nat /\ upload[q].before \in Nat
      BY UploadFields
    <3>4. PICK n : n = upload[q].name
      OBVIOUS
    <3>5. (countVersions(upload[q].name))' = countVersions(n)'
      BY <3>1, <3>4 DEF countVersions
    <3>6. countVersions(n) <= countVersions(n)' /\ countVersions(n) \in Nat /\ countVersions(n)' \in Nat
      BY <1>10
    <3> QED
      BY <3>1, <3>2, <3>3, <3>4, <3>5, <3>6, <1>3
  <2> QED
    BY <1>3, <2>1, <2>2 DEF VersionsAreCounted
<1>12. LaterIsNewer'
  <2>1. SUFFICES ASSUME NEW i \in 1..new, NEW j \in 1..rows'[i].before, rows'[j].name = rows'[i].name
                 PROVE  rows'[j].version < rows'[i].version
    BY <1>3 DEF LaterIsNewer
  <2>2. CASE i = new
    BY <2>1, <2>2, <1>3, <1>9
  <2>3. CASE i # new
    <3>1. i \in 1..Len(rows) /\ rows'[i] = rows[i] /\ rows[i].before < i /\ rows[i] \in Row
      BY <1>3, <2>3 DEF IInv, VersionsAreCounted
    <3>2. j \in 1..Len(rows) /\ rows'[j] = rows[j]
      BY <3>1, <2>1, <1>3 DEF Row
    <3> QED
      BY <3>1, <3>2, <2>1, <1>3 DEF IInv, LaterIsNewer
  <2> QED
    BY <2>2, <2>3
<1>13. LocalLeavesNoTemp'
  <2>1. SUFFICES ASSUME storage = "local", NEW f \in temp PROVE f \in InFlight' \/ f \in left
    BY DEF LocalLeavesNoTemp
  <2>2. f # upload[s].id
    BY <2>1 DEF IInv, MovedIsGone
  <2>3. f \in InFlight \/ f \in left
    BY <2>1 DEF IInv, LocalLeavesNoTemp
  <2>4. ASSUME f \in InFlight PROVE f \in InFlight'
    <3>1. PICK q \in Slots : upload[q].pc # "idle" /\ f = upload[q].id
      BY <2>4 DEF InFlight
    <3> QED
      BY <3>1, <2>2, <1>1 DEF InFlight
  <2> QED
    BY <2>3, <2>4
<1> QED
  BY <1>5, <1>6, <1>7, <1>8, <1>11, <1>12, <1>13 DEF IInv

\* A request that arrives has a number, a file and a key of its own.
LEMMA ReceiveStep ==
  ASSUME IInv, NEW s \in Slots, NEW x \in Instances, NEW n \in FileNames, Receive(s, x, n)
  PROVE  IInv'
<1> DEFINE u == [Idle EXCEPT !.pc = "received", !.on = x, !.id = uploads + 1, !.name = n]
<1>1. uploads \in Nat /\ uploads + 1 \in Id
  BY UploadsAssumption DEF IInv, TypeOK, Receive, Id
<1>2. u \in Upload /\ u.pc = "received" /\ u.id = uploads + 1
  BY <1>1, NamesAssumption, InstancesAssumption DEF Upload, Idle
<1> HIDE DEF u
<1>3. /\ upload' \in [Slots -> Upload]
      /\ \A r \in Slots : upload'[r] = IF r = s THEN u ELSE upload[r]
  BY <1>2, UploadUpdate DEF Receive, u
<1>4. TypeOK'
  BY <1>1, <1>3 DEF IInv, TypeOK, Receive
<1>5. UploadsAreNumbered'
  <2>1. uploads' <= MaxUploads
    BY <1>1, UploadsAssumption DEF Receive, Id
  <2>2. ASSUME NEW r \in Slots, upload'[r].pc # "idle" PROVE upload'[r].id \in 1..uploads'
    BY <2>2, <1>1, <1>2, <1>3 DEF IInv, UploadsAreNumbered, Receive
  <2> QED
    BY <2>1, <2>2 DEF UploadsAreNumbered
<1>6. InsertsWhatIsStored' /\ AnswersAreOfRows' /\ MissingIsElsewhere'
  <2>1. InsertsWhatIsStored'
    BY <1>2, <1>3 DEF IInv, InsertsWhatIsStored, Object, Place, Receive
  <2> QED
    BY <2>1, SameAnswers DEF Receive
<1>7. VersionsAreCounted'
  <2>1. (\A i \in DOMAIN rows : rows[i].version <= countVersions(rows[i].name) /\ rows[i].before < i)'
    BY SameRows DEF Receive
  <2>2. ASSUME NEW r \in Slots, upload'[r].pc \in {"save", "remove", "insert"}
        PROVE  (/\ upload[r].version <= countVersions(upload[r].name) + 1
                /\ upload[r].before <= Len(rows)
                /\ \A j \in 1..upload[r].before :
                     rows[j].name = upload[r].name => rows[j].version < upload[r].version)'
    <3>1. upload'[r] = upload[r] /\ upload[r].pc \in {"save", "remove", "insert"} /\ rows' = rows
      BY <1>2, <1>3, <2>2 DEF Receive
    <3>2. countVersions(upload[r].name)' = countVersions(upload[r].name)
      BY <3>1 DEF countVersions
    <3> QED
      BY <3>1, <3>2 DEF IInv, VersionsAreCounted
  <2> QED
    BY <2>1, <2>2 DEF VersionsAreCounted
<1>8. MovedIsGone'
  <2>1. SUFFICES ASSUME NEW r \in Slots, upload'[r].pc = "insert", storage' = "local"
                 PROVE  upload'[r].id \notin temp'
    BY DEF MovedIsGone
  <2>2. upload'[r] = upload[r] /\ upload[r].pc = "insert"
    BY <1>2, <1>3, <2>1
  <2>3. upload[r].id \notin temp /\ upload[r].id \in 1..uploads
    BY <2>1, <2>2 DEF IInv, MovedIsGone, UploadsAreNumbered, Receive
  <2> QED
    BY <2>2, <2>3, <1>1 DEF Receive
<1>9. LocalLeavesNoTemp'
  <2>1. SUFFICES ASSUME storage = "local", NEW f \in temp' PROVE f \in InFlight' \/ f \in left
    BY DEF LocalLeavesNoTemp, Receive
  <2>2. CASE f = uploads + 1
    BY <2>2, <1>2, <1>3 DEF InFlight
  <2>3. CASE f \in temp
    <3>1. f \in InFlight \/ f \in left
      BY <2>1, <2>3 DEF IInv, LocalLeavesNoTemp
    <3>2. ASSUME f \in InFlight PROVE f \in InFlight'
      <4>1. PICK r \in Slots : upload[r].pc # "idle" /\ f = upload[r].id
        BY <3>2 DEF InFlight
      <4> QED
        BY <4>1, <1>3 DEF InFlight, Receive
    <3> QED
      BY <3>1, <3>2
  <2> QED
    BY <2>1, <2>2, <2>3 DEF Receive
<1> QED
  BY <1>4, <1>5, <1>6, <1>7, <1>8, <1>9, SameRows DEF IInv, Receive

\* A version that has just been counted passes all there are of its name.
LEMMA CountVersionsStep ==
  ASSUME IInv, NEW s \in Slots, CountVersions(s)
  PROVE  IInv'
<1> DEFINE c == countVersions(upload[s].name)
<1> DEFINE u == [upload[s] EXCEPT !.pc = "save", !.version = c + 1, !.before = Len(rows)]
<1>0. rows \in Seq(Row) /\ Len(rows) \in Nat
  BY DEF IInv, TypeOK
<1>1. c \in Nat /\ rows \in Seq(Row) /\ Len(rows) \in Nat
  BY <1>0, CountIsNat
<1> HIDE DEF c
<1>2. /\ u \in Upload /\ u.pc = "save" /\ u.id = upload[s].id /\ u.on = upload[s].on /\ u.name = upload[s].name
      /\ u.version = c + 1 /\ u.before = Len(rows)
  <2>1. upload[s] \in Upload
    BY UploadFields
  <2>2. c + 1 \in Nat /\ Len(rows) \in Nat
    BY <1>1
  <2> DEFINE n == Len(rows)
  <2>3. u = [upload[s] EXCEPT !.pc = "save", !.version = c + 1, !.before = n]
    OBVIOUS
  <2> HIDE DEF u, n
  <2>4. u \in Upload /\ u.pc = "save" /\ u.id = upload[s].id /\ u.on = upload[s].on /\ u.name = upload[s].name
        /\ u.version = c + 1 /\ u.before = n
    BY <2>1, <2>2, <2>3 DEF Upload, n
  <2> QED
    BY <2>4 DEF n
<1>3. upload' = [upload EXCEPT ![s] = u] /\ upload[s].pc = "received"
  BY DEF CountVersions, c
<1> HIDE DEF u
<1>4. /\ upload' \in [Slots -> Upload]
      /\ \A r \in Slots : upload'[r] = IF r = s THEN u ELSE upload[r]
  BY <1>2, <1>3, UploadUpdate
<1>5. TypeOK'
  BY <1>4 DEF IInv, TypeOK, CountVersions
<1>6. UploadsAreNumbered'
  BY <1>2, <1>3, <1>4 DEF IInv, UploadsAreNumbered, CountVersions
<1>7. InsertsWhatIsStored' /\ AnswersAreOfRows' /\ MissingIsElsewhere' /\ MovedIsGone'
  <2>1. InsertsWhatIsStored' /\ MovedIsGone'
    BY <1>2, <1>4 DEF IInv, InsertsWhatIsStored, Object, Place, MovedIsGone, CountVersions
  <2> QED
    BY <2>1, SameAnswers DEF CountVersions
<1>8. VersionsAreCounted'
  <2>1. (\A i \in DOMAIN rows : rows[i].version <= countVersions(rows[i].name) /\ rows[i].before < i)'
    BY SameRows DEF CountVersions
  <2>2. ASSUME NEW r \in Slots, upload'[r].pc \in {"save", "remove", "insert"}
        PROVE  (/\ upload[r].version <= countVersions(upload[r].name) + 1
                /\ upload[r].before <= Len(rows)
                /\ \A j \in 1..upload[r].before :
                     rows[j].name = upload[r].name => rows[j].version < upload[r].version)'
    <3>1. rows' = rows /\ upload'[r].name = upload[r].name
      BY <1>2, <1>4 DEF CountVersions
    <3>2. countVersions(upload[r].name)' = countVersions(upload[r].name)
      BY <3>1 DEF countVersions
    <3>3. CASE r = s
      <4>1. /\ upload'[r].version = c + 1 /\ upload'[r].before = Len(rows)
            /\ countVersions(upload[r].name) = c
        BY <1>2, <1>4, <3>3 DEF c
      <4>2. ASSUME NEW j \in 1..Len(rows), rows[j].name = upload[s].name
            PROVE  rows[j].version < c + 1
        <5>1. rows[j].version <= countVersions(rows[j].name) /\ rows[j] \in Row
          BY <1>1 DEF IInv, VersionsAreCounted
        <5>2. countVersions(rows[j].name) = c
          BY <4>2 DEF c
        <5> QED
          BY <5>1, <5>2, <1>1 DEF Row
      <4> QED
        BY <4>1, <4>2, <3>1, <3>2, <3>3, <1>1
    <3>4. CASE r # s
      <4>1. upload'[r] = upload[r]
        BY <1>4, <3>4
      <4> QED
        BY <4>1, <2>2, <3>1, <3>2 DEF IInv, VersionsAreCounted
    <3> QED
      BY <3>3, <3>4
  <2> QED
    BY <2>1, <2>2 DEF VersionsAreCounted
<1>9. LocalLeavesNoTemp'
  <2>1. \A r \in Slots : upload'[r].id = upload[r].id /\ (upload'[r].pc = "idle" <=> upload[r].pc = "idle")
    BY <1>2, <1>3, <1>4
  <2>2. InFlight \subseteq InFlight'
    BY <2>1 DEF InFlight
  <2> QED
    BY <2>2 DEF IInv, LocalLeavesNoTemp, CountVersions
<1> QED
  BY <1>5, <1>6, <1>7, <1>8, <1>9, SameRows DEF IInv, CountVersions

\* Storing the object first is what makes the row safe to insert.
LEMMA SaveStep ==
  ASSUME IInv, NEW s \in Slots, Save(s)
  PROVE  IInv'
<1>1. /\ upload[s] \in Upload /\ upload[s].id \in Id /\ Object(upload[s]) \in Id \X Places
      /\ temp \subseteq Id /\ stored \subseteq Id \X Places /\ left \subseteq Id /\ failures \in Nat
  BY UploadFields, ObjectsArePlaced DEF IInv, TypeOK, Save
<1>2. ASSUME NEW pc \in {"insert", "remove"}, upload' = [upload EXCEPT ![s].pc = pc],
             temp' \in SUBSET temp, pc = "insert" /\ storage = "local" => upload[s].id \notin temp'
      PROVE  IInv'
  <2> DEFINE u == [upload[s] EXCEPT !.pc = pc]
  <2>1. /\ u \in Upload /\ u.pc = pc /\ u.id = upload[s].id /\ u.on = upload[s].on /\ u.name = upload[s].name
        /\ u.version = upload[s].version /\ u.before = upload[s].before
    BY <1>1 DEF Upload
  <2>2. upload' = [upload EXCEPT ![s] = u]
    BY <1>2
  <2> HIDE DEF u
  <2>3. /\ upload[s].pc = "save"
        /\ stored' = stored \cup {Object(upload[s])}
        /\ UNCHANGED <<storage, uploads, rows, missing, left, failures>>
    BY DEF Save
  <2>4. /\ stored \subseteq stored' /\ stored' \subseteq Id \X Places /\ Object(u) \in stored'
        /\ temp' \subseteq temp /\ left \subseteq left' /\ left' \subseteq Id
        /\ failures' \in Nat
    BY <1>1, <1>2, <2>1, <2>3 DEF Object
  <2>5. /\ u.pc # "idle" /\ u.pc \in {"save", "remove", "insert"}
        /\ u.pc = "insert" /\ storage = "local" => u.id \notin temp'
    BY <1>2, <2>1
  <2>6. UNCHANGED <<storage, uploads, rows, missing>>
    BY <2>3
  <2>7. upload[s].pc # "idle" /\ upload[s].pc \in {"save", "remove", "insert"}
    BY <2>3
  <2> HIDE <1>2
  <2> QED
    BY <2>1, <2>2, <2>4, <2>5, <2>6, <2>7, Onwards
<1>3. CASE storage = "s3" /\ upload' = [upload EXCEPT ![s].pc = "insert"] /\ UNCHANGED temp
  BY <1>2, <1>3
<1>4. CASE upload' = [upload EXCEPT ![s].pc = "insert"] /\ temp' = temp \ {upload[s].id}
  BY <1>2, <1>4
<1>5. CASE upload' = [upload EXCEPT ![s].pc = "remove"] /\ UNCHANGED temp
  BY <1>2, <1>5
<1> QED
  BY <1>3, <1>4, <1>5 DEF Save

\* After a copy the source goes.
LEMMA RemoveSourceStep ==
  ASSUME IInv, NEW s \in Slots, RemoveSource(s)
  PROVE  IInv'
<1> DEFINE u == [upload[s] EXCEPT !.pc = "insert"]
<1>1. /\ upload[s] \in Upload /\ Object(upload[s]) \in stored
      /\ temp \subseteq Id /\ stored \subseteq Id \X Places /\ left \subseteq Id /\ failures \in Nat
  BY UploadFields DEF IInv, TypeOK, RemoveSource, InsertsWhatIsStored
<1>2. /\ u \in Upload /\ u.pc = "insert" /\ u.id = upload[s].id /\ u.on = upload[s].on /\ u.name = upload[s].name
      /\ u.version = upload[s].version /\ u.before = upload[s].before
  BY <1>1 DEF Upload
<1>3. upload' = [upload EXCEPT ![s] = u]
  BY DEF RemoveSource
<1> HIDE DEF u
<1> QED
  BY <1>1, <1>2, <1>3, Onwards DEF RemoveSource, Object

\* A row is inserted of an object that is there.
LEMMA InsertRowStep ==
  ASSUME IInv, NEW s \in Slots, InsertRow(s)
  PROVE  IInv'
<1>1. failures \in Nat
  BY DEF IInv, TypeOK
<1> QED
  BY <1>1, IdleIsUpload, AddRow DEF InsertRow

\* What a download leaves as it is.
LEMMA RestStays ==
  ASSUME IInv, UNCHANGED <<storage, upload, uploads, temp, stored, rows, left>>,
         missing' \subseteq Answer, failures' \in Nat, AnswersAreOfRows', MissingIsElsewhere'
  PROVE  IInv'
  BY DEF IInv, TypeOK, UploadsAreNumbered, RowsHaveObjects, InsertsWhatIsStored, Object, Place,
       VersionsAreCounted, countVersions, LaterIsNewer, MovedIsGone, LocalLeavesNoTemp, InFlight

\* A download finds the object of every row where it was put.
LEMMA DownloadStep ==
  ASSUME IInv, NEW i \in 1..MaxUploads, NEW x \in Instances, Download(i, x)
  PROVE  IInv'
<1>1. /\ i \in DOMAIN rows /\ i \in Nat /\ missing \subseteq Answer /\ failures \in Nat
      /\ <<rows[i].id, Place(rows[i].on)>> \in stored
  BY UploadsAssumption DEF Download, IInv, TypeOK, RowsHaveObjects, Object
<1>2. CASE missing' = missing
  BY <1>1, <1>2, SameAnswers, RestStays DEF Download
<1>3. CASE missing' # missing
  <2>1. /\ missing' = {[row |-> i, on |-> x, failed |-> FALSE]}
        /\ <<rows[i].id, Place(x)>> \notin stored
    BY <1>3 DEF Download
  <2>2. storage = "local" /\ Disk[x] # Disk[rows[i].on]
    <3>1. Place(x) # Place(rows[i].on)
      BY <1>1, <2>1
    <3>2. storage \in {"local", "s3"}
      BY StoragesAssumption DEF IInv, TypeOK
    <3> QED
      BY <3>1, <3>2 DEF Place
  <2>3. AnswersAreOfRows' /\ MissingIsElsewhere'
    BY <1>1, <2>1, <2>2 DEF Download, AnswersAreOfRows, MissingIsElsewhere
  <2>4. missing' \subseteq Answer
    BY <1>1, <2>1 DEF Answer
  <2> QED
    BY <1>1, <2>3, <2>4, RestStays DEF Download
<1> QED
  BY <1>2, <1>3

\* A read that throws says so.
LEMMA DownloadFailsStep ==
  ASSUME IInv, NEW i \in 1..MaxUploads, NEW x \in Instances, DownloadFails(i, x)
  PROVE  IInv'
<1>1. i \in DOMAIN rows /\ i \in Nat /\ failures' \in Nat
  BY UploadsAssumption DEF DownloadFails, Fail, IInv, TypeOK
<1>2. AnswersAreOfRows' /\ MissingIsElsewhere' /\ missing' \subseteq Answer
  BY <1>1 DEF DownloadFails, AnswersAreOfRows, MissingIsElsewhere, Answer
<1> QED
  BY <1>1, <1>2, RestStays DEF DownloadFails

\* A failure before the row leads to the catch block, which has the file's name.
LEMMA ToCleanup ==
  ASSUME IInv, NEW s \in Slots, upload[s].pc # "idle", Fail,
         upload' = [upload EXCEPT ![s].pc = "cleanup"],
         stored' \in {stored, stored \cup {Object(upload[s])}},
         UNCHANGED <<storage, uploads, temp, rows, missing, left>>
  PROVE  IInv'
<1> DEFINE u == [upload[s] EXCEPT !.pc = "cleanup"]
<1>1. /\ upload[s] \in Upload /\ upload[s].id \in Id /\ Object(upload[s]) \in Id \X Places
      /\ stored \subseteq Id \X Places /\ left \subseteq Id /\ failures' \in Nat
  BY UploadFields, ObjectsArePlaced DEF IInv, TypeOK, Fail
<1>2. u \in Upload /\ u.pc = "cleanup" /\ u.id = upload[s].id /\ u.on = upload[s].on /\ u.name = upload[s].name
  BY <1>1 DEF Upload
<1>3. upload' = [upload EXCEPT ![s] = u]
  OBVIOUS
<1> HIDE DEF u
<1> QED
  BY <1>1, <1>2, <1>3, Onwards

\* A save that fails preserves the invariant, with or without its object.
LEMMA SaveFailsStep ==
  ASSUME IInv, NEW s \in Slots, SaveFails(s)
  PROVE  IInv'
  BY ToCleanup DEF SaveFails

\* A query that fails preserves it, committed or not.
LEMMA QueryFailsStep ==
  ASSUME IInv, NEW s \in Slots, QueryFails(s)
  PROVE  IInv'
<1>1. CASE UNCHANGED rows
  BY <1>1, ToCleanup DEF QueryFails
<1>2. CASE upload[s].pc = "insert" /\ rows' = Append(rows, RowOf(upload[s]))
  <2> DEFINE u == [upload[s] EXCEPT !.pc = "cleanup"]
  <2>1. upload[s] \in Upload /\ failures' \in Nat
    BY UploadFields DEF IInv, TypeOK, QueryFails, Fail
  <2>2. u \in Upload /\ u.pc = "cleanup" /\ u.id = upload[s].id
    BY <2>1 DEF Upload
  <2>3. upload' = [upload EXCEPT ![s] = u]
    BY DEF QueryFails
  <2> HIDE DEF u
  <2> QED
    BY <1>2, <2>1, <2>2, <2>3, AddRow DEF QueryFails
<1> QED
  BY <1>1, <1>2 DEF QueryFails

\* The catch block removes what is left of the request.
LEMMA CleanupStep ==
  ASSUME IInv, NEW s \in Slots, Cleanup(s)
  PROVE  IInv'
<1>1. temp \subseteq Id /\ stored \subseteq Id \X Places /\ left \subseteq Id /\ failures \in Nat
  BY DEF IInv, TypeOK
<1> QED
  BY <1>1, IdleIsUpload, Onwards DEF Cleanup

\* Whoever is cut short is counted among those who leave their files.
LEMMA AbandonStep ==
  ASSUME IInv, NEW s \in Slots, Abandon(s)
  PROVE  IInv'
<1>1. upload[s].id \in Id /\ stored \subseteq Id \X Places /\ left \subseteq Id /\ failures' \in Nat
  BY UploadFields DEF IInv, TypeOK, Abandon, Fail
<1> QED
  BY <1>1, IdleIsUpload, Onwards DEF Abandon

\* Nothing is there, and nobody at work, when the system starts.
LEMMA InitIInv == Init => IInv
<1> SUFFICES ASSUME Init PROVE IInv
  OBVIOUS
<1>1. rows = <<>> /\ DOMAIN rows = {} /\ rows \in Seq(Row)
  BY DEF Init
<1>2. \A s \in Slots : upload[s] = Idle
  BY DEF Init
<1>3. TypeOK
  BY <1>1, IdleIsUpload DEF Init, TypeOK
<1>4. UploadsAreNumbered /\ InsertsWhatIsStored /\ MovedIsGone
  BY <1>2, IdleIsUpload, UploadsAssumption
  DEF Init, UploadsAreNumbered, InsertsWhatIsStored, MovedIsGone
<1>5. RowsHaveObjects /\ AnswersAreOfRows /\ MissingIsElsewhere /\ LaterIsNewer
  BY <1>1 DEF Init, RowsHaveObjects, AnswersAreOfRows, MissingIsElsewhere, LaterIsNewer
<1>6. VersionsAreCounted
  BY <1>1, <1>2, IdleIsUpload DEF VersionsAreCounted
<1>7. LocalLeavesNoTemp
  BY DEF Init, LocalLeavesNoTemp
<1> QED
  BY <1>3, <1>4, <1>5, <1>6, <1>7 DEF IInv

\* Every step preserves the invariant.
LEMMA NextIInv == IInv /\ [Next]_vars => IInv'
<1> SUFFICES ASSUME IInv, [Next]_vars PROVE IInv'
  OBVIOUS
<1>1. ASSUME NEW s \in Slots,
             \/ \E x \in Instances, n \in FileNames : Receive(s, x, n)
             \/ CountVersions(s) \/ Save(s) \/ RemoveSource(s) \/ InsertRow(s)
             \/ SaveFails(s) \/ QueryFails(s) \/ Cleanup(s) \/ Abandon(s)
      PROVE  IInv'
  BY <1>1, ReceiveStep, CountVersionsStep, SaveStep, RemoveSourceStep, InsertRowStep,
     SaveFailsStep, QueryFailsStep, CleanupStep, AbandonStep
<1>2. CASE \E i \in 1..MaxUploads, x \in Instances : Download(i, x) \/ DownloadFails(i, x)
  BY <1>2, DownloadStep, DownloadFailsStep
<1>3. CASE UNCHANGED vars
  <2>1. missing \subseteq Answer /\ failures \in Nat
    BY DEF IInv, TypeOK
  <2> QED
    BY <1>3, <2>1, SameAnswers, RestStays DEF vars
<1> QED
  BY <1>1, <1>2, <1>3 DEF Next

\* What holds in every reachable state, whatever overlaps and whatever fails.
THEOREM Invariance == Spec => []IInv
  BY InitIInv, NextIInv, PTL DEF Spec

\* Rows, files and requests keep their types.
THEOREM TypeCorrectness == Spec => []TypeOK
<1>1. IInv => TypeOK
  BY DEF IInv
<1> QED
  BY <1>1, Invariance, PTL

\* A listed attachment has its object, whatever fails between storage and
\* database: FILE_MISSING tells of a read that threw or of another instance's
\* directory.
THEOREM RowsCanBeDownloaded == Spec => [](RowsHaveObjects /\ MissingIsElsewhere)
<1>1. IInv => RowsHaveObjects /\ MissingIsElsewhere
  BY DEF IInv
<1> QED
  BY <1>1, Invariance, PTL

\* Versions grow from an upload to any that begins after it was stored.
THEOREM VersionsGrow == Spec => []LaterIsNewer
<1>1. IInv => LaterIsNewer
  BY DEF IInv
<1> QED
  BY <1>1, Invariance, PTL

\* With local storage no temporary file outlives its request, except where
\* the removal itself was cut short.
THEOREM NoTempLeftLocally == Spec => []LocalLeavesNoTemp
<1>1. IInv => LocalLeavesNoTemp
  BY DEF IInv
<1> QED
  BY <1>1, Invariance, PTL
=============================================================================
