-------------------------- MODULE CorpusStoreProofs --------------------------
(***************************************************************************)
(* One project's corpus offers one current version of a document, a key and  *)
(* a version name one text, and what a run selected stays readable: however  *)
(* many uploads, moves and deletions overlap.  One search of a corpus keeps   *)
(* to what it may read, and to the nearest of it.  And nothing of a text is  *)
(* left out of the chunks it is cut into, nor cited by another place's name.  *)
(***************************************************************************)
EXTENDS CorpusStore, CorpusSearch, CorpusText, SequenceFacts

Documents == [id : Ids, key : Ids, version : Nat \ {0}, name : Names, bytes : Contents,
              origin : {"uploaded", "generated"}, current : BOOLEAN]

\* What a request holds between two of its steps, as far as a later one uses it.
Embedding(w) ==
    /\ w.key \in Ids \cup {Root}
    /\ w.name \in Names /\ w.bytes \in Contents /\ w.origin \in {"uploaded", "generated"}

Filing(w) == DOMAIN w = {"pc", "id", "key", "path", "at"} /\ w.key \in Ids \cup {Root}

Held(w) == (w.pc = "embedding" => Embedding(w)) /\ (w.pc = "filing" => Filing(w))

RequestsTyped == DOMAIN request = Requests /\ \A r \in Requests : Held(request[r])

RunTyped == DOMAIN run = {"pc", "keys", "ids", "version"}

Typed == TypeOK /\ RequestsTyped /\ RunTyped

\* A version's number was handed out with an id or after one.
VersionsBounded == \A d \in docs : d.version <= minted

\* Nothing but a user's deletion takes a selected version away.
SelectedKept ==
    \A i \in run.ids : i \in removed \/ \E d \in docs : d.id = i /\ d.origin = "uploaded"

\* Neither property is inductive alone.  A new version's number is one above the
\* highest of its key, and there is a highest one because none runs ahead of what
\* was given out; and a request that writes, deletes or moves long after it looked
\* spares the selected ones because of what it holds by then.
StoreInv == Typed /\ VersionsBounded /\ OneCurrent /\ SelectedKept

-----------------------------------------------------------------------------
(* Version numbers *)

LEMMA HighestBounds ==
    ASSUME Typed, VersionsBounded, NEW key
    PROVE  /\ Highest(key) \in Nat /\ Highest(key) <= minted
           /\ \A d \in OfKey(key) : d.version <= Highest(key)
<1>. DEFINE S == {d.version : d \in OfKey(key)}
<1>1. minted \in Nat /\ \A d \in docs : d.version \in Nat /\ d.version <= minted
  BY DEF Typed, TypeOK, VersionsBounded
<1>2. CASE OfKey(key) = {}
  BY <1>1, <1>2 DEF Highest
<1>3. CASE OfKey(key) # {}
  <2>1. S \subseteq Nat /\ S # {} /\ \A n \in S : n <= minted
    BY <1>1, <1>3 DEF OfKey
  <2>2. \E n \in S : \A m \in S : m <= n
    BY <1>1, <2>1, GreatestMember
  <2>3. \E n \in S : \A d \in OfKey(key) : d.version <= n
    BY <2>2
  <2>4. Highest(key) = CHOOSE n \in S : \A d \in OfKey(key) : d.version <= n
    BY <1>3 DEF Highest
  <2>. QED  BY <2>1, <2>3, <2>4
<1>. QED  BY <1>2, <1>3

LEMMA StoreParts ==
    TypeOK <=> /\ version \in 0 .. MaxVersion /\ minted \in Nat
               /\ docs \subseteq Documents
               /\ \A f \in Folders : f \in Ids /\ folders[f].parent \in Folders \cup {Root}
               /\ members \subseteq [key : Ids, folder : Folders]
               /\ run.ids \subseteq Ids /\ removed \subseteq Ids
BY DEF TypeOK, Documents

LEMMA Later ==
    ASSUME minted \in Nat, minted' \in Nat, minted <= minted'
    PROVE  Ids \subseteq Ids' /\ Documents \subseteq Documents'
BY DEF Ids, Documents

LEMMA SupersededIs ==
    ASSUME NEW d \in Documents, NEW key
    PROVE  /\ Superseded(d, key) \in Documents
           /\ Superseded(d, key).id = d.id /\ Superseded(d, key).key = d.key
           /\ Superseded(d, key).version = d.version
           /\ Superseded(d, key).origin = d.origin
           /\ Superseded(d, key).current => d.current /\ d.key # key
BY DEF Superseded, Documents

\* What a write of an upload adds: a version above those of its document.
LEMMA AddedIs ==
    ASSUME Typed, VersionsBounded, NEW w, Embedding(w), minted' = minted + 2
    PROVE  /\ Added(w) \in Documents'
           /\ Added(w).id = minted + 1
           /\ Added(w).key = IF w.key = Root THEN minted + 2 ELSE w.key
           /\ Added(w).version <= minted'
           /\ \A d \in OfKey(Added(w).key) : d.version < Added(w).version
<1>. DEFINE key == IF w.key = Root THEN minted + 2 ELSE w.key
            a   == [id |-> minted + 1, key |-> key, version |-> Highest(key) + 1, name |-> w.name,
                    bytes |-> w.bytes, origin |-> w.origin, current |-> TRUE]
<1>1. minted \in Nat /\ \A d \in docs : d.version \in Nat
  BY DEF Typed, TypeOK
<1>2. Added(w) = a
  BY DEF Added
<1>3. /\ Highest(key) \in Nat /\ Highest(key) <= minted
      /\ \A d \in OfKey(key) : d.version <= Highest(key)
  BY HighestBounds
<1>4. key \in Ids' /\ minted + 1 \in Ids'
  BY <1>1 DEF Embedding, Ids, Root
<1>5. a \in Documents' /\ a.id = minted + 1 /\ a.key = key /\ a.version = Highest(key) + 1
  BY <1>3, <1>4 DEF Embedding, Documents
<1>6. \A d \in OfKey(key) : d.version < Highest(key) + 1
  BY <1>1, <1>3 DEF OfKey
<1>. HIDE DEF key, a
<1>. QED  BY <1>1, <1>2, <1>3, <1>5, <1>6 DEF key

\* A deleted folder takes what is beneath it along.
LEMMA NothingBeneath ==
    ASSUME NEW fs, NEW f \in Folders, folders[f].parent \in Descendants(fs)
    PROVE  f \in Descendants(fs)
BY DEF Descendants

-----------------------------------------------------------------------------
(* Types *)

LEMMA RequestMoves ==
    ASSUME RequestsTyped, NEW r \in Requests, NEW w, Goto(r, w),
           minted \in Nat, minted' \in Nat, minted <= minted',
           w.pc = "embedding" => Embedding(w), w.pc = "filing" => Filing(w)
    PROVE  RequestsTyped'
<1>1. DOMAIN request' = Requests /\ request'[r] = w /\ \A q \in Requests \ {r} : request'[q] = request[q]
  BY DEF RequestsTyped, Goto
<1>2. Ids \subseteq Ids'
  BY Later
<1>3. ASSUME NEW q \in Requests PROVE Held(request[q])'
  BY <1>1, <1>2, <1>3 DEF RequestsTyped, Held, Embedding, Filing
<1>. QED  BY <1>1, <1>3 DEF RequestsTyped

LEMMA FinishMoves ==
    ASSUME RequestsTyped, NEW r \in Requests, Finish(r),
           minted \in Nat, minted' \in Nat, minted <= minted'
    PROVE  RequestsTyped'
<1>1. Goto(r, NoRequest) /\ NoRequest.pc = "idle"
  BY DEF Finish, Goto, NoRequest
<1>. HIDE DEF NoRequest
<1>. QED  BY <1>1, RequestMoves

LEMMA RequestsRest ==
    ASSUME RequestsTyped, request' = request, minted \in Nat, minted' \in Nat, minted <= minted'
    PROVE  RequestsTyped'
BY Later DEF RequestsTyped, Held, Embedding, Filing

\* A folder that is made, or is there.
LEMMA CreateTypes ==
    ASSUME Typed, NEW name, NEW parent \in Folders \cup {Root}, Create(name, parent)
    PROVE  /\ minted' \in Nat /\ minted <= minted' /\ version' \in 0 .. MaxVersion
           /\ Folders \subseteq Folders'
           /\ \A f \in Folders' : f \in Ids' /\ folders'[f].parent \in Folders' \cup {Root}
<1>1. minted \in Nat /\ version \in 0 .. MaxVersion /\ MaxVersion \in Nat
  BY CorpusAssumption DEF Typed, TypeOK
<1>2. \A f \in Folders : f \in Ids /\ folders[f].parent \in Folders \cup {Root}
  BY DEF Typed, TypeOK
<1>3. CASE UNCHANGED <<folders, version, minted>>
  BY <1>1, <1>2, <1>3 DEF Folders, Ids
<1>4. CASE ~UNCHANGED <<folders, version, minted>>
  <2>1. /\ Counts /\ minted' = minted + 1
        /\ folders' = [f \in Folders \cup {minted + 1} |->
               IF f \in Folders THEN folders[f] ELSE [parent |-> parent, name |-> name]]
    BY <1>4 DEF Create
  <2>2. version' \in 0 .. MaxVersion /\ Folders' = Folders \cup {minted + 1} /\ Ids' = Ids \cup {minted + 1}
    BY <1>1, <2>1 DEF Counts, Folders, Ids
  <2>3. ASSUME NEW f \in Folders' PROVE folders'[f].parent \in Folders' \cup {Root}
    BY <1>2, <2>1, <2>2
  <2>. QED  BY <1>1, <1>2, <2>1, <2>2, <2>3
<1>. QED  BY <1>3, <1>4

\* The types that a step of one request, or of the run, has to keep.
LEMMA TypedNext ==
    ASSUME version' \in 0 .. MaxVersion, minted' \in Nat, docs' \subseteq Documents',
           \A f \in Folders' : f \in Ids' /\ folders'[f].parent \in Folders' \cup {Root},
           members' \subseteq [key : Ids', folder : Folders'],
           run'.ids \subseteq Ids', removed' \subseteq Ids', RequestsTyped', RunTyped'
    PROVE  Typed'
BY DEF Typed, TypeOK, Documents, Folders

LEMMA IngestTypes ==
    ASSUME Typed, VersionsBounded, NEW r \in Requests, Ingest(r)
    PROVE  Typed'
<1>0. /\ version \in 0 .. MaxVersion /\ minted \in Nat /\ docs \subseteq Documents
      /\ \A f \in Folders : f \in Ids /\ folders[f].parent \in Folders \cup {Root}
      /\ members \subseteq [key : Ids, folder : Folders]
      /\ run.ids \subseteq Ids /\ removed \subseteq Ids
      /\ RequestsTyped /\ RunTyped /\ Held(request[r]) /\ MaxVersion \in Nat
  BY StoreParts, CorpusAssumption DEF Typed, RequestsTyped
<1>1. UNCHANGED <<run, removed>>
  BY DEF Ingest, Prepare, EmbedFails, Write, EnsureFolder, AddMembership
<1>2. RunTyped'
  BY <1>0, <1>1 DEF RunTyped
<1>3. ASSUME UNCHANGED <<docs, folders, members, version, minted>>, RequestsTyped'
      PROVE  Typed'
  BY <1>0, <1>1, <1>2, <1>3 DEF Typed, TypeOK, Folders, Ids
<1>4. CASE Prepare(r)
  <2>1. PICK key \in Keys \cup {Root}, name \in Names, bytes \in Contents, path \in Paths,
             origin \in {"uploaded", "generated"} :
          \/ Goto(r, [pc |-> "embedding", key |-> key, name |-> name, bytes |-> bytes,
                      path |-> path, origin |-> origin])
          \/ \E d \in Seen(key, name, bytes) : Goto(r, File(d.id, Root, path))
    BY <1>4, SMTT(30) DEF Prepare
  <2>2. key \in Ids \cup {Root}
    BY <1>0 DEF Keys, Documents
  <2>3. CASE Goto(r, [pc |-> "embedding", key |-> key, name |-> name, bytes |-> bytes,
                      path |-> path, origin |-> origin])
    <3>. DEFINE w == [pc |-> "embedding", key |-> key, name |-> name, bytes |-> bytes,
                      path |-> path, origin |-> origin]
    <3>1. w.pc = "embedding" /\ Embedding(w)
      BY <2>2 DEF Embedding
    <3>. HIDE DEF w
    <3>2. Goto(r, w)
      BY <2>3 DEF w
    <3>3. RequestsTyped'
      BY <1>0, <1>4, <3>1, <3>2, RequestMoves DEF Prepare
    <3>. QED  BY <1>3, <1>4, <3>3 DEF Prepare
  <2>4. ASSUME NEW d \in Seen(key, name, bytes), Goto(r, File(d.id, Root, path))
        PROVE  Typed'
    <3>. DEFINE w == File(d.id, Root, path)
    <3>1. w.pc = "filing" /\ Filing(w)
      BY DEF File, Filing
    <3>. HIDE DEF w
    <3>2. Goto(r, w)
      BY <2>4 DEF w
    <3>3. RequestsTyped'
      BY <1>0, <1>4, <3>1, <3>2, RequestMoves DEF Prepare
    <3>. QED  BY <1>3, <1>4, <3>3 DEF Prepare
  <2>. QED  BY <2>1, <2>3, <2>4
<1>5. CASE EmbedFails(r)
  <2>1. RequestsTyped'
    BY <1>0, <1>5, FinishMoves DEF EmbedFails
  <2>. QED  BY <1>3, <1>5, <2>1 DEF EmbedFails
<1>6. CASE Write(r)
  <2>1. PICK w : w = request[r]
    OBVIOUS
  <2>2. w.pc = "embedding" /\ Embedding(w)
    BY <1>0, <1>6, <2>1 DEF Write, At, Held
  <2>3. CASE Finish(r) /\ UNCHANGED <<docs, version, minted>>
    <3>1. RequestsTyped'
      BY <1>0, <2>3, FinishMoves
    <3>. QED  BY <1>3, <1>6, <2>3, <3>1 DEF Write
  <2>4. CASE /\ Counts /\ docs' = With(w) /\ minted' = minted + 2
             /\ \/ Finish(r)
                \/ Goto(r, File(Added(w).id, Added(w).key, w.path))
    <3>1. /\ Added(w) \in Documents' /\ Added(w).key \in Ids'
          /\ Added(w).key = IF w.key = Root THEN minted + 2 ELSE w.key
      BY <2>2, <2>4, AddedIs DEF Documents
    <3>2. Ids \subseteq Ids' /\ Documents \subseteq Documents' /\ minted' \in Nat /\ minted <= minted'
      BY <1>0, <2>4, Later
    <3>3. docs' \subseteq Documents'
      <4>1. \A d \in docs : Superseded(d, w.key) \in Documents
        BY <1>0, SupersededIs
      <4>. QED  BY <2>4, <3>1, <3>2, <4>1 DEF With
    <3>4. RequestsTyped'
      <4>1. CASE Finish(r)
        BY <1>0, <3>2, <4>1, FinishMoves
      <4>2. CASE Goto(r, File(Added(w).id, Added(w).key, w.path))
        <5>1. PICK v : v = File(Added(w).id, Added(w).key, w.path)
          OBVIOUS
        <5>2. /\ v.pc = "filing" /\ DOMAIN v = {"pc", "id", "key", "path", "at"}
              /\ v.key \in Ids' \cup {Root}
          BY <3>1, <5>1 DEF File
        <5>3. /\ DOMAIN request' = Requests /\ request'[r] = v
              /\ \A q \in Requests \ {r} : request'[q] = request[q]
          BY <1>0, <4>2, <5>1 DEF RequestsTyped, Goto
        <5>4. ASSUME NEW q \in Requests PROVE Held(request[q])'
          BY <1>0, <3>2, <5>2, <5>3 DEF RequestsTyped, Held, Embedding, Filing
        <5>. QED  BY <5>3, <5>4 DEF RequestsTyped
      <4>. QED  BY <2>4, <4>1, <4>2
    <3>5. version' \in 0 .. MaxVersion
      BY <1>0, <2>4 DEF Counts
    <3>6. UNCHANGED <<folders, members>>
      BY <1>6 DEF Write
    <3>7. /\ \A f \in Folders' : f \in Ids' /\ folders'[f].parent \in Folders' \cup {Root}
          /\ members' \subseteq [key : Ids', folder : Folders']
          /\ run'.ids \subseteq Ids' /\ removed' \subseteq Ids'
      BY <1>0, <1>1, <3>2, <3>6 DEF Folders
    <3>. QED  BY <1>2, <3>2, <3>3, <3>4, <3>5, <3>7, TypedNext
  <2>. QED  BY <1>6, <2>1, <2>3, <2>4 DEF Write
<1>7. CASE EnsureFolder(r)
  <2>1. PICK w : w = request[r]
    OBVIOUS
  <2>2. w.pc = "filing" /\ Filing(w)
    BY <1>0, <1>7, <2>1 DEF EnsureFolder, At, Held
  <2>3. CASE Finish(r) /\ UNCHANGED <<folders, version, minted>>
    <3>1. RequestsTyped'
      BY <1>0, <2>3, FinishMoves
    <3>. QED  BY <1>3, <1>7, <2>3, <3>1 DEF EnsureFolder
  <2>4. CASE /\ Exists(w.at) /\ Create(Head(w.path), w.at)
             /\ Goto(r, [w EXCEPT !.path = Tail(w.path), !.at = Place(Head(w.path), w.at)])
    <3>1. w.at \in Folders \cup {Root}
      BY <2>4 DEF Exists
    <3>2. /\ minted' \in Nat /\ minted <= minted' /\ version' \in 0 .. MaxVersion
          /\ Folders \subseteq Folders'
          /\ \A f \in Folders' : f \in Ids' /\ folders'[f].parent \in Folders' \cup {Root}
      BY <2>4, <3>1, CreateTypes
    <3>3. PICK v : v = [w EXCEPT !.path = Tail(w.path), !.at = Place(Head(w.path), w.at)]
      OBVIOUS
    <3>4. v.pc = "filing" /\ Filing(v)
      BY <2>2, <3>3 DEF Filing
    <3>5. RequestsTyped'
      BY <1>0, <2>4, <3>2, <3>3, <3>4, RequestMoves
    <3>6. Ids \subseteq Ids' /\ Documents \subseteq Documents'
      BY <1>0, <3>2, Later
    <3>7. UNCHANGED <<docs, members>>
      BY <1>7 DEF EnsureFolder
    <3>. QED  BY <1>0, <1>1, <1>2, <3>2, <3>5, <3>6, <3>7, TypedNext
  <2>. QED  BY <1>7, <2>1, <2>3, <2>4 DEF EnsureFolder
<1>8. CASE AddMembership(r)
  <2>1. PICK w : w = request[r]
    OBVIOUS
  <2>2. w.pc = "filing" /\ Filing(w)
    BY <1>0, <1>8, <2>1 DEF AddMembership, At, Held
  <2>3. PICK key : key = IF w.key # Root THEN {w.key} ELSE {d.key : d \in {e \in docs : e.id = w.id}}
    OBVIOUS
  <2>4. key \subseteq Ids
    BY <1>0, <2>2, <2>3 DEF Filing, Documents
  <2>5. members' = IF w.at \in Folders
                   THEN members \cup {[key |-> k, folder |-> w.at] : k \in key} ELSE members
    BY <1>8, <2>1, <2>3 DEF AddMembership
  <2>6. members' \subseteq [key : Ids, folder : Folders]
    BY <1>0, <2>4, <2>5
  <2>7. RequestsTyped' /\ UNCHANGED <<docs, folders, version, minted>>
    BY <1>0, <1>8, FinishMoves DEF AddMembership
  <2>. QED  BY <1>0, <1>1, <1>2, <2>6, <2>7 DEF Typed, TypeOK, Documents, Folders, Ids
<1>. QED  BY <1>4, <1>5, <1>6, <1>7, <1>8 DEF Ingest

LEMMA ManageTypes ==
    ASSUME Typed, NEW r \in Requests, Manage(r)
    PROVE  Typed'
<1>0. /\ version \in 0 .. MaxVersion /\ minted \in Nat /\ docs \subseteq Documents
      /\ \A f \in Folders : f \in Ids /\ folders[f].parent \in Folders \cup {Root}
      /\ members \subseteq [key : Ids, folder : Folders]
      /\ run.ids \subseteq Ids /\ removed \subseteq Ids
      /\ RequestsTyped /\ RunTyped /\ MaxVersion \in Nat
  BY StoreParts, CorpusAssumption DEF Typed
<1>1. run' = run
  BY DEF Manage, DeleteVersion, CreateFolder, CheckMove, MoveFolder, ScanFolder, DeleteFolder
<1>2. RunTyped'
  BY <1>0, <1>1 DEF RunTyped
<1>3. ASSUME UNCHANGED <<docs, folders, members, version, minted, removed>>, NEW w,
             Goto(r, w), w.pc \notin {"embedding", "filing"}
      PROVE  Typed'
  <2>1. RequestsTyped'
    BY <1>0, <1>3, RequestMoves
  <2>. QED  BY <1>0, <1>1, <1>2, <1>3, <2>1 DEF Typed, TypeOK, Folders, Ids
<1>4. CASE DeleteVersion(r)
  <2>1. PICK d \in docs : docs' = Deleted(d) /\ removed' = removed \cup {d.id}
    BY <1>4 DEF DeleteVersion
  <2>2. Counts /\ UNCHANGED <<folders, members, request, minted>>
    BY <1>4 DEF DeleteVersion
  <2>3. RequestsTyped'
    BY <1>0, <2>2, RequestsRest
  <2>4. docs' \subseteq Documents /\ removed' \subseteq Ids /\ version' \in 0 .. MaxVersion
    BY <1>0, <2>1, <2>2 DEF Deleted, Documents, Counts
  <2>. QED  BY <1>0, <1>1, <1>2, <2>2, <2>3, <2>4 DEF Typed, TypeOK, Documents, Folders, Ids
<1>5. CASE CreateFolder(r)
  <2>1. PICK name \in Titles, parent \in Folders \cup {Root} : Create(name, parent)
    BY <1>5 DEF CreateFolder
  <2>2. /\ minted' \in Nat /\ minted <= minted' /\ version' \in 0 .. MaxVersion
        /\ Folders \subseteq Folders'
        /\ \A f \in Folders' : f \in Ids' /\ folders'[f].parent \in Folders' \cup {Root}
    BY <2>1, CreateTypes
  <2>3. UNCHANGED <<docs, members, request, removed>>
    BY <1>5 DEF CreateFolder
  <2>4. RequestsTyped'
    BY <1>0, <2>2, <2>3, RequestsRest
  <2>5. Ids \subseteq Ids' /\ Documents \subseteq Documents'
    BY <1>0, <2>2, Later
  <2>. QED  BY <1>0, <1>1, <1>2, <2>2, <2>3, <2>4, <2>5, TypedNext
<1>6. CASE CheckMove(r)
  <2>1. PICK f \in Folders, parent \in Folders \cup {Root}, name \in Titles :
          Goto(r, [pc |-> "moving", folder |-> f, parent |-> parent, name |-> name])
    BY <1>6 DEF CheckMove
  <2>2. PICK w : w = [pc |-> "moving", folder |-> f, parent |-> parent, name |-> name]
    OBVIOUS
  <2>3. w.pc \notin {"embedding", "filing"} /\ Goto(r, w)
    BY <2>1, <2>2
  <2>. QED  BY <1>3, <1>6, <2>3 DEF CheckMove
<1>7. CASE MoveFolder(r)
  <2>1. PICK w : w = request[r]
    OBVIOUS
  <2>2. UNCHANGED <<docs, members, minted, removed>> /\ Finish(r)
    BY <1>7 DEF MoveFolder
  <2>3. RequestsTyped'
    BY <1>0, <2>2, FinishMoves
  <2>4. /\ version' \in 0 .. MaxVersion /\ Folders' = Folders
        /\ \A f \in Folders : folders'[f].parent \in Folders \cup {Root}
    <3>1. CASE UNCHANGED <<folders, version>>
      BY <1>0, <3>1 DEF Folders
    <3>2. CASE /\ Exists(w.parent) /\ Counts
               /\ folders' = [f \in Folders |->
                      IF f = w.folder THEN [parent |-> w.parent, name |-> w.name] ELSE folders[f]]
      <4>1. w.parent \in Folders \cup {Root}
        BY <3>2 DEF Exists
      <4>2. Folders' = Folders /\ version' \in 0 .. MaxVersion
        BY <1>0, <3>2 DEF Folders, Counts
      <4>3. ASSUME NEW f \in Folders PROVE folders'[f].parent \in Folders \cup {Root}
        BY <1>0, <3>2, <4>1
      <4>. QED  BY <4>2, <4>3
    <3>. QED  BY <1>7, <2>1, <3>1, <3>2 DEF MoveFolder
  <2>5. Ids' = Ids /\ Documents' = Documents
    BY <2>2 DEF Ids, Documents
  <2>. QED  BY <1>0, <1>1, <1>2, <2>2, <2>3, <2>4, <2>5, TypedNext
<1>8. CASE ScanFolder(r)
  <2>1. PICK f \in Folders :
          Goto(r, [pc |-> "deleting", doomed |-> Descendants({f}),
                   keys |-> {m.key : m \in {n \in members : n.folder \in Descendants({f})}}])
    BY <1>8 DEF ScanFolder
  <2>2. PICK w : w = [pc |-> "deleting", doomed |-> Descendants({f}),
                      keys |-> {m.key : m \in {n \in members : n.folder \in Descendants({f})}}]
    OBVIOUS
  <2>3. w.pc \notin {"embedding", "filing"} /\ Goto(r, w)
    BY <2>1, <2>2
  <2>. QED  BY <1>3, <1>8, <2>3 DEF ScanFolder
<1>9. CASE DeleteFolder(r)
  <2>1. PICK gone, lost :
          /\ gone = Descendants(request[r].doomed) /\ lost \subseteq docs
          /\ members' = {m \in members : m.folder \notin gone}
          /\ folders' = [f \in Folders \ gone |-> folders[f]]
          /\ docs' = docs \ lost
          /\ removed' = removed \cup Ids_of(lost)
    BY <1>9 DEF DeleteFolder
  <2>2. Counts /\ Finish(r) /\ minted' = minted
    BY <1>9 DEF DeleteFolder
  <2>3. RequestsTyped'
    BY <1>0, <2>2, FinishMoves
  <2>4. Folders' = Folders \ gone
    BY <2>1 DEF Folders
  <2>5. ASSUME NEW f \in Folders' PROVE folders'[f].parent \in Folders' \cup {Root}
    <3>1. f \in Folders /\ f \notin gone /\ folders'[f] = folders[f]
      BY <2>1, <2>4
    <3>2. folders[f].parent \notin gone
      BY <2>1, <3>1, NothingBeneath
    <3>. QED  BY <1>0, <2>4, <3>1, <3>2
  <2>6. Ids' = Ids /\ Documents' = Documents
    BY <2>2 DEF Ids, Documents
  <2>7. members' \subseteq [key : Ids, folder : Folders'] /\ docs' \subseteq Documents
    BY <1>0, <2>1, <2>4
  <2>8. removed' \subseteq Ids
    BY <1>0, <2>1 DEF Ids_of, Documents
  <2>9. version' \in 0 .. MaxVersion
    BY <1>0, <2>2 DEF Counts
  <2>. QED  BY <1>0, <1>1, <1>2, <2>2, <2>3, <2>4, <2>5, <2>6, <2>7, <2>8, <2>9, TypedNext
<1>. QED  BY <1>4, <1>5, <1>6, <1>7, <1>8, <1>9 DEF Manage

LEMMA SelectTypes ==
    ASSUME Typed, Select \/ Resolve \/ Stamp
    PROVE  Typed'
<1>0. /\ docs \subseteq Documents /\ run.ids \subseteq Ids /\ RunTyped
  BY StoreParts DEF Typed
<1>1. UNCHANGED <<docs, folders, members, version, request, minted, removed>>
  BY DEF Select, Resolve, Stamp
<1>2. RunTyped' /\ run'.ids \subseteq Ids
  <2>1. CASE Select
    <3>1. PICK keys : run' = [run EXCEPT !.pc = "resolving", !.keys = keys]
      BY <2>1 DEF Select
    <3>. QED  BY <1>0, <3>1 DEF RunTyped
  <2>2. CASE Resolve
    <3>1. PICK ids : /\ ids = Ids_of({d \in Visible : d.key \in run.keys})
                     /\ run' = IF ids = {} THEN NoRun ELSE [NoRun EXCEPT !.pc = "stamping", !.ids = ids]
      BY <2>2 DEF Resolve
    <3>2. ids \subseteq Ids
      BY <1>0, <3>1 DEF Ids_of, Visible, Documents
    <3>. QED  BY <3>1, <3>2 DEF RunTyped, NoRun
  <2>3. CASE Stamp
    BY <1>0, <2>3 DEF Stamp, RunTyped
  <2>. QED  BY <2>1, <2>2, <2>3
<1>3. minted \in Nat /\ RequestsTyped
  BY DEF Typed, TypeOK
<1>4. RequestsTyped'
  BY <1>1, <1>3, RequestsRest
<1>. QED  BY <1>0, <1>1, <1>2, <1>4 DEF Typed, TypeOK, Folders, Ids

LEMMA TypedStep == Typed /\ VersionsBounded /\ [Next]_vars => Typed'
<1>. SUFFICES ASSUME Typed, VersionsBounded, [Next]_vars PROVE Typed'
  OBVIOUS
<1>1. CASE UNCHANGED vars
  <2>1. minted \in Nat /\ RequestsTyped
    BY DEF Typed, TypeOK
  <2>2. RequestsTyped'
    BY <1>1, <2>1, RequestsRest DEF vars
  <2>. QED  BY <1>1, <2>2 DEF Typed, TypeOK, RunTyped, Folders, Ids, vars
<1>. QED  BY <1>1, IngestTypes, ManageTypes, SelectTypes DEF Next

LEMMA StoreStarts == Init => StoreInv
<1>. SUFFICES ASSUME Init PROVE StoreInv
  OBVIOUS
<1>1. /\ docs = {} /\ members = {} /\ removed = {} /\ Folders = {}
      /\ version = 0 /\ minted = 0 /\ run.ids = {}
  BY DEF Init, Folders, NoRun
<1>2. RequestsTyped
  BY DEF Init, RequestsTyped, Held, NoRequest
<1>3. RunTyped
  BY DEF Init, RunTyped, NoRun
<1>. QED
  BY <1>1, <1>2, <1>3, CorpusAssumption
     DEF StoreInv, Typed, TypeOK, VersionsBounded, OneCurrent, SelectedKept

-----------------------------------------------------------------------------
(* One current version *)

\* The only step that adds a document is a write, and it adds one.
LEMMA DocumentsMove ==
    ASSUME Typed, [Next]_vars
    PROVE  /\ minted' \in Nat /\ minted <= minted'
           /\ \/ docs' \subseteq docs
              \/ \E r \in Requests :
                   /\ request[r].pc = "embedding" /\ docs' = With(request[r])
                   /\ minted' = minted + 2
<1>0. minted \in Nat
  BY DEF Typed, TypeOK
<1>1. CASE UNCHANGED vars
  BY <1>0, <1>1 DEF vars
<1>2. CASE Select \/ Resolve \/ Stamp
  <2>1. UNCHANGED <<docs, minted>>
    BY <1>2 DEF Select, Resolve, Stamp
  <2>. QED  BY <1>0, <2>1
<1>3. ASSUME NEW r \in Requests, Ingest(r)
      PROVE  /\ minted' \in Nat /\ minted <= minted'
             /\ \/ docs' \subseteq docs
                \/ /\ request[r].pc = "embedding" /\ docs' = With(request[r])
                   /\ minted' = minted + 2
  <2>1. CASE Write(r)
    BY <1>0, <2>1 DEF Write, At
  <2>2. CASE EnsureFolder(r)
    BY <1>0, <2>2 DEF EnsureFolder, Create
  <2>3. CASE Prepare(r) \/ EmbedFails(r) \/ AddMembership(r)
    BY <1>0, <2>3 DEF Prepare, EmbedFails, AddMembership
  <2>. QED  BY <1>3, <2>1, <2>2, <2>3 DEF Ingest
<1>4. ASSUME NEW r \in Requests, Manage(r)
      PROVE  minted' \in Nat /\ minted <= minted' /\ docs' \subseteq docs
  <2>1. CASE CreateFolder(r)
    BY <1>0, <2>1 DEF CreateFolder, Create
  <2>2. CASE DeleteVersion(r) \/ DeleteFolder(r)
    <3>1. minted' = minted /\ \E lost : docs' = docs \ lost
      BY <2>2 DEF DeleteVersion, Deleted, DeleteFolder
    <3>. QED  BY <1>0, <3>1
  <2>3. CASE CheckMove(r) \/ MoveFolder(r) \/ ScanFolder(r)
    <3>1. UNCHANGED <<docs, minted>>
      BY <2>3 DEF CheckMove, MoveFolder, ScanFolder
    <3>. QED  BY <1>0, <3>1
  <2>. QED  BY <1>4, <2>1, <2>2, <2>3 DEF Manage
<1>. QED  BY <1>1, <1>2, <1>3, <1>4 DEF Next

LEMMA WriteKeepsOne ==
    ASSUME Typed, VersionsBounded, OneCurrent, NEW w, Embedding(w),
           docs' = With(w), minted' = minted + 2
    PROVE  VersionsBounded' /\ OneCurrent'
<1>. DEFINE S(d) == Superseded(d, w.key)
            a    == Added(w)
<1>0. docs \subseteq Documents /\ minted \in Nat
  BY StoreParts DEF Typed
<1>1. /\ a.key = IF w.key = Root THEN minted + 2 ELSE w.key
      /\ a.version <= minted'
      /\ \A d \in OfKey(a.key) : d.version < a.version
  BY AddedIs
<1>2. \A d \in docs : /\ S(d).key = d.key /\ S(d).version = d.version
                      /\ S(d).current => d.current /\ d.key # w.key
  BY <1>0, SupersededIs
<1>3. docs' = {S(d) : d \in docs} \cup {a}
  BY DEF With
<1>4. \A d \in docs : d.key \in Nat /\ d.key <= minted /\ d.version \in Nat /\ d.version <= minted
  BY <1>0 DEF Documents, Ids, VersionsBounded
<1>. HIDE DEF S, a
\* An older version of the document is below the new one and not current.
<1>5. ASSUME NEW d \in docs, S(d).key = a.key
      PROVE  S(d).version < a.version /\ ~S(d).current
  <2>1. d.key = a.key /\ d.key # minted + 2
    BY <1>0, <1>2, <1>4, <1>5
  <2>2. d.key = w.key /\ d \in OfKey(a.key)
    BY <1>1, <2>1 DEF OfKey
  <2>. QED  BY <1>1, <1>2, <2>2
<1>6. ASSUME NEW d \in docs, NEW e \in docs, S(d).key = S(e).key,
             S(d).version = S(e).version \/ (S(d).current /\ S(e).current)
      PROVE  S(d) = S(e)
  <2>1. d.key = e.key /\ (d.version = e.version \/ (d.current /\ e.current))
    BY <1>2, <1>6
  <2>2. d = e
    BY <2>1 DEF OneCurrent
  <2>. QED  BY <2>2
<1>7. ASSUME NEW x \in docs', NEW y \in docs', x.key = y.key,
             x.version = y.version \/ (x.current /\ y.current)
      PROVE  x = y
  <2>0. \A d \in docs : S(d).version \in Nat
    BY <1>2, <1>4
  <2>1. CASE x = a /\ y = a
    BY <2>1
  <2>2. ASSUME NEW d \in docs, x = S(d), y = a PROVE FALSE
    BY <1>5, <1>7, <2>0, <2>2
  <2>3. ASSUME NEW d \in docs, y = S(d), x = a PROVE FALSE
    BY <1>5, <1>7, <2>0, <2>3
  <2>4. ASSUME NEW d \in docs, NEW e \in docs, x = S(d), y = S(e) PROVE x = y
    BY <1>6, <1>7, <2>4
  <2>. QED  BY <1>3, <2>1, <2>2, <2>3, <2>4
<1>8. VersionsBounded'
  <2>1. \A d \in docs : S(d).version <= minted'
    BY <1>0, <1>2, <1>4
  <2>. QED  BY <1>1, <1>3, <2>1 DEF VersionsBounded
<1>. QED  BY <1>7, <1>8 DEF OneCurrent

LEMMA CurrentStep ==
    Typed /\ VersionsBounded /\ OneCurrent /\ [Next]_vars => VersionsBounded' /\ OneCurrent'
<1>. SUFFICES ASSUME Typed, VersionsBounded, OneCurrent, [Next]_vars
              PROVE  VersionsBounded' /\ OneCurrent'
  OBVIOUS
<1>0. minted \in Nat /\ \A d \in docs : d.version \in Nat
  BY DEF Typed, TypeOK
<1>1. minted' \in Nat /\ minted <= minted'
  BY DocumentsMove
<1>2. CASE docs' \subseteq docs
  BY <1>0, <1>1, <1>2 DEF VersionsBounded, OneCurrent
<1>3. ASSUME NEW r \in Requests, request[r].pc = "embedding", docs' = With(request[r]),
             minted' = minted + 2
      PROVE  VersionsBounded' /\ OneCurrent'
  <2>1. Embedding(request[r])
    BY <1>3 DEF Typed, RequestsTyped, Held
  <2>. QED  BY <1>3, <2>1, WriteKeepsOne
<1>. QED  BY <1>2, <1>3, DocumentsMove

\* Retrieval never offers two versions of a document, and a key and a version
\* name one text: for any number of overlapping uploads and deletions.
THEOREM OneVersionIsCurrent == Spec => []OneCurrent
<1>1. StoreInv => Typed /\ VersionsBounded /\ OneCurrent
  BY DEF StoreInv
<1>. QED  BY <1>1, StoreStarts, TypedStep, CurrentStep, PTL DEF Spec

-----------------------------------------------------------------------------
(* What a run selected *)

LEMMA SelectedStep ==
    Typed /\ SelectedKept /\ [Next]_vars => SelectedKept'
<1>. SUFFICES ASSUME Typed, SelectedKept, [Next]_vars PROVE SelectedKept'
  OBVIOUS
<1>0. docs \subseteq Documents /\ RunTyped
  BY StoreParts DEF Typed
<1>1. CASE UNCHANGED <<docs, run, removed>>
  BY <1>1 DEF SelectedKept
<1>2. CASE UNCHANGED <<run, removed>> /\ \E r \in Requests : docs' = With(request[r])
  <2>1. PICK key : \A d \in docs : Superseded(d, key) \in docs'
    BY <1>2 DEF With
  <2>2. \A d \in docs : Superseded(d, key).id = d.id /\ Superseded(d, key).origin = d.origin
    BY <1>0, SupersededIs
  <2>. QED  BY <1>2, <2>1, <2>2 DEF SelectedKept
<1>3. ASSUME NEW lost, docs' = docs \ lost, removed' = removed \cup Ids_of(lost), run' = run
      PROVE  SelectedKept'
  BY <1>3 DEF SelectedKept, Ids_of
<1>4. CASE Select
  <2>1. PICK keys : run' = [run EXCEPT !.pc = "resolving", !.keys = keys]
    BY <1>4 DEF Select
  <2>2. run'.ids = run.ids
    BY <1>0, <2>1 DEF RunTyped
  <2>. QED  BY <1>4, <2>2 DEF Select, SelectedKept
<1>5. CASE Resolve
  <2>1. PICK ids : /\ ids = Ids_of({d \in Visible : d.key \in run.keys})
                   /\ run' = IF ids = {} THEN NoRun ELSE [NoRun EXCEPT !.pc = "stamping", !.ids = ids]
    BY <1>5 DEF Resolve
  <2>2. run'.ids \subseteq ids
    BY <2>1 DEF NoRun
  <2>3. \A i \in ids : \E d \in docs : d.id = i /\ d.origin = "uploaded"
    BY <2>1 DEF Ids_of, Visible
  <2>. QED  BY <1>5, <2>2, <2>3 DEF Resolve, SelectedKept
<1>6. CASE Stamp
  <2>1. run'.ids = run.ids
    BY <1>0, <1>6 DEF Stamp, RunTyped
  <2>. QED  BY <1>6, <2>1 DEF Stamp, SelectedKept
<1>7. ASSUME NEW r \in Requests, Ingest(r)  PROVE SelectedKept'
  <2>1. UNCHANGED <<run, removed>> /\ (docs' = docs \/ docs' = With(request[r]))
    BY <1>7 DEF Ingest, Prepare, EmbedFails, Write, EnsureFolder, AddMembership
  <2>. QED  BY <1>1, <1>2, <2>1
<1>8. ASSUME NEW r \in Requests, Manage(r)  PROVE SelectedKept'
  <2>1. CASE DeleteVersion(r)
    <3>1. PICK d \in docs : docs' = docs \ {d} /\ removed' = removed \cup {d.id} /\ run' = run
      BY <2>1 DEF DeleteVersion, Deleted
    <3>2. Ids_of({d}) = {d.id}
      BY DEF Ids_of
    <3>. QED  BY <1>3, <3>1, <3>2
  <2>2. CASE DeleteFolder(r)
    <3>1. PICK lost : docs' = docs \ lost /\ removed' = removed \cup Ids_of(lost) /\ run' = run
      BY <2>2 DEF DeleteFolder
    <3>. QED  BY <1>3, <3>1
  <2>3. CASE CreateFolder(r) \/ CheckMove(r) \/ MoveFolder(r) \/ ScanFolder(r)
    BY <1>1, <2>3 DEF CreateFolder, CheckMove, MoveFolder, ScanFolder
  <2>. QED  BY <1>8, <2>1, <2>2, <2>3 DEF Manage
<1>9. CASE UNCHANGED vars
  BY <1>1, <1>9 DEF vars
<1>. QED  BY <1>4, <1>5, <1>6, <1>7, <1>8, <1>9 DEF Next

\* What a run selected stays readable however often it is superseded; only a
\* user's deletion takes it away.
THEOREM SelectionStays == Spec => []SelectedStays
<1>1. StoreInv => Typed /\ VersionsBounded /\ OneCurrent /\ SelectedKept
  BY DEF StoreInv
<1>2. SelectedKept => SelectedStays
  BY DEF SelectedKept, SelectedStays, Readable, Ids_of
<1>. QED  BY <1>1, <1>2, StoreStarts, TypedStep, CurrentStep, SelectedStep, PTL DEF Spec

-----------------------------------------------------------------------------
(* CorpusSearch: the rows of a search *)

Words   == STRING \cup {"none", "stale", "fake", "hosted", "here", "provider"}
Passage == [file : Nat, near : Nat, model : Words]
Filed   == [origin : {"uploaded", "generated", "removed"}, current : BOOLEAN]

EmbedderShape == [kind : {"none", "fake", "local", "hosted"}, model : Words, host : Words]
Embedders     == {e \in EmbedderShape : e.kind \in {"none", "fake"} => e.host = "here"}

AskedShape ==
    [mode : {"run", "chat", "reports"}, chosen : SUBSET Nat, most : Nat \ {0}, embedder : Embedders, vector : BOOLEAN]

\* What the settings, the index and a search are.
SearchTypes ==
    /\ deployment.configured \in Words /\ deployment.host \in Words
    /\ deployment.choice \in {"none", "hosted", "local", "auto"}
    /\ serving \in Seq(STRING) /\ probed \in Words
    /\ files \in Seq(Filed)
    /\ passages \in Seq(Passage)
    /\ asked = NoSearch \/ (asked \in AskedShape /\ IsFiniteSet(asked.chosen))

\* What may be looked at are places in the index, each with a nearness.
LEMMA RowsAre ==
    ASSUME SearchTypes
    PROVE  /\ Rows \subseteq DOMAIN passages
           /\ IsFiniteSet(DOMAIN passages) /\ DOMAIN passages \subseteq Nat
           /\ \A p \in DOMAIN passages : passages[p] \in Passage /\ Near(p) \in Nat /\ Near(p) = passages[p].near
<1>1. PICK n : n = Len(passages)
  OBVIOUS
<1>2. n \in Nat /\ DOMAIN passages = 1..n /\ \A p \in 1..n : passages[p] \in Passage
  BY <1>1 DEF SearchTypes
<1>3. IsFiniteSet(1..n) /\ 1..n \subseteq Nat
  BY <1>2, FS_Interval
<1>4. \A p \in 1..n : Near(p) \in Nat /\ Near(p) = passages[p].near
  BY <1>2 DEF Near, Passage
<1>5. Rows \subseteq DOMAIN passages
  BY DEF Rows, SavedReports, Alike
<1>. QED  BY <1>2, <1>3, <1>4, <1>5

\* The nearest of some rows is one of them, and none is nearer.
LEMMA NearestIs ==
    ASSUME SearchTypes, NEW S, S \subseteq DOMAIN passages, S # {}, NEW up \in BOOLEAN
    PROVE  Nearest(S, up) \in S /\ \A q \in S : Near(Nearest(S, up)) >= Near(q)
<1>1. /\ IsFiniteSet(S) /\ S \subseteq Nat
      /\ \A p \in S : Near(p) \in Nat /\ Near(p) = passages[p].near
  BY RowsAre, FS_Subset
<1>2. PICK v : v \in {Near(p) : p \in S} /\ \A w \in {Near(p) : p \in S} : w <= v
  <2>1. {Near(p) : p \in S} \subseteq Nat /\ {Near(p) : p \in S} # {}
    BY <1>1
  <2>2. IsFiniteSet({Near(p) : p \in S})
    <3>. DEFINE of == [p \in S |-> Near(p)]
    <3>1. of \in Surjection(S, {Near(p) : p \in S})
      BY DEF Surjection
    <3>. QED  BY <1>1, <3>1, FS_Surjection
  <2>3. PICK V : V = {Near(p) : p \in S}
    OBVIOUS
  <2>4. \E u \in V : \A w \in V : w <= u
    <3>1. V \subseteq Nat /\ V # {} /\ IsFiniteSet(V)
      BY <2>1, <2>2, <2>3
    <3>2. PICK b \in Nat : \A w \in V : w < b
      BY <3>1, Bounded
    <3>3. \A w \in V : w <= b
      BY <3>1, <3>2
    <3>. QED  BY <3>1, <3>3, GreatestMember
  <2>. QED  BY <2>3, <2>4
<1>3. PICK T : T = {p \in S : Near(p) = v}
  OBVIOUS
<1>4. T \subseteq Nat /\ T # {} /\ IsFiniteSet(T) /\ T \subseteq S
  <2>1. T \subseteq S
    BY <1>3
  <2>. QED  BY <1>1, <1>2, <1>3, <2>1, FS_Subset
<1>5. \A p \in T : \A q \in S : Near(p) >= Near(q)
  BY <1>1, <1>2, <1>3
<1>6. \A p \in T : \A q \in S \ T : Near(p) > Near(q)
  <2>. TAKE p \in T
  <2>. TAKE q \in S \ T
  <2>1. Near(p) >= Near(q) /\ Near(q) # v /\ Near(p) = v /\ Near(p) \in Nat /\ Near(q) \in Nat
    BY <1>1, <1>3, <1>5
  <2>. QED  BY <2>1
<1>. DEFINE Best(p) == \A q \in S \ {p} : \/ passages[p].near > passages[q].near
                                          \/ passages[p].near = passages[q].near /\ (p < q) = up
<1>7. \E p \in S : Best(p)
  <2>1. CASE up
    <3>1. PICK p \in T : \A q \in T : p <= q
      BY <1>4, LeastMember
    <3>2. ASSUME NEW q \in S \ {p}
          PROVE  \/ passages[p].near > passages[q].near
                 \/ passages[p].near = passages[q].near /\ (p < q) = up
      <4>1. p \in S /\ passages[p].near = Near(p) /\ passages[q].near = Near(q)
        BY <1>1, <1>4
      <4>2. CASE q \in T
        <5>1. Near(q) = v /\ Near(p) = v
          BY <1>3, <4>2
        <5>2. p <= q /\ p # q /\ p \in Nat /\ q \in Nat
          BY <1>4, <3>1, <3>2, <4>2
        <5>3. p < q
          BY <5>2
        <5>. QED  BY <2>1, <4>1, <5>1, <5>3
      <4>3. CASE q \notin T
        BY <1>6, <4>1, <4>3
      <4>. QED  BY <4>2, <4>3
    <3>. QED  BY <1>4, <3>2
  <2>2. CASE ~ up
    <3>1. PICK p \in T : \A q \in T : q <= p
      <4>1. PICK b \in Nat : \A w \in T : w < b
        BY <1>4, Bounded
      <4>2. \A w \in T : w <= b
        BY <1>4, <4>1
      <4>. QED  BY <1>4, <4>2, GreatestMember
    <3>2. ASSUME NEW q \in S \ {p}
          PROVE  \/ passages[p].near > passages[q].near
                 \/ passages[p].near = passages[q].near /\ (p < q) = up
      <4>1. p \in S /\ passages[p].near = Near(p) /\ passages[q].near = Near(q)
        BY <1>1, <1>4
      <4>2. CASE q \in T
        <5>1. Near(q) = v /\ Near(p) = v
          BY <1>3, <4>2
        <5>2. q <= p /\ p \in Nat /\ q \in Nat
          BY <1>4, <3>1, <4>2
        <5>3. ~ p < q
          BY <5>2
        <5>. QED  BY <2>2, <4>1, <5>1, <5>3
      <4>3. CASE q \notin T
        BY <1>6, <4>1, <4>3
      <4>. QED  BY <4>2, <4>3
    <3>. QED  BY <1>4, <3>2
  <2>. QED  BY <2>1, <2>2
<1>8. PICK p : p = Nearest(S, up)
  OBVIOUS
<1>9. p \in S /\ Best(p)
  BY <1>7, <1>8 DEF Nearest
<1>10. ASSUME NEW q \in S PROVE Near(p) >= Near(q)
  <2>1. CASE q = p
    BY <1>1, <1>9, <2>1
  <2>2. CASE q # p
    <3>1. passages[p].near >= passages[q].near
      <4>1. passages[p].near \in Nat /\ passages[q].near \in Nat
        BY <1>1, <1>9
      <4>. QED  BY <1>9, <2>2, <4>1
    <3>. QED  BY <1>1, <1>9, <3>1
  <2>. QED  BY <2>1, <2>2
<1>. QED  BY <1>8, <1>9, <1>10

\* One more passage of a file counts against that file.
LEMMA TakenIs ==
    ASSUME NEW X, NEW list \in Seq(X), NEW x
    PROVE  \A p : /\ Taken(list, p) \in Nat
                  /\ Taken(Append(list, x), p) =
                       IF FileOfP(x) = FileOfP(p) THEN Taken(list, p) + 1 ELSE Taken(list, p)
<1>. TAKE p
<1>1. PICK n, more : n = Len(list) /\ more = Append(list, x)
  OBVIOUS
<1>2. /\ n \in Nat /\ DOMAIN list = 1..n /\ DOMAIN more = 1..(n + 1)
      /\ more[n + 1] = x /\ \A i \in 1..n : more[i] = list[i]
  BY <1>1
<1>3. PICK A, B : /\ A = {i \in DOMAIN list : passages[list[i]].file = passages[p].file}
                  /\ B = {i \in DOMAIN more : passages[more[i]].file = passages[p].file}
  OBVIOUS
<1>4. Taken(list, p) = Cardinality(A) /\ Taken(more, p) = Cardinality(B)
  BY <1>3 DEF Taken
<1>5. A \subseteq 1..n /\ n + 1 \notin A /\ n + 1 \in Nat
  BY <1>2, <1>3
<1>6. IsFiniteSet(A) /\ Cardinality(A) \in Nat
  <2>1. IsFiniteSet(1..n)
    BY <1>2, FS_Interval
  <2>2. IsFiniteSet(A)
    BY <1>5, <2>1, FS_Subset
  <2>. QED  BY <2>2, FS_CardinalityType
<1>0. \A i : i \in 1..(n + 1) <=> i \in 1..n \/ i = n + 1
  BY <1>2
<1>7. CASE FileOfP(x) = FileOfP(p)
  <2>1. B = A \cup {n + 1}
    <3>1. n + 1 \in B
      BY <1>2, <1>3, <1>7 DEF FileOfP
    <3>2. \A i \in 1..n : i \in B <=> i \in A
      BY <1>2, <1>3
    <3>3. B \subseteq 1..(n + 1)
      BY <1>2, <1>3
    <3>. QED  BY <1>0, <1>5, <3>1, <3>2, <3>3, Zenon
  <2>2. Cardinality(B) = Cardinality(A) + 1
    BY <1>5, <1>6, <2>1, FS_AddElement
  <2>. QED  BY <1>1, <1>4, <1>6, <1>7, <2>2
<1>8. CASE FileOfP(x) # FileOfP(p)
  <2>1. B = A
    <3>1. n + 1 \notin B
      BY <1>2, <1>3, <1>8 DEF FileOfP
    <3>2. \A i \in 1..n : i \in B <=> i \in A
      BY <1>2, <1>3
    <3>3. B \subseteq 1..(n + 1)
      BY <1>2, <1>3
    <3>. QED  BY <1>0, <1>5, <3>1, <3>2, <3>3, Zenon
  <2>. QED  BY <1>1, <1>4, <1>6, <1>8, <2>1
<1>. QED  BY <1>7, <1>8

\* A file's share is a number, of a selection as of a whole corpus.
LEMMA PerFileIs ==
    ASSUME asked \in AskedShape, IsFiniteSet(asked.chosen)
    PROVE  PerFile \in Nat
<1>1. PICK m, c : m = asked.most /\ c = Cardinality(asked.chosen)
  OBVIOUS
<1>2. m \in Nat \ {0}
  BY <1>1 DEF AskedShape
<1>3. CASE asked.mode = "reports" \/ asked.chosen = Everything
  BY <1>1, <1>2, <1>3 DEF PerFile
<1>4. CASE asked.mode # "reports" /\ asked.chosen # Everything
  <2>1. c \in Nat /\ c # 0
    <3>1. PICK S : S = asked.chosen
      OBVIOUS
    <3>2. S # {} /\ IsFiniteSet(S)
      BY <1>4, <3>1 DEF Everything
    <3>3. Cardinality(S) \in Nat /\ Cardinality(S) # 0
      BY <3>2, FS_CardinalityType, FS_EmptySet
    <3>. QED  BY <1>1, <3>1, <3>3
  <2>2. (m + c - 1) \div c \in Nat
    BY <1>2, <2>1
  <2>3. PerFile = (m + c - 1) \div c
    BY <1>1, <1>4 DEF PerFile
  <2>. QED  BY <2>2, <2>3
<1>. QED  BY <1>3, <1>4

\* What is known after n rows were looked at.
Viewed(r) == Rows \ r.left

Drawn(r, n) ==
    /\ r.left \subseteq Rows /\ Cardinality(r.left) = Cardinality(Rows) - n
    /\ r.list \in Seq(Viewed(r))
    /\ \A i, j \in DOMAIN r.list : r.list[i] = r.list[j] => i = j
    /\ \A i \in DOMAIN r.list : Near(r.list[i]) > 0
    /\ \A q \in r.left : \A x \in Viewed(r) : Near(x) >= Near(q)

Shared(r) == Len(r.list) <= asked.most /\ \A p \in Rows : Taken(r.list, p) <= PerFile

\* Why a row that was looked at is not in the list.
Full(list, p) == Len(list) = asked.most /\ \A i \in DOMAIN list : Near(list[i]) >= Near(p)
Crowded(list, p) ==
    /\ Taken(list, p) = PerFile
    /\ \A i \in DOMAIN list : FileOfP(list[i]) = FileOfP(p) => Near(list[i]) >= Near(p)

Passed(r) ==
    \A p \in Viewed(r) : Near(p) > 0 /\ p \notin ToSet(r.list) => Full(r.list, p) \/ Crowded(r.list, p)

\* One more row keeps all of that: it is no nearer than those before it, and what it
\* adds to the list takes no room from a row that was passed over.
LEMMA LookDraws ==
    ASSUME SearchTypes, asked \in AskedShape, IsFiniteSet(asked.chosen), NEW up \in BOOLEAN, NEW n \in Nat,
           n < Cardinality(Rows), NEW r, Drawn(r, n), Shared(r), Passed(r)
    PROVE  Drawn(Look(r, up), n + 1) /\ Shared(Look(r, up)) /\ Passed(Look(r, up))
<1>1. PICK L, R, l : L = r.left /\ R = Rows /\ l = r.list
  OBVIOUS
<1>2. /\ R \subseteq DOMAIN passages /\ IsFiniteSet(R) /\ Cardinality(R) \in Nat
      /\ \A p \in R : Near(p) \in Nat /\ Near(p) = passages[p].near
  BY <1>1, RowsAre, FS_Subset, FS_CardinalityType
<1>3. /\ L \subseteq R /\ Cardinality(L) = Cardinality(R) - n /\ l \in Seq(R \ L)
      /\ \A i, j \in DOMAIN l : l[i] = l[j] => i = j
      /\ \A i \in DOMAIN l : Near(l[i]) > 0
      /\ \A q \in L : \A x \in R \ L : Near(x) >= Near(q)
  BY <1>1 DEF Drawn, Viewed
<1>4. /\ Len(l) <= asked.most /\ \A p \in R : Taken(l, p) <= PerFile
      /\ \A p \in R \ L : Near(p) > 0 /\ p \notin ToSet(l) => Full(l, p) \/ Crowded(l, p)
  BY <1>1 DEF Shared, Passed, Viewed
<1>5. L # {} /\ IsFiniteSet(L)
  <2>1. IsFiniteSet(L)
    BY <1>2, <1>3, FS_Subset
  <2>2. Cardinality(L) # 0
    BY <1>1, <1>2, <1>3
  <2>. QED  BY <2>1, <2>2, FS_EmptySet
<1>6. PICK x : x = Nearest(L, up)
  OBVIOUS
<1>7. x \in L /\ x \in R /\ \A q \in L : Near(x) >= Near(q)
  <2>1. L \subseteq DOMAIN passages
    BY <1>2, <1>3
  <2>. QED  BY <1>3, <1>5, <1>6, <2>1, NearestIs
<1>8. PICK K : K = L \ {x}
  OBVIOUS
<1>9. /\ K \subseteq R /\ Cardinality(K) = Cardinality(R) - (n + 1)
      /\ R \ K = (R \ L) \cup {x}
  <2>1. Cardinality(K) = Cardinality(L) - 1
    BY <1>5, <1>7, <1>8, FS_RemoveElement
  <2>2. Cardinality(K) = Cardinality(R) - (n + 1)
    BY <1>2, <1>3, <2>1
  <2>. QED  BY <1>3, <1>7, <1>8, <2>2
<1>10. \A q \in K : \A y \in R \ K : Near(y) >= Near(q)
  BY <1>3, <1>7, <1>8, <1>9
<1>11. PICK m : m = Len(l)
  OBVIOUS
<1>12. m \in Nat /\ DOMAIN l = 1..m /\ \A i \in 1..m : l[i] \in R \ L
  <2>1. PICK X : X = R \ L
    OBVIOUS
  <2>2. l \in Seq(X)
    BY <1>3, <2>1
  <2>. QED  BY <1>11, <2>1, <2>2
<1>13. PerFile \in Nat /\ asked.most \in Nat
  BY PerFileIs DEF AskedShape
<1>14. \A p : Taken(l, p) \in Nat
  BY <1>3, TakenIs
<1>15. CASE ~ Fits(l, x)
  <2>1. PICK s : s = Look(r, up)
    OBVIOUS
  <2>2. s.left = K /\ s.list = l
    BY <1>1, <1>6, <1>8, <1>15, <2>1 DEF Look
  <2>3. Drawn(s, n + 1)
    <3>1. l \in Seq(R \ K)
      <4>1. R \ L \subseteq R \ K
        BY <1>9
      <4>. QED  BY <1>3, <4>1
    <3>. QED  BY <1>1, <1>3, <1>9, <1>10, <2>2, <3>1 DEF Drawn, Viewed
  <2>4. Shared(s)
    BY <1>1, <1>4, <2>2 DEF Shared
  <2>5. ASSUME NEW p \in R \ K, Near(p) > 0, p \notin ToSet(l) PROVE Full(l, p) \/ Crowded(l, p)
    <3>1. CASE p \in R \ L
      BY <1>4, <2>5, <3>1
    <3>2. CASE p = x
      <4>1. \A i \in DOMAIN l : Near(l[i]) >= Near(p)
        BY <1>3, <1>7, <1>12, <3>2
      <4>2. passages[p].near > 0
        BY <1>2, <1>7, <2>5, <3>2
      <4>3. CASE ~ Len(l) < asked.most
        <5>1. Len(l) = asked.most
          BY <1>4, <1>11, <1>12, <1>13, <4>3
        <5>. QED  BY <4>1, <5>1 DEF Full
      <4>4. CASE ~ Taken(l, p) < PerFile
        <5>1. Taken(l, p) <= PerFile /\ Taken(l, p) \in Nat
          BY <1>4, <1>7, <1>14, <3>2
        <5>2. Taken(l, p) = PerFile
          BY <1>13, <4>4, <5>1
        <5>. QED  BY <4>1, <5>2 DEF Crowded
      <4>. QED  BY <1>15, <3>2, <4>2, <4>3, <4>4 DEF Fits
    <3>. QED  BY <1>9, <3>1, <3>2
  <2>6. Passed(s)
    BY <1>1, <2>2, <2>5 DEF Passed, Viewed
  <2>. QED  BY <2>1, <2>3, <2>4, <2>6
<1>16. CASE Fits(l, x)
  <2>1. PICK s, k : s = Look(r, up) /\ k = Append(l, x)
    OBVIOUS
  <2>2. s.left = K /\ s.list = k
    BY <1>1, <1>6, <1>8, <1>16, <2>1 DEF Look
  <2>3. Near(x) > 0 /\ Len(l) < asked.most /\ Taken(l, x) < PerFile
    BY <1>2, <1>7, <1>16 DEF Fits
  <2>4. /\ DOMAIN k = 1..(m + 1) /\ Len(k) = m + 1 /\ k[m + 1] = x
        /\ \A i \in 1..m : k[i] = l[i]
    BY <1>3, <1>11, <1>12, <2>1
  <2>5. k \in Seq(R \ K)
    <3>1. R \ L \subseteq R \ K /\ x \in R \ K
      BY <1>9
    <3>2. PICK X : X = R \ K
      OBVIOUS
    <3>3. l \in Seq(X) /\ x \in X
      BY <1>3, <3>1, <3>2
    <3>4. k \in Seq(X)
      BY <2>1, <3>3
    <3>. QED  BY <3>2, <3>4
  <2>6. \A i \in 1..m : l[i] # x
    BY <1>7, <1>12
  <2>7. \A i, j \in DOMAIN k : k[i] = k[j] => i = j
    <3>. SUFFICES ASSUME NEW i \in 1..(m + 1), NEW j \in 1..(m + 1), k[i] = k[j] PROVE i = j
      BY <2>4
    <3>1. CASE i \in 1..m /\ j \in 1..m
      BY <1>3, <1>12, <2>4, <3>1
    <3>2. CASE i = m + 1 /\ j \in 1..m
      BY <2>4, <2>6, <3>2
    <3>3. CASE i \in 1..m /\ j = m + 1
      BY <2>4, <2>6, <3>3
    <3>. QED  BY <1>12, <3>1, <3>2, <3>3
  <2>8. \A i \in DOMAIN k : Near(k[i]) > 0
    <3>. SUFFICES ASSUME NEW i \in 1..(m + 1) PROVE Near(k[i]) > 0
      BY <2>4
    <3>1. CASE i \in 1..m
      BY <1>3, <1>12, <2>4, <3>1
    <3>2. CASE i = m + 1
      BY <2>3, <2>4, <3>2
    <3>. QED  BY <1>12, <3>1, <3>2
  <2>9. Drawn(s, n + 1)
    BY <1>1, <1>9, <1>10, <2>2, <2>5, <2>7, <2>8 DEF Drawn, Viewed
  <2>10. \A p : Taken(k, p) = IF FileOfP(x) = FileOfP(p) THEN Taken(l, p) + 1 ELSE Taken(l, p)
    BY <1>3, <2>1, TakenIs
  <2>11. \A p : FileOfP(x) = FileOfP(p) => Taken(l, p) = Taken(l, x)
    BY DEF Taken, FileOfP
  <2>12. Shared(s)
    <3>1. Len(k) <= asked.most
      BY <1>11, <1>12, <1>13, <2>3, <2>4
    <3>2. ASSUME NEW p \in R PROVE Taken(k, p) <= PerFile
      <4>1. Taken(l, p) <= PerFile /\ Taken(l, p) \in Nat
        BY <1>4, <1>14
      <4>2. CASE FileOfP(x) = FileOfP(p)
        <5>1. Taken(k, p) = Taken(l, p) + 1 /\ Taken(l, p) < PerFile
          BY <2>3, <2>10, <2>11, <4>2
        <5>. QED  BY <1>13, <4>1, <5>1
      <4>3. CASE FileOfP(x) # FileOfP(p)
        BY <2>10, <4>1, <4>3
      <4>. QED  BY <4>2, <4>3
    <3>. QED  BY <1>1, <2>2, <3>1, <3>2 DEF Shared
  <2>13. ASSUME NEW p \in R \ K, Near(p) > 0, p \notin ToSet(k) PROVE Full(k, p) \/ Crowded(k, p)
    <3>1. p # x
      <4>1. x \in ToSet(k)
        BY <1>12, <2>4 DEF ToSet
      <4>. QED  BY <2>13, <4>1
    <3>2. p \in R \ L
      BY <1>9, <3>1
    <3>3. p \notin ToSet(l)
      <4>1. \A i \in 1..m : l[i] # p
        BY <1>12, <2>4, <2>13 DEF ToSet
      <4>. QED  BY <1>12, <4>1 DEF ToSet
    <3>4. Full(l, p) \/ Crowded(l, p)
      BY <1>4, <2>13, <3>2, <3>3
    <3>5. ~ Full(l, p)
      BY <1>11, <1>12, <1>13, <2>3 DEF Full
    <3>6. /\ Taken(l, p) = PerFile
          /\ \A i \in DOMAIN l : FileOfP(l[i]) = FileOfP(p) => Near(l[i]) >= Near(p)
      BY <3>4, <3>5 DEF Crowded
    <3>7. FileOfP(x) # FileOfP(p)
      <4>. SUFFICES ASSUME FileOfP(x) = FileOfP(p) PROVE FALSE
        OBVIOUS
      <4>1. Taken(l, p) < PerFile
        BY <2>3, <2>11
      <4>. QED  BY <1>13, <3>6, <4>1
    <3>8. Taken(k, p) = PerFile
      BY <2>10, <3>6, <3>7
    <3>9. ASSUME NEW i \in 1..(m + 1), FileOfP(k[i]) = FileOfP(p) PROVE Near(k[i]) >= Near(p)
      <4>1. i # m + 1
        BY <2>4, <3>7, <3>9
      <4>2. i \in 1..m
        BY <1>12, <4>1
      <4>. QED  BY <1>12, <2>4, <3>6, <3>9, <4>2
    <3>. QED  BY <2>4, <3>8, <3>9 DEF Crowded
  <2>14. Passed(s)
    BY <1>1, <2>2, <2>13 DEF Passed, Viewed
  <2>. QED  BY <2>1, <2>9, <2>12, <2>14
<1>. QED  BY <1>15, <1>16

\* The search as a loop: h[n] is what is known when n rows were looked at.
InTurns(h, up, many) ==
    /\ h[0] = [left |-> Rows, list |-> <<>>]
    /\ \A n \in 1..many : h[n] = Look(h[n - 1], up)
    /\ Ranked(up, many) = h[many].list

\* What Ranked computes, one row after the other.
LEMMA RanksInTurns ==
    ASSUME NEW up, NEW many \in Nat
    PROVE  \E h : InTurns(h, up, many)
<1>. DEFINE b == [left |-> Rows, list |-> <<>>]
            Nth(f, n) == IF n = 0 THEN b ELSE Look(f[n - 1], up)
            Good(f, m) == \A n \in 0..m : f[n] = Nth(f, n)
            Has(m) == \E f : f = [n \in 0..m |-> f[n]] /\ Good(f, m)
            Reach == {m \in Nat : Has(m)}
<1>1. 0 \in Reach
  <2>. DEFINE e == [n \in 0..0 |-> b]
  <2>1. e = [n \in 0..0 |-> e[n]] /\ e[0] = b
    OBVIOUS
  <2>. HIDE DEF e
  <2>2. \A n \in 0..0 : n = 0
    OBVIOUS
  <2>3. Good(e, 0)
    BY <2>1, <2>2
  <2>. QED  BY <2>1, <2>3
<1>2. ASSUME NEW m \in Nat, m \in Reach PROVE m + 1 \in Reach
  <2>. SUFFICES Has(m + 1)
    <3>. HIDE DEF Has
    <3>. QED  BY <1>2
  <2>1. PICK f : f = [n \in 0..m |-> f[n]] /\ Good(f, m)
    BY <1>2
  <2>. DEFINE g == [n \in 0..(m + 1) |-> IF n <= m THEN f[n] ELSE Nth(f, m + 1)]
  <2>2. (\A n \in 0..m : g[n] = f[n]) /\ g[m + 1] = Nth(f, m + 1) /\ g = [n \in 0..(m + 1) |-> g[n]]
    OBVIOUS
  <2>. HIDE DEF g
  <2>3. ASSUME NEW n \in 0..(m + 1) PROVE g[n] = Nth(g, n)
    <3>1. CASE n <= m
      <4>1. n \in 0..m /\ (n # 0 => n - 1 \in 0..m)
        BY <3>1
      <4>2. f[n] = Nth(f, n) /\ g[n] = f[n]
        BY <2>1, <2>2, <4>1
      <4>3. n # 0 => g[n - 1] = f[n - 1]
        BY <2>2, <4>1
      <4>. QED  BY <4>2, <4>3
    <3>2. CASE n = m + 1
      <4>1. n # 0 /\ n - 1 \in 0..m
        BY <3>2
      <4>2. g[n] = Nth(f, n) /\ g[n - 1] = f[n - 1]
        BY <2>2, <3>2, <4>1
      <4>. QED  BY <4>1, <4>2
    <3>. QED  BY <3>1, <3>2
  <2>4. Good(g, m + 1)
    BY <2>3
  <2>. QED  BY <2>2, <2>4
<1>3. Nat \subseteq Reach
  <2>. HIDE DEF Reach
  <2>. QED  BY <1>1, <1>2, Counting
<1>4. PICK f : f = [n \in 0..many |-> f[n]] /\ Good(f, many)
  <2>1. many \in Reach
    <3>. HIDE DEF Reach
    <3>. QED  BY <1>3
  <2>. QED  BY <2>1
<1>5. f = [n \in 0..many |-> Nth(f, n)]
  <2>1. \A n \in 0..many : f[n] = Nth(f, n)
    BY <1>4
  <2>. HIDE DEF Nth
  <2>. QED  BY <1>4, <2>1
<1>. DEFINE h == CHOOSE g : g = [n \in 0..many |->
                     IF n = 0 THEN [left |-> Rows, list |-> <<>>] ELSE Look(g[n - 1], up)]
<1>6. h = [n \in 0..many |-> IF n = 0 THEN [left |-> Rows, list |-> <<>>] ELSE Look(h[n - 1], up)]
  BY <1>5
<1>7. Ranked(up, many) = h[many].list
  BY DEF Ranked
<1>. HIDE DEF h
<1>8. h[0] = [left |-> Rows, list |-> <<>>]
  <2>1. 0 \in 0..many
    OBVIOUS
  <2>. QED  BY <1>6, <2>1
<1>9. ASSUME NEW n \in 1..many PROVE h[n] = Look(h[n - 1], up)
  <2>1. n \in 0..many /\ n # 0
    OBVIOUS
  <2>. QED  BY <1>6, <2>1
<1>10. InTurns(h, up, many)
  BY <1>7, <1>8, <1>9 DEF InTurns
<1>. QED  BY <1>10

Searched(r, n) == Drawn(r, n) /\ Shared(r) /\ Passed(r)

\* So all of it holds when the last one was looked at.
LEMMA RankedIs ==
    ASSUME SearchTypes, asked \in AskedShape, IsFiniteSet(asked.chosen), NEW up \in BOOLEAN,
           NEW many \in Nat, many <= Cardinality(Rows)
    PROVE  \E r : r.list = Ranked(up, many) /\ Searched(r, many)
<1>1. PICK h : InTurns(h, up, many)
  BY RanksInTurns
<1>2. Cardinality(Rows) \in Nat
  <2>1. PICK R, D : R = Rows /\ D = DOMAIN passages
    OBVIOUS
  <2>2. R \subseteq D /\ IsFiniteSet(D)
    BY <2>1, RowsAre
  <2>3. IsFiniteSet(R)
    BY <2>2, FS_Subset
  <2>. QED  BY <2>1, <2>3, FS_CardinalityType
<1>. DEFINE Good == {n \in Nat : n <= many => Searched(h[n], n)}
<1>3. 0 \in Good
  <2>1. PICK s : s = h[0]
    OBVIOUS
  <2>2. s.left = Rows /\ s.list = <<>>
    BY <1>1, <2>1 DEF InTurns
  <2>3. Viewed(s) = {}
    BY <2>2 DEF Viewed
  <2>4. Drawn(s, 0)
    BY <1>2, <2>2, <2>3 DEF Drawn
  <2>5. Shared(s)
    <3>1. 0 <= asked.most
      BY DEF AskedShape
    <3>2. PerFile \in Nat
      BY PerFileIs
    <3>3. \A p : Taken(<<>>, p) = 0
      <4>1. \A p : {i \in DOMAIN <<>> : passages[<<>>[i]].file = passages[p].file} = {}
        OBVIOUS
      <4>. QED  BY <4>1, FS_EmptySet DEF Taken
    <3>4. Len(s.list) = 0
      BY <2>2
    <3>. QED  BY <2>2, <3>1, <3>2, <3>3, <3>4 DEF Shared
  <2>6. Passed(s)
    BY <2>3 DEF Passed
  <2>. QED  BY <2>1, <2>4, <2>5, <2>6 DEF Searched
<1>4. ASSUME NEW n \in Nat, n \in Good PROVE n + 1 \in Good
  <2>. SUFFICES ASSUME n + 1 <= many PROVE Searched(h[n + 1], n + 1)
    OBVIOUS
  <2>1. Searched(h[n], n)
    BY <1>4
  <2>2. h[n + 1] = Look(h[n], up)
    <3>1. n + 1 \in 1..many /\ (n + 1) - 1 = n
      OBVIOUS
    <3>. QED  BY <1>1, <3>1 DEF InTurns
  <2>3. n < Cardinality(Rows)
    BY <1>2
  <2>. QED  BY <2>1, <2>2, <2>3, LookDraws DEF Searched
<1>5. many \in Good
  <2>. HIDE DEF Good
  <2>. QED  BY <1>3, <1>4, Counting
<1>. QED  BY <1>1, <1>5 DEF InTurns

\* What a search may not do, of a list it offers.
WellOffered(list) ==
    /\ ToSet(list) \subseteq Offerable
    /\ \A i \in DOMAIN list :
          Cardinality({j \in DOMAIN list : FileOfP(list[j]) = FileOfP(list[i])}) <= PerFile
    /\ \A p \in Offerable \ ToSet(list) :
          LET mine == {q \in ToSet(list) : FileOfP(q) = FileOfP(p)}
          IN  \/ Len(list) = asked.most /\ Outranked(p, ToSet(list))
              \/ Cardinality(mine) = PerFile /\ Outranked(p, mine)
              \/ Cardinality({q \in Offerable : Near(q) >= Near(p)}) > Deep * asked.most

\* For a run or a chat the rows are what may be offered, but for what is not near.
LEMMA OfferableRows ==
    ASSUME asked.mode # "reports"
    PROVE  Offerable = {p \in Rows : Near(p) > 0}
BY DEF Offerable, Rows, MayBeTold, Alike, Of, UpToDate, Selected, FileOfP

\* A row never looked at comes after Deep times as many as were asked for.
LEMMA RankedKeeps ==
    ASSUME SearchTypes, asked \in AskedShape, IsFiniteSet(asked.chosen), asked.mode # "reports",
           NEW many \in Nat, many = Cardinality(Rows) \/ many = Deep * asked.most,
           NEW r, Searched(r, many)
    PROVE  WellOffered(r.list)
<1>1. PICK L, R, l, m : L = r.left /\ R = Rows /\ l = r.list /\ m = Len(l)
  OBVIOUS
<1>2. IsFiniteSet(R) /\ Cardinality(R) \in Nat /\ \A p \in R : Near(p) \in Nat
  <2>1. PICK D : D = DOMAIN passages
    OBVIOUS
  <2>2. R \subseteq D /\ IsFiniteSet(D)
    BY <1>1, <2>1, RowsAre
  <2>3. IsFiniteSet(R)
    BY <2>2, FS_Subset
  <2>4. Cardinality(R) \in Nat
    BY <2>3, FS_CardinalityType
  <2>. QED  BY <1>1, <2>3, <2>4, RowsAre
<1>3. /\ L \subseteq R /\ Cardinality(L) = Cardinality(R) - many /\ l \in Seq(R \ L)
      /\ \A i, j \in DOMAIN l : l[i] = l[j] => i = j
      /\ \A i \in DOMAIN l : Near(l[i]) > 0
      /\ \A q \in L : \A x \in R \ L : Near(x) >= Near(q)
  BY <1>1 DEF Searched, Drawn, Viewed
<1>4. /\ \A p \in R : Taken(l, p) <= PerFile
      /\ \A p \in R \ L : Near(p) > 0 /\ p \notin ToSet(l) => Full(l, p) \/ Crowded(l, p)
  BY <1>1 DEF Searched, Shared, Passed, Viewed
<1>5. PICK X : X = R \ L
  OBVIOUS
<1>6. m \in Nat /\ DOMAIN l = 1..m /\ \A i \in 1..m : l[i] \in X
  <2>1. l \in Seq(X)
    BY <1>3, <1>5
  <2>. QED  BY <1>1, <2>1
<1>7. PICK O : O = Offerable /\ O = {p \in R : Near(p) > 0}
  BY <1>1, OfferableRows
<1>8. ToSet(l) \subseteq O
  BY <1>3, <1>5, <1>6, <1>7 DEF ToSet
<1>9. ASSUME NEW i \in DOMAIN l
      PROVE  Cardinality({j \in DOMAIN l : FileOfP(l[j]) = FileOfP(l[i])}) <= PerFile
  <2>1. l[i] \in R
    BY <1>5, <1>6
  <2>. QED  BY <1>4, <2>1 DEF Taken, FileOfP
<1>10. ASSUME NEW p \in O \ ToSet(l)
       PROVE  LET mine == {q \in ToSet(l) : FileOfP(q) = FileOfP(p)}
              IN  \/ Len(l) = asked.most /\ Outranked(p, ToSet(l))
                  \/ Cardinality(mine) = PerFile /\ Outranked(p, mine)
                  \/ Cardinality({q \in O : Near(q) >= Near(p)}) > Deep * asked.most
  <2>1. PICK M : M = {q \in ToSet(l) : FileOfP(q) = FileOfP(p)}
    OBVIOUS
  <2>2. p \in R /\ Near(p) > 0 /\ p \notin ToSet(l)
    BY <1>7
  <2>3. CASE p \in L
    <3>1. PICK T : T = {q \in O : Near(q) >= Near(p)}
      OBVIOUS
    <3>2. IsFiniteSet(L) /\ Cardinality(L) \in Nat /\ Cardinality(L) # 0
      <4>1. IsFiniteSet(L)
        BY <1>2, <1>3, FS_Subset
      <4>2. Cardinality(L) \in Nat
        BY <4>1, FS_CardinalityType
      <4>. QED  BY <2>3, <4>1, <4>2, FS_EmptySet
    <3>3. many = Deep * asked.most
      BY <1>1, <1>2, <1>3, <3>2
    <3>4. IsFiniteSet(X) /\ Cardinality(X) = many
      <4>1. IsFiniteSet(X) /\ Cardinality(X) = Cardinality(R) - Cardinality(R \cap L)
        BY <1>2, <1>5, FS_Difference
      <4>2. R \cap L = L
        BY <1>3
      <4>3. Cardinality(X) = Cardinality(R) - Cardinality(L)
        BY <4>1, <4>2, Zenon
      <4>4. Cardinality(X) = many
        BY <1>2, <1>3, <4>3
      <4>. QED  BY <4>1, <4>4
    <3>5. IsFiniteSet(X \cup {p}) /\ Cardinality(X \cup {p}) = many + 1
      <4>1. p \notin X
        BY <1>5, <2>3
      <4>. QED  BY <3>4, <4>1, FS_AddElement
    <3>6. X \cup {p} \subseteq T
      <4>1. \A q \in X : Near(q) >= Near(p) /\ q \in R
        BY <1>3, <1>5, <2>3
      <4>2. \A q \in X : Near(q) > 0
        BY <1>2, <2>2, <4>1
      <4>3. Near(p) >= Near(p)
        BY <1>2, <2>2
      <4>. QED  BY <1>7, <2>2, <3>1, <4>1, <4>2, <4>3
    <3>7. IsFiniteSet(T)
      <4>1. T \subseteq R
        BY <1>7, <3>1
      <4>. QED  BY <1>2, <4>1, FS_Subset
    <3>8. Cardinality(T) \in Nat
      BY <3>7, FS_CardinalityType
    <3>9. many + 1 <= Cardinality(T)
      BY <3>5, <3>6, <3>7, FS_Subset
    <3>10. Cardinality(T) > many
      BY <3>8, <3>9
    <3>. QED  BY <3>1, <3>3, <3>10
  <2>4. CASE p \in X
    <3>1. CASE Full(l, p)
      <4>1. Outranked(p, ToSet(l))
        BY <3>1 DEF Full, Outranked, ToSet
      <4>. QED  BY <3>1, <4>1 DEF Full
    <3>2. CASE Crowded(l, p)
      <4>1. PICK A : A = {i \in DOMAIN l : passages[l[i]].file = passages[p].file}
        OBVIOUS
      <4>2. IsFiniteSet(A) /\ Cardinality(A) = PerFile
        <5>1. IsFiniteSet(1..m)
          BY <1>6, FS_Interval
        <5>2. A \subseteq 1..m
          BY <1>6, <4>1
        <5>3. IsFiniteSet(A)
          BY <5>1, <5>2, FS_Subset
        <5>. QED  BY <3>2, <4>1, <5>3 DEF Crowded, Taken
      <4>0. PICK f : f = [i \in A |-> l[i]]
        OBVIOUS
      <4>3. f \in [A -> M]
        BY <2>1, <4>0, <4>1 DEF ToSet, FileOfP
      <4>4. \A i, j \in A : f[i] = f[j] => i = j
        BY <1>3, <4>0, <4>1
      <4>5. \A q \in M : \E i \in A : f[i] = q
        BY <2>1, <4>0, <4>1 DEF ToSet, FileOfP
      <4>6. f \in Bijection(A, M)
        BY <4>3, <4>4, <4>5 DEF Bijection, Injection, Surjection, IsInjective
      <4>7. Cardinality(M) = PerFile
        BY <4>2, <4>6, FS_Bijection DEF ExistsBijection
      <4>8. Outranked(p, M)
        BY <2>1, <3>2 DEF Crowded, Outranked, ToSet
      <4>. QED  BY <2>1, <4>7, <4>8
    <3>. QED  BY <1>4, <1>5, <2>2, <2>4, <3>1, <3>2
  <2>. QED  BY <1>5, <2>2, <2>3, <2>4
<1>11. WellOffered(l)
  BY <1>7, <1>8, <1>9, <1>10 DEF WellOffered
<1>. QED  BY <1>1, <1>11

-----------------------------------------------------------------------------
(* CorpusSearch: the invariant *)

\* Not inductive alone: a search that starts finds nothing sent, and nothing is offered
\* before the rows are ranked.
SearchInv ==
    /\ SearchTypes
    /\ asked = NoSearch => sent = {}
    /\ said # "hits" => offered = <<>>
    /\ SearchKeepsItsBounds

\* A search that offers nothing, and did not end well, keeps to its bounds.
LEMMA NothingOffered ==
    ASSUME offered' = <<>>, said' # "hits", (asked # NoSearch /\ asked.mode # "reports" => sent \subseteq {"here"})'
    PROVE  SearchKeepsItsBounds'
<1>1. ToSet(offered') = {} /\ DOMAIN offered' = {}
  BY DEF ToSet
<1>. QED  BY <1>1 DEF SearchKeepsItsBounds

\* An embedder on no server stands on this machine.
LEMMA EmbedderIs ==
    ASSUME SearchTypes
    PROVE  LocalModel \in Words /\ Embedder \in Embedders
<1>1. LocalModel \in Words
  <2>1. probed \in Words /\ deployment.configured \in Words /\ "none" \in Words
    BY DEF SearchTypes, Words
  <2>2. serving # <<>> => Head(serving) \in Words
    BY DEF SearchTypes, Words
  <2>. QED  BY <2>1, <2>2 DEF LocalModel
<1>2. ASSUME NEW model \in Words PROVE Local(model) \in Embedders
  BY <1>2 DEF SearchTypes, Local, Embedders, EmbedderShape
<1>3. Fake \in Embedders /\ NoEmbeddings \in Embedders /\ Hosted \in Embedders
  <2>1. {"none", "fake", "hosted", "here", "provider"} \subseteq Words
    BY DEF Words
  <2>2. Fake \in Embedders
    BY <2>1 DEF Fake, Embedders, EmbedderShape
  <2>3. NoEmbeddings \in Embedders
    BY <2>1 DEF NoEmbeddings, Embedders, EmbedderShape
  <2>4. [kind |-> "hosted", model |-> "hosted", host |-> "provider"] \in Embedders
    BY <2>1 DEF Embedders, EmbedderShape
  <2>. QED  BY <2>2, <2>3, <2>4 DEF Hosted
<1>4. Embedder \in Embedders
  <2>1. CASE deployment.fake
    BY <1>3, <2>1 DEF Embedder
  <2>2. CASE ~ deployment.fake
    <3>1. deployment.configured \in Words
      BY DEF SearchTypes
    <3>2. CASE deployment.choice = "none"
      BY <1>3, <2>2, <3>2 DEF Embedder
    <3>3. CASE deployment.choice = "hosted"
      BY <1>3, <2>2, <3>3 DEF Embedder
    <3>4. CASE deployment.choice = "local"
      BY <1>1, <1>2, <2>2, <3>1, <3>4 DEF Embedder
    <3>5. CASE deployment.choice = "auto"
      BY <1>1, <1>2, <1>3, <2>2, <3>5 DEF Embedder
    <3>. QED  BY <3>2, <3>3, <3>4, <3>5 DEF SearchTypes
  <2>. QED  BY <2>1, <2>2
<1>. QED  BY <1>1, <1>4

LEMMA SearchStarts == SearchInit => SearchInv
<1>. SUFFICES ASSUME SearchInit PROVE SearchInv
  OBVIOUS
<1>1. SearchTypes
  <2>1. /\ deployment.configured \in Words /\ deployment.host \in Words
        /\ deployment.choice \in {"none", "hosted", "local", "auto"}
    <3>1. {deployment.configured, deployment.host} \subseteq STRING
      BY SearchAssumption DEF SearchInit
    <3>. QED  BY <3>1, SearchAssumption DEF SearchInit, Words
  <2>2. serving \in Seq(STRING)
    BY SearchAssumption DEF SearchInit
  <2>3. probed \in Words
    BY DEF SearchInit, Words
  <2>4. files = <<>> /\ passages = <<>> /\ asked = NoSearch
    BY DEF SearchInit
  <2>5. files \in Seq(Filed) /\ passages \in Seq(Passage)
    BY <2>4
  <2>. QED  BY <2>1, <2>2, <2>3, <2>4, <2>5 DEF SearchTypes
<1>. QED  BY <1>1 DEF SearchInit, SearchInv, SearchKeepsItsBounds

\* Steps that leave the search and what it offers alone.
LEMMA Aside ==
    ASSUME SearchInv, SearchTypes', said = "", UNCHANGED <<asked, offered, said, sent>>
    PROVE  SearchInv'
<1>1. offered' = <<>> /\ said' # "hits"
  BY DEF SearchInv
<1>2. (asked # NoSearch /\ asked.mode # "reports" => sent \subseteq {"here"})'
  BY DEF SearchInv, SearchKeepsItsBounds
<1>3. SearchKeepsItsBounds'
  BY <1>1, <1>2, NothingOffered
<1>. QED  BY <1>3 DEF SearchInv

LEMMA IndexKeeps == SearchInv /\ Index => SearchInv'
<1>. SUFFICES ASSUME SearchInv, SearchTypes, Index PROVE SearchInv'
  BY DEF SearchInv
<1>1. PICK origin, near, of :
         /\ near \in Nearness /\ origin \in {"uploaded", "generated"}
         /\ files' = [f \in 1 .. Len(files) + 1 |->
               IF f = Len(files) + 1 THEN [origin |-> origin, current |-> TRUE]
               ELSE IF f = of THEN [files[f] EXCEPT !.current = FALSE] ELSE files[f]]
         /\ passages' = passages \o Indexed(Len(files) + 1, near, Embedder.model)
  BY DEF Index
<1>2. files' \in Seq(Filed)
  <2>1. PICK n : n = Len(files)
    OBVIOUS
  <2>2. n \in Nat /\ DOMAIN files = 1..n /\ \A f \in 1..n : files[f] \in Filed
    BY <2>1 DEF SearchTypes
  <2>3. ASSUME NEW f \in 1 .. n + 1
        PROVE  (IF f = n + 1 THEN [origin |-> origin, current |-> TRUE]
               ELSE IF f = of THEN [files[f] EXCEPT !.current = FALSE] ELSE files[f]) \in Filed
    <3>1. CASE f = n + 1
      <4>1. [origin |-> origin, current |-> TRUE] \in Filed
        BY <1>1 DEF Filed
      <4>. QED  BY <3>1, <4>1
    <3>2. CASE f # n + 1
      <4>1. files[f] \in Filed
        <5>1. f \in 1..n
          BY <2>2, <3>2
        <5>. QED  BY <2>2, <5>1
      <4>2. [files[f] EXCEPT !.current = FALSE] \in Filed
        BY <4>1 DEF Filed
      <4>. QED  BY <3>2, <4>1, <4>2
    <3>. QED  BY <3>1, <3>2
  <2>4. files' \in [1 .. n + 1 -> Filed]
    BY <1>1, <2>1, <2>3
  <2>. QED  BY <2>2, <2>4
<1>3. passages' \in Seq(Passage)
  <2>1. PICK n, m : n = Len(files) + 1 /\ m = Embedder.model
    OBVIOUS
  <2>2. n \in Nat /\ m \in Words
    <3>1. m \in Words
      BY <2>1, EmbedderIs DEF Embedders, EmbedderShape
    <3>2. Len(files) \in Nat
      BY DEF SearchTypes
    <3>. QED  BY <2>1, <3>1, <3>2
  <2>3. near \in Seq(Nat)
    BY <1>1, SearchAssumption
  <2>4. Indexed(n, near, m) \in Seq(Passage)
    <3>1. PICK k : k = Len(near)
      OBVIOUS
    <3>2. k \in Nat /\ DOMAIN near = 1..k /\ \A i \in 1..k : near[i] \in Nat
      BY <2>3, <3>1
    <3>3. \A i \in 1..k : [file |-> n, near |-> near[i], model |-> m] \in Passage
      BY <2>2, <3>2 DEF Passage
    <3>4. Indexed(n, near, m) \in [1..k -> Passage]
      BY <3>2, <3>3 DEF Indexed
    <3>. QED  BY <3>2, <3>4
  <2>5. PICK s : s = Indexed(n, near, m)
    OBVIOUS
  <2>6. passages \o s \in Seq(Passage)
    BY <2>4, <2>5 DEF SearchTypes
  <2>. QED  BY <1>1, <2>1, <2>5, <2>6
<1>4. probed' \in Words
  BY EmbedderIs DEF Index, Probed, SearchTypes
<1>5. SearchTypes'
  BY <1>2, <1>3, <1>4 DEF Index, SearchTypes
<1>. QED  BY <1>5, Aside DEF Index

LEMMA RemoveKeeps == SearchInv /\ RemoveVersion => SearchInv'
<1>. SUFFICES ASSUME SearchInv, SearchTypes, RemoveVersion PROVE SearchInv'
  BY DEF SearchInv
<1>1. PICK f \in DOMAIN files :
         /\ files' = [files EXCEPT ![f] = [origin |-> "removed", current |-> FALSE]]
         /\ passages' = Among(passages, {p \in ToSet(passages) : p.file # f})
  BY DEF RemoveVersion
<1>2. files' \in Seq(Filed)
  <2>1. [origin |-> "removed", current |-> FALSE] \in Filed
    BY DEF Filed
  <2>2. files \in Seq(Filed)
    BY DEF SearchTypes
  <2>. QED  BY <1>1, <2>1, <2>2
<1>3. passages' \in Seq(Passage)
  <2>1. PICK T : T = {p \in ToSet(passages) : p.file # f}
    OBVIOUS
  <2>2. passages \in Seq(Passage)
    BY DEF SearchTypes
  <2>. QED  BY <1>1, <2>1, <2>2, AmongHolds
<1>4. SearchTypes'
  BY <1>2, <1>3 DEF RemoveVersion, SearchTypes
<1>. QED  BY <1>4, Aside DEF RemoveVersion

LEMMA StartKeeps ==
    ASSUME SearchInv, NEW mode \in {"run", "chat", "reports"}, NEW chosen \in SUBSET DOMAIN files,
           NEW refusal, refusal # "hits", StartSearch(mode, chosen, refusal)
    PROVE  SearchInv'
<1>0. SearchTypes
  BY DEF SearchInv
<1>1. PICK most \in Mosts :
         asked' = [mode |-> mode, chosen |-> chosen, most |-> most, embedder |-> Embedder, vector |-> FALSE]
  BY DEF StartSearch
<1>2. chosen \subseteq Nat /\ IsFiniteSet(chosen)
  <2>1. PICK n : n = Len(files)
    OBVIOUS
  <2>2. n \in Nat /\ DOMAIN files = 1..n
    BY <1>0, <2>1 DEF SearchTypes
  <2>3. IsFiniteSet(1..n)
    BY <2>2, FS_Interval
  <2>4. chosen \subseteq 1..n
    BY <2>2
  <2>5. IsFiniteSet(chosen)
    BY <2>3, <2>4, FS_Subset
  <2>. QED  BY <2>2, <2>4, <2>5
<1>3. asked' \in AskedShape /\ asked'.chosen = chosen
  <2>1. most \in Nat \ {0}
    BY SearchAssumption
  <2>2. PICK e : e = Embedder
    OBVIOUS
  <2>3. e \in Embedders
    BY <1>0, <2>2, EmbedderIs
  <2>. QED  BY <1>1, <1>2, <2>1, <2>2, <2>3 DEF AskedShape
<1>4. probed' \in Words
  BY <1>0, EmbedderIs DEF StartSearch, Probed, SearchTypes
<1>5. SearchTypes'
  BY <1>0, <1>2, <1>3, <1>4 DEF StartSearch, SearchTypes
<1>6. offered' = <<>> /\ said' # "hits" /\ sent' = {} /\ asked' # NoSearch
  <2>1. "chosen" \in DOMAIN (asked')
    BY <1>1
  <2>2. "chosen" \notin DOMAIN NoSearch
    BY DEF NoSearch
  <2>. QED  BY <2>1, <2>2 DEF StartSearch, SearchInv
<1>7. SearchKeepsItsBounds'
  BY <1>6, NothingOffered
<1>. QED  BY <1>5, <1>6, <1>7 DEF SearchInv

LEMMA EmbedKeeps == SearchInv /\ EmbedQuestion => SearchInv'
<1>. SUFFICES ASSUME SearchInv, EmbedQuestion PROVE SearchInv'
  OBVIOUS
<1>. USE DEF SearchInv
<1>1. asked # NoSearch /\ asked \in AskedShape /\ IsFiniteSet(asked.chosen) /\ offered' = <<>>
  BY DEF EmbedQuestion, SearchTypes
<1>2. CASE asked.mode # "reports" /\ ~IsLocal(asked.embedder)
  <2>1. said' = "remote" /\ asked' = asked /\ sent' = sent
    BY <1>2 DEF EmbedQuestion
  <2>2. SearchTypes'
    BY <2>1 DEF EmbedQuestion, SearchTypes
  <2>3. SearchKeepsItsBounds'
    BY <1>1, <2>1, NothingOffered DEF SearchKeepsItsBounds
  <2>. QED  BY <1>1, <2>1, <2>2, <2>3
<1>3. CASE ~ (asked.mode # "reports" /\ ~IsLocal(asked.embedder))
  <2>1. PICK answers \in Answering(asked.embedder) :
           /\ asked' = [asked EXCEPT !.vector = answers]
           /\ said' = IF answers THEN "" ELSE "embedder"
    BY <1>3 DEF EmbedQuestion
  <2>2. sent' = IF asked.embedder.kind = "none" THEN sent ELSE sent \cup {asked.embedder.host}
    BY <1>3 DEF EmbedQuestion
  <2>3. PICK e : e = asked.embedder
    OBVIOUS
  <2>4. e \in Embedders
    BY <1>1, <2>3 DEF AskedShape
  <2>5. answers \in BOOLEAN
    <3>1. answers \in Answering(e)
      BY <2>1, <2>3
    <3>2. e.kind \in {"none", "fake", "local", "hosted"}
      BY <2>4 DEF Embedders, EmbedderShape
    <3>3. CASE e.kind = "none"
      BY <3>1, <3>3 DEF Answering
    <3>4. CASE e.kind = "fake"
      BY <3>1, <3>4 DEF Answering
    <3>5. CASE e.kind = "local"
      <4>1. Answering(e) = {Contains(serving, e.model)}
        BY <3>5 DEF Answering
      <4>2. Contains(serving, e.model) \in BOOLEAN
        BY DEF Contains
      <4>. QED  BY <3>1, <4>1, <4>2
    <3>6. CASE e.kind = "hosted"
      BY <3>1, <3>6 DEF Answering
    <3>. QED  BY <3>2, <3>3, <3>4, <3>5, <3>6
  <2>6. asked' \in AskedShape /\ asked'.chosen = asked.chosen /\ asked'.mode = asked.mode
    BY <1>1, <2>1, <2>5 DEF AskedShape
  <2>7. asked' # NoSearch
    <3>1. "chosen" \in DOMAIN (asked')
      BY <2>6 DEF AskedShape
    <3>2. "chosen" \notin DOMAIN NoSearch
      BY DEF NoSearch
    <3>. QED  BY <3>1, <3>2
  <2>8. SearchTypes'
    BY <1>1, <2>6 DEF EmbedQuestion, SearchTypes
  <2>9. said' # "hits"
    BY <2>1
  <2>10. asked'.mode # "reports" => sent' \subseteq {"here"}
    <3>. SUFFICES ASSUME asked.mode # "reports" PROVE sent' \subseteq {"here"}
      BY <2>6
    <3>1. sent \subseteq {"here"}
      BY <1>1 DEF SearchKeepsItsBounds
    <3>2. e.host = "here"
      <4>1. IsLocal(e)
        BY <1>3, <2>3
      <4>. QED  BY <2>4, <4>1 DEF IsLocal, Embedders
    <3>. QED  BY <2>2, <2>3, <3>1, <3>2
  <2>11. SearchKeepsItsBounds'
    BY <1>1, <2>9, <2>10, NothingOffered
  <2>. QED  BY <1>1, <2>7, <2>8, <2>11
<1>. QED  BY <1>2, <1>3

\* Whether a list is well offered hangs on the files, the index and the search alone.
LEMMA Same ==
    ASSUME NEW list, UNCHANGED <<files, passages, asked>>
    PROVE  WellOffered(list) => WellOffered(list)'
<1>1. Offerable' = Offerable
  BY DEF Offerable, MayBeTold, Near, FileOfP
<1>2. PerFile' = PerFile
  BY DEF PerFile
<1>3. \A p : Near(p)' = Near(p) /\ FileOfP(p)' = FileOfP(p)
  BY DEF Near, FileOfP
<1>. QED  BY <1>1, <1>2, <1>3 DEF WellOffered, Outranked

LEMMA RankKeeps == SearchInv /\ Rank => SearchInv'
<1>. SUFFICES ASSUME SearchInv, SearchTypes, SearchKeepsItsBounds, Rank PROVE SearchInv'
  BY DEF SearchInv
<1>1. /\ asked # NoSearch /\ asked \in AskedShape /\ IsFiniteSet(asked.chosen)
      /\ UNCHANGED <<deployment, serving, probed, files, passages, asked, sent>>
  BY DEF Rank, SearchTypes
<1>2. SearchTypes'
  BY <1>1 DEF SearchTypes
<1>3. CASE asked.mode = "reports"
  <2>1. SearchKeepsItsBounds'
    BY <1>1, <1>3 DEF SearchKeepsItsBounds
  <2>2. said' = "hits"
    BY <1>3 DEF Rank, Reason
  <2>. QED  BY <1>1, <1>2, <2>1, <2>2 DEF SearchInv
<1>4. CASE asked.mode # "reports" /\ Rows = {}
  <2>1. said' = Reason /\ offered' = <<>>
    BY <1>4 DEF Rank, SearchInv
  <2>2. said' # "hits"
    BY <1>4, <2>1 DEF Reason
  <2>3. sent \subseteq {"here"}
    BY <1>1, <1>4 DEF SearchKeepsItsBounds
  <2>4. SearchKeepsItsBounds'
    BY <1>1, <2>1, <2>2, <2>3, NothingOffered
  <2>. QED  BY <1>1, <1>2, <2>1, <2>4 DEF SearchInv
<1>5. CASE asked.mode # "reports" /\ Rows # {}
  <2>1. PICK all, deep : all = Cardinality(Rows) /\ deep = Deep * asked.most
    OBVIOUS
  <2>2. PICK many : many = IF all < deep THEN all ELSE deep
    OBVIOUS
  <2>3. PICK up \in BOOLEAN : offered' = Ranked(up, many)
    BY <1>5, <2>1, <2>2 DEF Rank
  <2>4. all \in Nat /\ deep \in Nat
    <3>1. PICK R, D : R = Rows /\ D = DOMAIN passages
      OBVIOUS
    <3>2. IsFiniteSet(R)
      <4>1. R \subseteq D /\ IsFiniteSet(D)
        BY <3>1, RowsAre
      <4>. QED  BY <4>1, FS_Subset
    <3>3. all \in Nat
      BY <2>1, <3>1, <3>2, FS_CardinalityType
    <3>4. PICK most : most = asked.most
      OBVIOUS
    <3>5. most \in Nat
      BY <1>1, <3>4 DEF AskedShape
    <3>6. PICK d : d = Deep
      OBVIOUS
    <3>7. d \in Nat
      BY <3>6, SearchAssumption
    <3>8. d * most \in Nat
      BY <3>5, <3>7
    <3>. QED  BY <2>1, <3>3, <3>4, <3>6, <3>8
  <2>5. many \in Nat /\ many <= all /\ (many = all \/ many = deep)
    BY <2>2, <2>4
  <2>6. PICK r : r.list = Ranked(up, many) /\ Searched(r, many)
    BY <1>1, <2>1, <2>5, RankedIs
  <2>7. PICK list : list = offered' /\ WellOffered(list)
    BY <1>1, <1>5, <2>1, <2>3, <2>5, <2>6, RankedKeeps
  <2>8. WellOffered(list)'
    BY <1>1, <2>7, Same
  <2>11. sent' \subseteq {"here"}
    BY <1>1, <1>5 DEF SearchKeepsItsBounds
  <2>12. SearchKeepsItsBounds'
    BY <2>7, <2>8, <2>11 DEF WellOffered, SearchKeepsItsBounds
  <2>13. said' = "hits"
    BY <1>5 DEF Rank
  <2>. QED  BY <1>1, <1>2, <2>12, <2>13 DEF SearchInv
<1>. QED  BY <1>3, <1>4, <1>5

LEMMA SearchStep == SearchInv /\ [SearchNext]_searchVars => SearchInv'
<1>. SUFFICES ASSUME SearchInv, [SearchNext]_searchVars PROVE SearchInv'
  OBVIOUS
<1>1. CASE Switch
  <2>1. serving' \in Seq(STRING)
    BY <1>1, SearchAssumption DEF Switch
  <2>2. SearchTypes'
    BY <1>1, <2>1 DEF Switch, SearchInv, SearchTypes
  <2>. QED  BY <1>1, <2>2, Aside DEF Switch
<1>2. CASE ProbeLapses
  <2>1. probed' \in Words
    BY <1>2 DEF ProbeLapses, Words
  <2>2. SearchTypes'
    BY <1>2, <2>1 DEF ProbeLapses, SearchInv, SearchTypes
  <2>. QED  BY <1>2, <2>2, Aside DEF ProbeLapses
<1>3. CASE Index
  BY <1>3, IndexKeeps
<1>4. CASE RemoveVersion
  BY <1>4, RemoveKeeps
<1>5. CASE OpenForRun
  <2>1. PICK chosen \in SUBSET DOMAIN files :
           StartSearch("run", chosen, IF Embedder.kind \in {"none", "hosted"} THEN "remote" ELSE "")
    BY <1>5 DEF OpenForRun
  <2>2. PICK refusal \in {"remote", ""} : StartSearch("run", chosen, refusal)
    BY <2>1
  <2>. QED  BY <2>2, StartKeeps
<1>6. CASE AskInChat
  <2>1. StartSearch("chat", {}, "")
    BY <1>6 DEF AskInChat, Everything
  <2>. QED  BY <2>1, StartKeeps
<1>7. CASE AskReports
  <2>1. StartSearch("reports", {}, "")
    BY <1>7 DEF AskReports, Everything
  <2>. QED  BY <2>1, StartKeeps
<1>8. CASE EmbedQuestion
  BY <1>8, EmbedKeeps
<1>9. CASE Rank
  BY <1>9, RankKeeps
<1>10. CASE UNCHANGED searchVars
  <2>1. SearchTypes'
    BY <1>10 DEF searchVars, SearchInv, SearchTypes
  <2>2. SearchKeepsItsBounds'
    <3>1. CASE said = "hits"
      <4>1. PICK list : list = offered /\ list = offered'
        BY <1>10 DEF searchVars
      <4>2. WellOffered(list) => WellOffered(list)'
        BY <1>10, Same DEF searchVars
      <4>. QED  BY <1>10, <3>1, <4>1, <4>2 DEF searchVars, SearchInv, SearchKeepsItsBounds, WellOffered
    <3>2. CASE said # "hits"
      <4>1. offered' = <<>> /\ said' # "hits"
        BY <1>10, <3>2 DEF searchVars, SearchInv
      <4>2. (asked # NoSearch /\ asked.mode # "reports" => sent \subseteq {"here"})'
        BY <1>10 DEF searchVars, SearchInv, SearchKeepsItsBounds
      <4>. QED  BY <4>1, <4>2, NothingOffered
    <3>. QED  BY <3>1, <3>2
  <2>. QED  BY <1>10, <2>1, <2>2 DEF searchVars, SearchInv
<1>. QED  BY <1>1, <1>2, <1>3, <1>4, <1>5, <1>6, <1>7, <1>8, <1>9, <1>10 DEF SearchNext

\* A run or a chat searches where it may and what it may: its question is embedded on
\* this machine or not at all, it is offered passages of uploads it may read, no file
\* over its share, and nothing nearer is left out but for a file's share or as many
\* nearer passages as are looked at; whatever the settings, the files and the local
\* server (CorpusStore.search, _rank, ScopedCorpus).
THEOREM SearchStaysInBounds == SearchSpec => []SearchKeepsItsBounds
<1>1. SearchInv => SearchKeepsItsBounds
  BY DEF SearchInv
<1>. QED  BY SearchStarts, SearchStep, <1>1, PTL DEF SearchSpec

-----------------------------------------------------------------------------
(* The chunks of a text *)

\* The largest and the smallest of a set of offsets are in it.
LEMMA LargestIs ==
    ASSUME NEW S, S \subseteq Nat, S # {}, NEW b \in Nat, \A n \in S : n <= b
    PROVE  Largest(S) \in S /\ \A m \in S : m <= Largest(S)
BY GreatestMember DEF Largest

LEMMA SmallestIs ==
    ASSUME NEW S, S \subseteq Nat, S # {}
    PROVE  Smallest(S) \in S /\ \A m \in S : Smallest(S) <= m
BY LeastMember DEF Smallest

Spanned == [start : Nat, end : Nat \ {0}]

\* The chunks begin in order; those so far leave out only white space up to an offset.
Ascending(cs)         == \A i, j \in DOMAIN cs : i <= j => cs[i].start <= cs[j].start
Covers(cs, o)         == \E i \in DOMAIN cs : cs[i].start <= o /\ o < cs[i].end
NoGap(text, cs, upto) == \A o \in Nat : cs[1].start <= o /\ o < upto /\ ~Space(text[o + 1]) => Covers(cs, o)

\* A chunk holds what is solid in its window.
Fills(text, x, begin, raw) ==
    /\ begin <= x.start /\ x.start < x.end /\ x.end <= raw
    /\ \A o \in Nat : begin <= o /\ o < raw /\ ~Space(text[o + 1]) => x.start <= o /\ o < x.end

\* Where a piece may begin is an offset.
LEMMA SplitsAreOffsets == ASSUME Text \in Seq(Letters) PROVE SplitPoints \subseteq Nat
<1>. DEFINE Breaks(g) == {o \in g[1] .. (g[2] - 1) : CharAt(o) = "n"}
<1>1. Length \in Nat
  BY DEF Length
<1>2. ASSUME NEW g \in Gaps PROVE g[1] \in Nat /\ g[2] \in Nat /\ g[2] <= Length
  <2>1. g \in (0 .. Length) \X (0 .. Length)
    BY DEF Gaps
  <2>. QED  BY <1>1, <2>1
<1>3. ASSUME NEW g \in Gaps, NEW o \in Breaks(g) PROVE Largest(Breaks(g)) + 1 \in Nat
  <2>1. PICK B : B = Breaks(g)
    OBVIOUS
  <2>2. B \subseteq Nat /\ B # {} /\ \A n \in B : n <= Length
    BY <1>1, <1>2, <1>3, <2>1
  <2>3. Largest(B) \in B
    BY <1>1, <2>2, LargestIs
  <2>. QED  BY <2>1, <2>2, <2>3
<1>4. ASSUME NEW p \in SplitPoints PROVE p \in Nat
  <2>1. \/ \E g \in Gaps : p = g[2]
        \/ \E g \in Gaps : p = Largest(Breaks(g)) + 1 /\ \E o \in Breaks(g) : TRUE
    BY DEF SplitPoints
  <2>. HIDE DEF Breaks
  <2>. QED  BY <1>2, <1>3, <2>1
<1>. QED  BY <1>4

\* A window has an end.
LEMMA WindowEnds ==
    ASSUME Text \in Seq(Letters), NEW start \in Nat
    PROVE  RawEnd(start) \in Nat
<1>1. Length \in Nat /\ Target \in Nat
  BY TextAssumption DEF Length
<1>2. PICK I : I = {p \in SplitPoints : start < p /\ p <= start + Target}
  OBVIOUS
<1>3. I \subseteq Nat /\ \A p \in I : p <= start + Target
  BY <1>2, SplitsAreOffsets
<1>4. start + Target \in Nat
  BY <1>1
<1>5. I # {} => Largest(I) \in Nat
  BY <1>3, <1>4, LargestIs
<1>. QED  BY <1>1, <1>2, <1>4, <1>5 DEF RawEnd

\* The next chunk is sought after the last one's start, no later than its end.
LEMMA NextBegins ==
    ASSUME Text \in Seq(Letters), NEW start \in Nat, NEW end \in Nat, start < end
    PROVE  NextStart(start, end) \in Nat /\ start < NextStart(start, end) /\ NextStart(start, end) <= end
<1>1. PICK I : I = {p \in SplitPoints : p >= start + 1 /\ p >= end - Overlap}
  OBVIOUS
<1>2. I \subseteq Nat /\ \A p \in I : p >= start + 1
  BY <1>1, SplitsAreOffsets
<1>3. I # {} => Smallest(I) \in Nat /\ start < Smallest(I)
  <2>. SUFFICES ASSUME I # {} PROVE Smallest(I) \in Nat /\ start < Smallest(I)
    OBVIOUS
  <2>1. I \subseteq Nat
    BY <1>2
  <2>2. Smallest(I) \in I
    BY <2>1, SmallestIs
  <2>3. Smallest(I) \in Nat /\ Smallest(I) >= start + 1
    BY <1>2, <2>1, <2>2
  <2>. QED  BY <2>3
<1>. QED  BY <1>1, <1>3 DEF NextStart

\* One more chunk closes the gap to the end of its window.
Continued(text, cs, begin, raw, x, t) ==
    /\ cs \in Seq(Spanned) /\ begin \in Nat /\ raw \in Nat
    /\ x \in Spanned /\ Fills(text, x, begin, raw) /\ Ascending(cs)
    /\ cs # <<>> => cs[Len(cs)].start < begin /\ NoGap(text, cs, begin)
    /\ t = Append(cs, x)

LEMMA OneMoreChunk ==
    ASSUME NEW text, NEW cs, NEW begin, NEW raw, NEW x, NEW t, Continued(text, cs, begin, raw, x, t)
    PROVE  /\ t \in Seq(Spanned) /\ t # <<>> /\ Ascending(t) /\ t[Len(t)] = x
           /\ NoGap(text, t, raw) /\ NoGap(text, t, x.end)
<1>0. /\ cs \in Seq(Spanned) /\ begin \in Nat /\ raw \in Nat
      /\ x \in Spanned /\ Fills(text, x, begin, raw) /\ Ascending(cs)
      /\ cs # <<>> => cs[Len(cs)].start < begin /\ NoGap(text, cs, begin)
      /\ t = Append(cs, x)
  BY DEF Continued
<1>. DEFINE n == Len(cs)
<1>1. /\ n \in Nat /\ DOMAIN cs = 1 .. n /\ \A i \in 1 .. n : cs[i] \in Spanned
      /\ cs # <<>> => n # 0
  BY <1>0
<1>2. /\ t \in Seq(Spanned) /\ t # <<>> /\ Len(t) = n + 1 /\ DOMAIN t = 1 .. (n + 1)
      /\ t[n + 1] = x /\ \A i \in 1 .. n : t[i] = cs[i]
  BY <1>0
<1>. HIDE DEF n
<1>3. x.start \in Nat /\ x.end \in Nat /\ begin <= x.start /\ x.end <= raw
  BY <1>0 DEF Spanned, Fills
<1>4. \A i \in 1 .. n : cs[i].start \in Nat /\ cs[i].end \in Nat /\ cs[i].start <= x.start
  <2>. TAKE i \in 1 .. n
  <2>1. n \in 1 .. n /\ cs # <<>>
    BY <1>1
  <2>2. cs[i].start \in Nat /\ cs[n].start \in Nat /\ cs[i].end \in Nat
    BY <1>1, <2>1 DEF Spanned
  <2>3. cs[i].start <= cs[n].start
    BY <1>0, <1>1, <2>1 DEF Ascending
  <2>4. cs[n].start < begin
    BY <1>0, <2>1 DEF n
  <2>. QED  BY <1>0, <1>3, <2>2, <2>3, <2>4
<1>5. Ascending(t)
  <2>. SUFFICES ASSUME NEW i \in 1 .. (n + 1), NEW j \in 1 .. (n + 1), i <= j PROVE t[i].start <= t[j].start
    BY <1>2 DEF Ascending
  <2>1. CASE j \in 1 .. n
    <3>1. i \in 1 .. n
      BY <1>1, <2>1
    <3>2. cs[i].start <= cs[j].start
      BY <1>0, <1>1, <2>1, <3>1 DEF Ascending
    <3>. QED  BY <1>2, <2>1, <3>1, <3>2
  <2>2. CASE j = n + 1 /\ i \in 1 .. n
    BY <1>2, <1>4, <2>2
  <2>3. CASE j = n + 1 /\ i = n + 1
    BY <1>2, <1>3, <2>3
  <2>4. (j \in 1 .. n \/ j = n + 1) /\ (i \in 1 .. n \/ i = n + 1)
    BY <1>1
  <2>5. j = n + 1 => i \in 1 .. n \/ i = n + 1
    BY <2>4
  <2>. QED  BY <2>1, <2>2, <2>3, <2>4
<1>6. NoGap(text, t, raw)
  <2>. SUFFICES ASSUME NEW o \in Nat, t[1].start <= o, o < raw, ~Space(text[o + 1]) PROVE Covers(t, o)
    BY DEF NoGap
  <2>1. CASE begin <= o
    <3>1. x.start <= o /\ o < x.end
      BY <1>0, <2>1 DEF Fills
    <3>2. n + 1 \in DOMAIN t
      BY <1>1, <1>2
    <3>. QED  BY <1>2, <3>1, <3>2 DEF Covers
  <2>2. CASE o < begin
    <3>1. n # 0
      <4>. SUFFICES ASSUME n = 0 PROVE FALSE
        OBVIOUS
      <4>1. t[1] = x
        BY <1>2
      <4>. QED  BY <1>0, <1>3, <2>2, <4>1
    <3>2. cs # <<>> /\ 1 \in 1 .. n
      BY <1>0, <1>1, <3>1 DEF n
    <3>3. cs[1].start <= o
      BY <1>2, <3>2
    <3>4. Covers(cs, o)
      BY <1>0, <2>2, <3>2, <3>3 DEF NoGap
    <3>5. PICK i \in 1 .. n : cs[i].start <= o /\ o < cs[i].end
      BY <1>1, <3>4 DEF Covers
    <3>6. i \in DOMAIN t /\ t[i] = cs[i]
      BY <1>1, <1>2
    <3>. QED  BY <3>5, <3>6 DEF Covers
  <2>. QED  BY <1>0, <2>1, <2>2
<1>7. NoGap(text, t, x.end)
  <2>1. \A o \in Nat : o < x.end => o < raw
    BY <1>0, <1>3
  <2>. QED  BY <1>6, <2>1 DEF NoGap
<1>. QED  BY <1>2, <1>5, <1>6, <1>7

\* A short tail leaves no gap when it goes to its predecessor.
LEMMA FoldedKeeps ==
    ASSUME NEW text, NEW cs \in Seq(Spanned), Ascending(cs),
           cs # <<>> => NoGap(text, cs, cs[Len(cs)].end),
           NEW t, t = Folded(cs)
    PROVE  /\ t \in Seq(Spanned) /\ Ascending(t)
           /\ t # <<>> => NoGap(text, t, t[Len(t)].end)
<1>1. PICK n : n = Len(cs)
  OBVIOUS
<1>2. n \in Nat /\ DOMAIN cs = 1 .. n /\ \A i \in 1 .. n : cs[i] \in Spanned
  BY <1>1
<1>3. CASE ~(n > 1 /\ cs[n].end - cs[n].start < Runt)
  <2>1. t = cs
    BY <1>1, <1>3 DEF Folded
  <2>. QED  BY <2>1
<1>4. CASE n > 1 /\ cs[n].end - cs[n].start < Runt
  <2>1. PICK x : x = [cs[n - 1] EXCEPT !.end = cs[n].end]
    OBVIOUS
  <2>2. /\ n - 1 \in 1 .. n /\ n \in 1 .. n /\ cs[n - 1] \in Spanned /\ cs[n] \in Spanned
        /\ cs # <<>>
    BY <1>1, <1>2, <1>4
  <2>3. x \in Spanned /\ x.start = cs[n - 1].start /\ x.end = cs[n].end
    BY <2>1, <2>2 DEF Spanned
  <2>4. PICK s : s = SubSeq(cs, 1, n - 2)
    OBVIOUS
  <2>5. /\ s \in Seq(Spanned) /\ Len(s) = n - 2 /\ \A i \in 1 .. (n - 2) : s[i] = cs[i]
    BY <1>1, <1>2, <1>4, <2>4
  <2>6. t = Append(s, x)
    BY <1>1, <1>4, <2>1, <2>4 DEF Folded
  <2>7. /\ t \in Seq(Spanned) /\ Len(t) = n - 1 /\ DOMAIN t = 1 .. (n - 1)
        /\ t[n - 1] = x /\ \A i \in 1 .. (n - 2) : t[i] = cs[i]
    BY <1>2, <1>4, <2>3, <2>5, <2>6
  <2>8. \A i \in 1 .. (n - 1) : i \in 1 .. n /\ t[i].start = cs[i].start /\ (i \in 1 .. (n - 2) \/ i = n - 1)
    BY <1>2, <1>4, <2>3, <2>7
  <2>9. Ascending(t)
    <3>. SUFFICES ASSUME NEW i \in 1 .. (n - 1), NEW j \in 1 .. (n - 1), i <= j PROVE t[i].start <= t[j].start
      BY <2>7 DEF Ascending
    <3>1. cs[i].start <= cs[j].start
      BY <1>2, <2>8 DEF Ascending
    <3>. QED  BY <2>8, <3>1
  <2>10. NoGap(text, t, t[Len(t)].end)
    <3>. SUFFICES ASSUME NEW o \in Nat, t[1].start <= o, o < cs[n].end, ~Space(text[o + 1]) PROVE Covers(t, o)
      BY <2>3, <2>7 DEF NoGap
    <3>1. cs[1].start <= o
      <4>1. 1 \in 1 .. (n - 1)
        BY <1>2, <1>4
      <4>. QED  BY <2>8, <4>1
    <3>2. Covers(cs, o)
      BY <1>1, <2>2, <3>1 DEF NoGap
    <3>3. PICK i \in 1 .. n : cs[i].start <= o /\ o < cs[i].end
      BY <1>2, <3>2 DEF Covers
    <3>4. CASE i \in 1 .. (n - 2)
      <4>1. i \in DOMAIN t
        BY <1>2, <2>7, <3>4
      <4>. QED  BY <2>7, <3>3, <3>4, <4>1 DEF Covers
    <3>5. CASE i \in {n - 1, n}
      <4>1. cs[n - 1].start <= cs[i].start
        BY <1>2, <2>2, <3>5 DEF Ascending
      <4>2. cs[n - 1].start \in Nat /\ cs[i].start \in Nat
        BY <1>2, <2>2 DEF Spanned
      <4>3. x.start <= o /\ o < x.end
        BY <2>3, <3>3, <4>1, <4>2
      <4>4. n - 1 \in DOMAIN t
        BY <1>2, <1>4, <2>7
      <4>. QED  BY <2>7, <4>3, <4>4 DEF Covers
    <3>6. i \in 1 .. (n - 2) \/ i \in {n - 1, n}
      BY <1>2
    <3>. QED  BY <3>4, <3>5, <3>6
  <2>. QED  BY <2>7, <2>9, <2>10
<1>. QED  BY <1>3, <1>4

\* A window that holds something solid is one chunk's.
LEMMA WindowFilled ==
    ASSUME NEW begin \in Nat, NEW raw \in Nat, NEW S, S = Solid(begin, raw), S # {},
           NEW x, x = [start |-> Smallest(S), end |-> Largest(S) + 1]
    PROVE  x \in Spanned /\ Fills(doc.text, x, begin, raw)
<1>1. S \subseteq Nat /\ \A o \in S : begin <= o /\ o <= raw /\ o < raw
  BY DEF Solid
<1>2. /\ Smallest(S) \in S /\ \A o \in S : Smallest(S) <= o
      /\ Largest(S) \in S /\ \A o \in S : o <= Largest(S)
  BY <1>1, SmallestIs, LargestIs
<1>3. PICK a, b : a = Smallest(S) /\ b = Largest(S)
  OBVIOUS
<1>4. a \in Nat /\ b \in Nat /\ begin <= a /\ a <= b /\ b < raw
  BY <1>1, <1>2, <1>3
<1>5. x = [start |-> a, end |-> b + 1] /\ b + 1 \in Nat \ {0}
  BY <1>3, <1>4
<1>6. \A o \in Nat : begin <= o /\ o < raw /\ ~Space(doc.text[o + 1]) => a <= o /\ o < b + 1
  <2>. SUFFICES ASSUME NEW o \in Nat, begin <= o, o < raw, ~Space(doc.text[o + 1]) PROVE a <= o /\ o < b + 1
    OBVIOUS
  <2>1. o \in S
    BY DEF Solid, CharAt, Text
  <2>. QED  BY <1>2, <1>3, <1>4, <2>1
<1>7. x.start = a /\ x.end = b + 1
  BY <1>5
<1>. QED  BY <1>4, <1>5, <1>6, <1>7 DEF Spanned, Fills

\* There are no chunks before there is a text.
TextTyped ==
    /\ upload \in Files /\ doc.text \in Seq(Letters)
    /\ spans \in Seq(Spanned) /\ from \in Nat \cup {-1}
    /\ doc.text = <<>> => spans = <<>> /\ cited = <<>>

\* The chunks so far reach to where the next one is sought.
Covering ==
    /\ Ascending(spans)
    /\ spans # <<>> => NoGap(doc.text, spans, spans[Len(spans)].end)
    /\ spans # <<>> /\ from # -1 => spans[Len(spans)].start < from /\ NoGap(doc.text, spans, from)

\* A turn of the chunker leaves nothing out.
LEMMA ChunkCovers ==
    ASSUME TextTyped, Covering, Chunk
    PROVE  spans' \in Seq(Spanned) /\ from' \in Nat \cup {-1} /\ Covering'
<1>1. /\ doc' = doc /\ cited' = cited /\ upload' = upload
      /\ doc.text # <<>> /\ from # -1 /\ from \in Nat
  BY DEF Chunk, TextTyped, Ended
<1>2. PICK raw : raw = RawEnd(from)
  OBVIOUS
<1>3. raw \in Nat
  BY <1>1, <1>2, WindowEnds DEF TextTyped, Text
<1>4. PICK S : S = Solid(from, raw)
  OBVIOUS
<1>5. CASE S = {}
  <2>1. spans' = Folded(spans) /\ from' = -1
    BY <1>2, <1>4, <1>5 DEF Chunk
  <2>. QED  BY <1>1, <2>1, FoldedKeeps DEF TextTyped, Covering
<1>6. CASE S # {}
  <2>1. PICK x : x = [start |-> Smallest(S), end |-> Largest(S) + 1]
    OBVIOUS
  <2>2. x \in Spanned /\ Fills(doc.text, x, from, raw)
    BY <1>1, <1>3, <1>4, <1>6, <2>1, WindowFilled
  <2>3. PICK t : t = Append(spans, x)
    OBVIOUS
  <2>4. /\ t \in Seq(Spanned) /\ t # <<>> /\ Ascending(t) /\ t[Len(t)] = x
        /\ NoGap(doc.text, t, raw) /\ NoGap(doc.text, t, x.end)
    <3>1. /\ spans \in Seq(Spanned) /\ Ascending(spans)
          /\ spans # <<>> => spans[Len(spans)].start < from /\ NoGap(doc.text, spans, from)
      BY <1>1 DEF TextTyped, Covering
    <3>2. PICK text, cs, begin : text = doc.text /\ cs = spans /\ begin = from
      OBVIOUS
    <3>3. Continued(text, cs, begin, raw, x, t)
      BY <1>1, <1>3, <2>2, <2>3, <3>1, <3>2 DEF Continued
    <3>4. /\ t \in Seq(Spanned) /\ t # <<>> /\ Ascending(t) /\ t[Len(t)] = x
          /\ NoGap(text, t, raw) /\ NoGap(text, t, x.end)
      BY <3>3, OneMoreChunk
    <3>. QED  BY <3>2, <3>4
  <2>5. CASE raw >= Length
    <3>1. spans' = Folded(t) /\ from' = -1
      BY <1>2, <1>4, <1>6, <2>1, <2>3, <2>5 DEF Chunk
    <3>. QED  BY <1>1, <2>4, <3>1, FoldedKeeps DEF Covering
  <2>6. CASE ~ raw >= Length
    <3>1. spans' = t /\ from' = NextStart(x.start, raw)
      BY <1>2, <1>4, <1>6, <2>1, <2>3, <2>6 DEF Chunk
    <3>2. x.start \in Nat /\ x.start < raw
      BY <1>3, <2>2 DEF Spanned, Fills
    <3>3. from' \in Nat /\ x.start < from' /\ from' <= raw
      BY <1>1, <1>3, <3>1, <3>2, NextBegins DEF TextTyped, Text
    <3>4. NoGap(doc.text, t, from')
      <4>1. \A o \in Nat : o < from' => o < raw
        BY <1>3, <3>3
      <4>. QED  BY <2>4, <4>1 DEF NoGap
    <3>. QED  BY <1>1, <2>4, <3>1, <3>3, <3>4 DEF Covering
  <2>. QED  BY <2>5, <2>6
<1>. QED  BY <1>5, <1>6

-----------------------------------------------------------------------------
(* The parts of a file *)

Segment(N) == [of : Nat, name : N, text : Seq(Letters)]
Own        == {p \in Segment(Nat) : p.name = p.of}

\* What is left of the parts, what is written before them, and their numbers.
LEMMA FilledKeeps == ASSUME NEW S, NEW parts \in Seq(S) PROVE Filled(parts) \in Seq(S)
BY AmongHolds DEF Filled

LEMMA Headed == ASSUME NEW t \in Seq(Letters) PROVE Line(t) \in Seq(Letters) /\ Heading \in Seq(Letters)
<1>1. "w" \in Letters /\ "_" \in Letters
  BY DEF Letters
<1>2. PICK a, b : a = "w" /\ b = "_"
  OBVIOUS
<1>3. a \in Letters /\ b \in Letters
  BY <1>1, <1>2
<1>4. <<a>> \in Seq(Letters) /\ <<b>> \in Seq(Letters)
  BY <1>3
<1>5. Heading = <<a>> /\ Line(t) = <<a>> \o <<b>> \o t
  BY <1>2 DEF Line, Heading
<1>6. PICK u, v : u = <<a>> /\ v = <<b>>
  OBVIOUS
<1>7. u \o v \in Seq(Letters)
  BY <1>4, <1>6
<1>8. (u \o v) \o t \in Seq(Letters)
  BY <1>7
<1>. QED  BY <1>4, <1>5, <1>6, <1>8

LEMMA NumberedOwn == ASSUME NEW items \in Seq(Seq(Letters)) PROVE Numbered(items) \in Seq(Own)
<1>1. \A i \in 1 .. Len(items) : [of |-> i, name |-> i, text |-> items[i]] \in Own
  BY DEF Own, Segment
<1>2. Numbered(items) = [i \in 1 .. Len(items) |-> [of |-> i, name |-> i, text |-> items[i]]] /\ Len(items) \in Nat
  BY DEF Numbered
<1>. HIDE DEF Own
<1>. QED  BY <1>1, <1>2

LEMMA LinesOwn == ASSUME NEW rows \in Seq(Own) PROVE Lines(rows) \in Seq(Own)
<1>1. \A i \in 1 .. Len(rows) : [rows[i] EXCEPT !.text = Line(@)] \in Own
  <2>. TAKE i \in 1 .. Len(rows)
  <2>1. rows[i] \in Own
    OBVIOUS
  <2>2. Line(rows[i].text) \in Seq(Letters)
    BY <2>1, Headed DEF Own, Segment
  <2>. QED  BY <2>1, <2>2 DEF Own, Segment
<1>2. Lines(rows) = [i \in 1 .. Len(rows) |-> [rows[i] EXCEPT !.text = Line(@)]] /\ Len(rows) \in Nat
  BY DEF Lines
<1>. HIDE DEF Own
<1>. QED  BY <1>1, <1>2

LEMMA LinesKeep == ASSUME NEW rows \in Seq(Segment(Nat)) PROVE Lines(rows) \in Seq(Segment(Nat))
<1>1. \A i \in 1 .. Len(rows) : [rows[i] EXCEPT !.text = Line(@)] \in Segment(Nat)
  <2>. TAKE i \in 1 .. Len(rows)
  <2>1. rows[i] \in Segment(Nat)
    OBVIOUS
  <2>2. Line(rows[i].text) \in Seq(Letters)
    BY <2>1, Headed DEF Segment
  <2>. QED  BY <2>1, <2>2 DEF Segment
<1>2. Lines(rows) = [i \in 1 .. Len(rows) |-> [rows[i] EXCEPT !.text = Line(@)]] /\ Len(rows) \in Nat
  BY DEF Lines
<1>. QED  BY <1>1, <1>2

LEMMA RecountedKeeps == ASSUME NEW rows \in Seq(Segment(Nat)) PROVE Recounted(rows) \in Seq(Segment(Nat))
<1>1. \A i \in 1 .. Len(rows) : [rows[i] EXCEPT !.name = i] \in Segment(Nat)
  <2>. TAKE i \in 1 .. Len(rows)
  <2>1. rows[i] \in Segment(Nat) /\ i \in Nat
    OBVIOUS
  <2>. QED  BY <2>1 DEF Segment
<1>2. Recounted(rows) = [i \in 1 .. Len(rows) |-> [rows[i] EXCEPT !.name = i]] /\ Len(rows) \in Nat
  BY DEF Recounted
<1>. QED  BY <1>1, <1>2

LEMMA TailKeeps == ASSUME NEW S, NEW s \in Seq(S), s # <<>> PROVE Tail(s) \in Seq(S)
OBVIOUS

\* Every format but a CSV and an outline calls a part by its number.
LEMMA PartsOwn ==
    ASSUME NEW f, f.items \in Seq(Seq(Letters)), f.kind # "csv", f.kind # "odt"
    PROVE  Parts(f) \in Seq(Own)
<1>1. PICK items : items = f.items
  OBVIOUS
<1>2. items \in Seq(Seq(Letters)) /\ Numbered(items) \in Seq(Own) /\ Filled(Numbered(items)) \in Seq(Own)
  <2>1. Numbered(items) \in Seq(Own)
    BY <1>1, NumberedOwn
  <2>. QED  BY <1>1, <2>1, FilledKeeps
<1>3. SheetParts(items) \in Seq(Own)
  <2>1. PICK rows : rows = Filled(Numbered(items))
    OBVIOUS
  <2>2. CASE rows = <<>>
    <3>1. SheetParts(items) = <<>>
      BY <2>1, <2>2 DEF SheetParts
    <3>. QED  BY <3>1
  <2>3. CASE rows # <<>>
    <3>1. Lines(Tail(rows)) \in Seq(Own)
      BY <1>2, <2>1, <2>3, TailKeeps, LinesOwn
    <3>2. PICK h : h = [of |-> 0, name |-> 0, text |-> Heading]
      OBVIOUS
    <3>3. h \in Own
      <4>1. <<>> \in Seq(Letters)
        OBVIOUS
      <4>2. Heading \in Seq(Letters)
        BY <4>1, Headed
      <4>. QED  BY <3>2, <4>2 DEF Own, Segment
    <3>4. SheetParts(items) = <<h>> \o Lines(Tail(rows))
      BY <2>1, <2>3, <3>2 DEF SheetParts
    <3>. HIDE DEF Own
    <3>. QED  BY <3>1, <3>3, <3>4
  <2>. QED  BY <2>2, <2>3
<1>4. WordTableParts(items) \in Seq(Own)
  <2>1. CASE items = <<>>
    <3>1. WordTableParts(items) = <<>>
      BY <2>1 DEF WordTableParts
    <3>. QED  BY <3>1
  <2>2. CASE items # <<>>
    <3>1. Numbered(items) # <<>>
      <4>1. DOMAIN Numbered(items) = 1 .. Len(items) /\ Len(items) \in Nat \ {0}
        BY <1>2, <2>2 DEF Numbered
      <4>2. Len(items) \in DOMAIN Numbered(items)
        BY <4>1
      <4>. QED  BY <4>2
    <3>2. Lines(Filled(Tail(Numbered(items)))) \in Seq(Own)
      BY <1>2, <3>1, TailKeeps, FilledKeeps, LinesOwn
    <3>. QED  BY <2>2, <3>2 DEF WordTableParts
  <2>. QED  BY <2>1, <2>2
<1>5. SlideParts(items) \in Seq(Own) /\ CellParts(items) \in Seq(Own)
  <2>1. Lines(Numbered(items)) \in Seq(Own) /\ <<>> \in Seq(Own)
    BY <1>2, LinesOwn
  <2>. QED  BY <2>1 DEF SlideParts, CellParts
<1>6. PdfParts(items) \in Seq(Own) /\ ChapterParts(items) \in Seq(Own) /\ HtmlParts(items) \in Seq(Own)
      /\ PlainParts(items) \in Seq(Own)
  BY <1>2 DEF PdfParts, ChapterParts, HtmlParts, PlainParts
<1>. QED  BY <1>1, <1>3, <1>4, <1>5, <1>6 DEF Parts

\* A CSV's rows.
LEMMA TableRows ==
    ASSUME NEW items \in Seq(Seq(Letters))
    PROVE  TableParts(items) \in Seq(Segment(Nat))
<1>1. Numbered(items) \in Seq(Segment(Nat))
  <2>1. Numbered(items) \in Seq(Own)
    BY NumberedOwn
  <2>2. Own \subseteq Segment(Nat)
    BY DEF Own
  <2>. QED  BY <2>1, <2>2
<1>2. PICK rows : rows = Recounted(Filled(Numbered(items)))
  OBVIOUS
<1>3. rows \in Seq(Segment(Nat))
  BY <1>1, <1>2, FilledKeeps, RecountedKeeps
<1>4. CASE rows = <<>>
  <2>1. TableParts(items) = <<>>
    BY <1>2, <1>4 DEF TableParts
  <2>. QED  BY <2>1
<1>5. CASE rows # <<>>
  <2>1. TableParts(items) = Lines(Tail(rows))
    BY <1>2, <1>5 DEF TableParts
  <2>. QED  BY <1>3, <1>5, <2>1, TailKeeps, LinesKeep
<1>. QED  BY <1>4, <1>5

-----------------------------------------------------------------------------
(* The headings of an outline *)

\* A file with the level of each of its items.
Outline(f) ==
    /\ f.items \in Seq(Seq(Letters)) /\ f.levels \in Seq(Nat) /\ Len(f.levels) = Len(f.items)

\* A path lists the headings an item stands under, each at its level.
Stands(f, p, i) ==
    /\ p \in Seq(Nat)
    /\ \A m \in DOMAIN p : p[m] \in Over(f, i) /\ f.levels[p[m]] = m
    /\ \A h \in Over(f, i) : \E m \in DOMAIN p : p[m] = h

\* What comes between two items is no heading.
Adjacent(f, i, j) ==
    /\ Outline(f) /\ Nested(f) /\ i \in Nat /\ j \in 1 .. Len(f.items) /\ i <= j
    /\ \A x \in (i + 1) .. (j - 1) : ~IsHeading(f, x)
    /\ ~Empty(f.items[j])

\* The headings over an item, one by one.
LEMMA OverIs ==
    ASSUME NEW f, NEW i \in Nat, NEW k
    PROVE  k \in Over(f, i) <=>
             /\ k \in 1 .. i /\ IsHeading(f, k)
             /\ \A x \in (k + 1) .. i : IsHeading(f, x) => f.levels[x] > f.levels[k]
BY DEF Over

\* Text stands where what came before it stood.
LEMMA TextStands ==
    ASSUME NEW f, NEW i, NEW j, Adjacent(f, i, j), f.levels[j] = 0
    PROVE  Over(f, j) = Over(f, i)
<1>1. /\ i \in Nat /\ j \in Nat /\ i <= j /\ ~IsHeading(f, j)
      /\ \A x \in (i + 1) .. (j - 1) : ~IsHeading(f, x)
  BY DEF Adjacent, IsHeading
<1>2. \A x \in Nat : i < x /\ x <= j => ~IsHeading(f, x)
  <2>. SUFFICES ASSUME NEW x \in Nat, i < x, x <= j PROVE ~IsHeading(f, x)
    OBVIOUS
  <2>1. x = j \/ x \in (i + 1) .. (j - 1)
    BY <1>1
  <2>. QED  BY <1>1, <2>1
<1>3. ASSUME NEW k \in Over(f, j) PROVE k \in Over(f, i)
  <2>1. /\ k \in 1 .. j /\ IsHeading(f, k)
        /\ \A x \in (k + 1) .. j : IsHeading(f, x) => f.levels[x] > f.levels[k]
    BY <1>1, <1>3, OverIs
  <2>2. k \in 1 .. i
    BY <1>1, <1>2, <2>1
  <2>3. \A x \in (k + 1) .. i : x \in (k + 1) .. j
    BY <1>1, <2>1
  <2>. QED  BY <1>1, <2>1, <2>2, <2>3, OverIs
<1>4. ASSUME NEW k \in Over(f, i) PROVE k \in Over(f, j)
  <2>1. /\ k \in 1 .. i /\ IsHeading(f, k)
        /\ \A x \in (k + 1) .. i : IsHeading(f, x) => f.levels[x] > f.levels[k]
    BY <1>1, <1>4, OverIs
  <2>2. k \in 1 .. j
    BY <1>1, <2>1
  <2>3. ASSUME NEW x \in (k + 1) .. j, IsHeading(f, x) PROVE f.levels[x] > f.levels[k]
    <3>1. x \in (k + 1) .. i
      BY <1>1, <1>2, <2>1, <2>3
    <3>. QED  BY <2>1, <2>3, <3>1
  <2>. QED  BY <1>1, <2>1, <2>2, <2>3, OverIs
<1>. QED  BY <1>3, <1>4

\* A heading closes those of its level and below.
LEMMA HeadingStands ==
    ASSUME NEW f, NEW i, NEW j, Adjacent(f, i, j), f.levels[j] > 0
    PROVE  \A k : k \in Over(f, j) <=> k = j \/ (k \in Over(f, i) /\ f.levels[k] < f.levels[j])
<1>1. /\ i \in Nat /\ j \in Nat /\ 1 <= j /\ i <= j /\ IsHeading(f, j) /\ DOMAIN f.levels = 1 .. Len(f.items)
      /\ Len(f.items) \in Nat /\ j <= Len(f.items)
      /\ \A x \in (i + 1) .. (j - 1) : ~IsHeading(f, x)
      /\ \A k \in 1 .. Len(f.items) : f.levels[k] \in Nat
  <2>1. i \in Nat /\ j \in 1 .. Len(f.items) /\ i <= j /\ ~Empty(f.items[j])
    BY DEF Adjacent
  <2>2. \A x \in (i + 1) .. (j - 1) : ~IsHeading(f, x)
    BY DEF Adjacent
  <2>3. f.items \in Seq(Seq(Letters)) /\ f.levels \in Seq(Nat) /\ Len(f.levels) = Len(f.items)
    BY DEF Adjacent, Outline
  <2>4. IsHeading(f, j)
    BY <2>1 DEF IsHeading
  <2>5. Len(f.items) \in Nat /\ DOMAIN f.levels = 1 .. Len(f.items)
    BY <2>3
  <2>6. j \in Nat /\ 1 <= j /\ j <= Len(f.items)
    BY <2>1, <2>5
  <2>7. \A k \in 1 .. Len(f.items) : f.levels[k] \in Nat
    BY <2>3, <2>5, SMTT(30)
  <2>. QED  BY <2>1, <2>2, <2>4, <2>5, <2>6, <2>7, Zenon
<1>2. \A x \in Nat : i < x /\ x < j => ~IsHeading(f, x)
  <2>. SUFFICES ASSUME NEW x \in Nat, i < x, x < j PROVE ~IsHeading(f, x)
    OBVIOUS
  <2>1. x \in (i + 1) .. (j - 1)
    BY <1>1
  <2>. QED  BY <1>1, <2>1
<1>3. ASSUME NEW k \in Over(f, j), k # j PROVE k \in Over(f, i) /\ f.levels[k] < f.levels[j]
  <2>1. /\ k \in 1 .. j /\ IsHeading(f, k)
        /\ \A x \in (k + 1) .. j : IsHeading(f, x) => f.levels[x] > f.levels[k]
    BY <1>1, <1>3, OverIs
  <2>2. k \in 1 .. i
    BY <1>1, <1>2, <1>3, <2>1, SMTT(30)
  <2>3. \A x \in (k + 1) .. i : x \in (k + 1) .. j
    BY <1>1, <2>1
  <2>4. k \in Over(f, i)
    BY <1>1, <2>1, <2>2, <2>3, OverIs
  <2>5. j \in (k + 1) .. j /\ k \in 1 .. Len(f.items) /\ j \in 1 .. Len(f.items)
    BY <1>1, <1>3, <2>1
  <2>6. f.levels[j] > f.levels[k] /\ f.levels[j] \in Nat /\ f.levels[k] \in Nat
    BY <1>1, <2>1, <2>5
  <2>. QED  BY <2>4, <2>6
<1>4. ASSUME NEW k \in Over(f, i), f.levels[k] < f.levels[j] PROVE k \in Over(f, j)
  <2>1. /\ k \in 1 .. i /\ IsHeading(f, k)
        /\ \A x \in (k + 1) .. i : IsHeading(f, x) => f.levels[x] > f.levels[k]
    BY <1>1, <1>4, OverIs
  <2>2. k \in 1 .. j /\ k \in 1 .. Len(f.items) /\ j \in 1 .. Len(f.items)
    BY <1>1, <2>1
  <2>3. ASSUME NEW x \in (k + 1) .. j, IsHeading(f, x) PROVE f.levels[x] > f.levels[k]
    <3>1. x \in (k + 1) .. i \/ x = j
      BY <1>1, <1>2, <2>1, <2>3
    <3>2. f.levels[j] > f.levels[k]
      <4>1. f.levels[j] \in Nat /\ f.levels[k] \in Nat
        BY <1>1, <2>2
      <4>. QED  BY <1>4, <4>1
    <3>. QED  BY <2>1, <2>3, <3>1, <3>2
  <2>. QED  BY <1>1, <2>1, <2>2, <2>3, OverIs
<1>5. j \in Over(f, j)
  <2>1. j \in 1 .. j /\ \A x \in (j + 1) .. j : FALSE
    BY <1>1
  <2>. QED  BY <1>1, <2>1, OverIs
<1>. QED  BY <1>3, <1>4, <1>5

\* The heading above is on the path.
LEMMA PathReaches ==
    ASSUME NEW f, NEW i, NEW j, NEW p, Adjacent(f, i, j), Stands(f, p, i), f.levels[j] > 0
    PROVE  f.levels[j] - 1 <= Len(p)
<1>1. /\ i \in Nat /\ j \in Nat /\ 1 <= j /\ i <= j /\ IsHeading(f, j) /\ DOMAIN f.levels = 1 .. Len(f.items)
      /\ Len(f.items) \in Nat /\ j \in 1 .. Len(f.items) /\ Nested(f)
      /\ \A x \in (i + 1) .. (j - 1) : ~IsHeading(f, x)
      /\ \A k \in 1 .. Len(f.items) : f.levels[k] \in Nat
  <2>1. /\ i \in Nat /\ j \in 1 .. Len(f.items) /\ i <= j /\ ~Empty(f.items[j]) /\ Nested(f)
        /\ \A x \in (i + 1) .. (j - 1) : ~IsHeading(f, x)
        /\ f.levels \in Seq(Nat) /\ Len(f.levels) = Len(f.items)
    BY DEF Adjacent, Outline
  <2>2. IsHeading(f, j)
    BY <2>1 DEF IsHeading
  <2>3. Len(f.items) \in Nat /\ DOMAIN f.levels = 1 .. Len(f.items)
    BY <2>1
  <2>. QED  BY <2>1, <2>2, <2>3
<1>2. p \in Seq(Nat) /\ Len(p) \in Nat /\ DOMAIN p = 1 .. Len(p)
  BY DEF Stands
<1>3. PICK n : n = f.levels[j]
  OBVIOUS
<1>4. n \in Nat /\ n > 0
  BY <1>1, <1>3
<1>5. CASE n = 1
  BY <1>2, <1>3, <1>5
<1>6. CASE n > 1
  <2>1. PICK l \in Over(f, j - 1) : f.levels[l] = n - 1
    BY <1>1, <1>3, <1>6 DEF Nested
  <2>2. j - 1 \in Nat
    BY <1>1
  <2>3. /\ l \in 1 .. (j - 1) /\ IsHeading(f, l)
        /\ \A x \in (l + 1) .. (j - 1) : IsHeading(f, x) => f.levels[x] > n - 1
    BY <2>1, <2>2, OverIs
  <2>4. l \in 1 .. i
    <3>1. l \in (i + 1) .. (j - 1) => FALSE
      BY <1>1, <2>3
    <3>. QED  BY <1>1, <2>2, <2>3, <3>1
  <2>5. ASSUME NEW x \in (l + 1) .. i, IsHeading(f, x) PROVE f.levels[x] > f.levels[l]
    <3>1. CASE x = j
      BY <1>3, <1>4, <2>1, <3>1
    <3>2. CASE x # j
      <4>1. x \in (l + 1) .. (j - 1)
        BY <1>1, <2>4, <2>5, <3>2
      <4>. QED  BY <2>1, <2>3, <2>5, <4>1
    <3>. QED  BY <3>1, <3>2
  <2>6. l \in Over(f, i)
    BY <1>1, <2>3, <2>4, <2>5, OverIs
  <2>7. PICK m \in DOMAIN p : p[m] = l
    BY <2>6 DEF Stands
  <2>8. m = n - 1
    BY <2>1, <2>7 DEF Stands
  <2>. QED  BY <1>2, <1>3, <1>4, <2>7, <2>8
<1>. QED  BY <1>4, <1>5, <1>6

\* A path that is one longer.
LEMMA OneHigher ==
    ASSUME NEW u \in Seq(Nat), NEW j \in Nat, NEW q, q = Append(u, j)
    PROVE  /\ q \in Seq(Nat) /\ Len(q) = Len(u) + 1 /\ q[Len(u) + 1] = j
           /\ \A m \in 1 .. Len(u) : q[m] = u[m]
OBVIOUS

\* One item further, the path is that item's.
LEMMA StandsOn ==
    ASSUME NEW f, NEW i, NEW j, NEW p, NEW q, Adjacent(f, i, j), Stands(f, p, i),
           q = IF f.levels[j] = 0 THEN p ELSE Append(Upto(p, f.levels[j] - 1), j)
    PROVE  Stands(f, q, j)
<1>1. /\ f.levels[j] \in Nat /\ j \in Nat
  <2>1. j \in 1 .. Len(f.items)
    BY DEF Adjacent
  <2>2. f.items \in Seq(Seq(Letters)) /\ f.levels \in Seq(Nat) /\ Len(f.levels) = Len(f.items)
    BY DEF Adjacent, Outline
  <2>3. j \in DOMAIN f.levels /\ j \in Nat
    BY <2>1, <2>2
  <2>. QED  BY <2>2, <2>3
<1>2. CASE f.levels[j] = 0
  BY <1>2, TextStands DEF Stands
<1>3. CASE f.levels[j] # 0
  <2>1. PICK n : n = f.levels[j]
    OBVIOUS
  <2>2. n \in Nat /\ n > 0
    BY <1>1, <1>3, <2>1
  <2>3. p \in Seq(Nat) /\ Len(p) \in Nat /\ DOMAIN p = 1 .. Len(p) /\ n - 1 <= Len(p)
    <3>1. f.levels[j] - 1 <= Len(p)
      BY <2>1, <2>2, PathReaches
    <3>. QED  BY <2>1, <3>1 DEF Stands
  <2>4. PICK u : u = SubSeq(p, 1, n - 1)
    OBVIOUS
  <2>5. q = Append(u, j)
    <3>1. (IF n - 1 < Len(p) THEN n - 1 ELSE Len(p)) = n - 1
      BY <2>2, <2>3
    <3>. QED  BY <1>3, <2>1, <2>4, <3>1 DEF Upto
  <2>6. u \in Seq(Nat) /\ Len(u) = n - 1 /\ \A m \in 1 .. (n - 1) : u[m] = p[m] /\ m \in DOMAIN p
    BY <2>2, <2>3, <2>4
  <2>7. /\ q \in Seq(Nat) /\ Len(q) = n /\ DOMAIN q = 1 .. n /\ q[n] = j
        /\ \A m \in 1 .. (n - 1) : q[m] = p[m]
    <3>1. PICK l : l = Len(u)
      OBVIOUS
    <3>2. u \in Seq(Nat) /\ l \in Nat /\ l = n - 1 /\ l + 1 = n
      BY <2>2, <2>6, <3>1
    <3>3. q \in Seq(Nat) /\ Len(q) = l + 1 /\ q[l + 1] = j /\ \A m \in 1 .. l : q[m] = u[m]
      <4>1. PICK r : r = Append(u, j)
        OBVIOUS
      <4>2. r \in Seq(Nat) /\ Len(r) = Len(u) + 1 /\ r[Len(u) + 1] = j /\ \A m \in 1 .. Len(u) : r[m] = u[m]
        BY <1>1, <3>2, <4>1, OneHigher
      <4>. QED  BY <2>5, <3>1, <4>1, <4>2
    <3>4. DOMAIN q = 1 .. Len(q)
      BY <3>3
    <3>. QED  BY <2>6, <3>2, <3>3, <3>4
  <2>8. \A k : k \in Over(f, j) <=> k = j \/ (k \in Over(f, i) /\ f.levels[k] < n)
    BY <2>1, <2>2, HeadingStands
  <2>9. ASSUME NEW m \in DOMAIN q PROVE q[m] \in Over(f, j) /\ f.levels[q[m]] = m
    <3>1. CASE m = n
      BY <2>1, <2>7, <2>8, <3>1
    <3>2. CASE m # n
      <4>1. m \in 1 .. (n - 1) /\ m < n
        BY <2>2, <2>7, <3>2
      <4>2. q[m] = p[m] /\ p[m] \in Over(f, i) /\ f.levels[p[m]] = m
        BY <2>6, <2>7, <4>1 DEF Stands
      <4>. QED  BY <2>8, <4>1, <4>2
    <3>. QED  BY <3>1, <3>2
  <2>10. ASSUME NEW h \in Over(f, j) PROVE \E m \in DOMAIN q : q[m] = h
    <3>1. CASE h = j
      <4>1. n \in DOMAIN q
        BY <2>2, <2>7
      <4>. QED  BY <2>7, <3>1, <4>1
    <3>2. CASE h # j
      <4>1. h \in Over(f, i) /\ f.levels[h] < n
        BY <2>8, <2>10, <3>2
      <4>2. PICK m \in DOMAIN p : p[m] = h
        BY <4>1 DEF Stands
      <4>3. m < n /\ m \in 1 .. Len(p)
        BY <2>3, <4>1, <4>2 DEF Stands
      <4>4. m \in 1 .. (n - 1) /\ m \in DOMAIN q
        <5>1. m \in Nat /\ 1 <= m /\ m < n
          BY <2>3, <4>3
        <5>. QED  BY <2>2, <2>7, <5>1
      <4>. QED  BY <2>7, <4>2, <4>4
    <3>. QED  BY <3>1, <3>2
  <2>. QED  BY <2>7, <2>9, <2>10 DEF Stands
<1>. QED  BY <1>2, <1>3

\* A path in that order is the name the outline gives.
LEMMA StandsNames ==
    ASSUME NEW f, f.kind = "odt", NEW i \in Nat, NEW p, Outline(f), Stands(f, p, i)
    PROVE  Calls(f, p, i)
<1>1. p \in Seq(Nat) /\ Len(p) \in Nat /\ DOMAIN p = 1 .. Len(p)
  BY DEF Stands
<1>2. ToSet(p) = Over(f, i)
  BY DEF Stands, ToSet
<1>3. ASSUME NEW m \in DOMAIN p, NEW n \in DOMAIN p, m < n, ~ p[m] < p[n] PROVE FALSE
  <2>1. PICK a, b : a = p[m] /\ b = p[n]
    OBVIOUS
  <2>2. /\ a \in Over(f, i) /\ b \in Over(f, i) /\ f.levels[a] = m /\ f.levels[b] = n
        /\ a \in Nat /\ b \in Nat /\ m \in Nat /\ n \in Nat /\ b <= a
    BY <1>1, <1>3, <2>1 DEF Stands
  <2>3. a # b
    BY <1>3, <2>2
  <2>4. a \in 1 .. i /\ IsHeading(f, a)
        /\ \A x \in (b + 1) .. i : IsHeading(f, x) => f.levels[x] > f.levels[b]
    BY <2>2, OverIs
  <2>5. a \in (b + 1) .. i
    BY <2>2, <2>3, <2>4
  <2>6. m > n
    BY <2>2, <2>4, <2>5
  <2>. QED  BY <1>3, <2>2, <2>6
<1>4. \A m, n \in DOMAIN p : m < n => p[m] < p[n]
  BY <1>3
<1>. QED  BY <1>2, <1>4 DEF Calls

\* The path after each part of an outline.
Walks(path, shown) ==
    /\ path \in [0..Len(shown) -> Seq(Nat)] /\ path[0] = <<>>
    /\ \A i \in 1 .. Len(shown) :
          path[i] = IF shown[i].name = 0 THEN path[i - 1]
                    ELSE Append(Upto(path[i - 1], shown[i].name - 1), shown[i].of)

\* A shortened path is one.
LEMMA UptoKeeps == ASSUME NEW p \in Seq(Nat), NEW n \in Nat PROVE Upto(p, n) \in Seq(Nat)
<1>1. Len(p) \in Nat
  OBVIOUS
<1>2. PICK k : k = IF n < Len(p) THEN n ELSE Len(p)
  OBVIOUS
<1>3. k \in Nat /\ k <= Len(p)
  BY <1>1, <1>2
<1>4. SubSeq(p, 1, k) \in Seq(Nat)
  BY <1>1, <1>3
<1>. QED  BY <1>2, <1>4 DEF Upto

\* The paths exist, and each is made of the one before.
LEMMA PathsWalk ==
    ASSUME NEW shown \in Seq(Segment(Nat))
    PROVE  Walks(HeadingPaths(shown), shown)
<1>. DEFINE L == Len(shown)
            S == Seq(Nat)
            Next1(p, i) == IF shown[i].name = 0 THEN p ELSE Append(Upto(p, shown[i].name - 1), shown[i].of)
            turn == [i \in 1..L |-> [p \in S |-> Next1(p, i)]]
<1>1. L \in Nat /\ <<>> \in S /\ \A i \in 1..L : shown[i].name \in Nat /\ shown[i].of \in Nat
  <2>1. L \in Nat /\ <<>> \in S
    OBVIOUS
  <2>2. ASSUME NEW i \in 1..L PROVE shown[i].name \in Nat /\ shown[i].of \in Nat
    <3>1. shown[i] \in Segment(Nat)
      OBVIOUS
    <3>. QED  BY <3>1 DEF Segment
  <2>. QED  BY <2>1, <2>2
<1>2. ASSUME NEW i \in 1..L, NEW p \in S PROVE Next1(p, i) \in S
  <2>1. CASE shown[i].name = 0
    BY <2>1
  <2>2. CASE shown[i].name # 0
    <3>1. PICK n, j : n = shown[i].name - 1 /\ j = shown[i].of
      OBVIOUS
    <3>2. n \in Nat /\ j \in Nat
      BY <1>1, <2>2, <3>1
    <3>3. PICK u : u = Upto(p, n)
      OBVIOUS
    <3>4. u \in Seq(Nat)
      BY <3>2, <3>3, UptoKeeps
    <3>5. Append(u, j) \in Seq(Nat)
      BY <3>2, <3>4
    <3>. QED  BY <2>2, <3>1, <3>3, <3>5
  <2>. QED  BY <2>1, <2>2
<1>. HIDE DEF Next1, L
<1>3. turn \in [1..L -> [S -> S]]
  <2>1. \A i \in 1..L : [p \in S |-> Next1(p, i)] \in [S -> S]
    BY <1>2
  <2>. HIDE DEF S
  <2>. QED  BY <2>1
<1>4. \A i \in 1..L : \A p \in S : turn[i][p] = Next1(p, i)
  OBVIOUS
<1>5. PICK t, Z : t = turn /\ Z = S
  OBVIOUS
<1>. HIDE DEF turn, S
<1>6. Loop(L, Z, <<>>, t)
  BY <1>1, <1>3, <1>5 DEF Loop
<1>7. PICK g : Looped(g, L, Z, <<>>, t)
  BY <1>6, Iterates
<1>8. g \in [0..L -> S] /\ g[0] = <<>> /\ \A i \in 1..L : g[i] = Next1(g[i - 1], i)
  <2>1. g \in [0..L -> S] /\ g[0] = <<>> /\ \A i \in 1..L : g[i] = t[i][g[i - 1]]
    BY <1>5, <1>7 DEF Looped
  <2>2. \A i \in 1..L : i - 1 \in 0..L
    BY <1>1
  <2>. QED  BY <1>4, <1>5, <2>1, <2>2
<1>. DEFINE Is(h) == h = [i \in 0..L |-> IF i = 0 THEN <<>> ELSE Next1(h[i - 1], i)]
<1>9. Is(g)
  <2>1. \A i \in 0..L : g[i] = IF i = 0 THEN <<>> ELSE Next1(g[i - 1], i)
    <3>1. \A i \in 0..L : i = 0 \/ i \in 1..L
      BY <1>1
    <3>. QED  BY <1>8, <3>1
  <2>. QED  BY <1>8, <2>1
<1>10. Is(HeadingPaths(shown))
  <2>1. HeadingPaths(shown) = CHOOSE h : Is(h)
    BY DEF HeadingPaths, Next1, L
  <2>. HIDE DEF Is
  <2>. QED  BY <1>9, <2>1
<1>11. \A h : Is(h) => h[0] = <<>> /\ \A i \in 1..L : h[i] = Next1(h[i - 1], i)
  <2>1. \A i \in 1..L : i \in 0..L /\ i # 0
    BY <1>1
  <2>. QED  BY <1>1, <2>1
<1>12. PICK h : h = HeadingPaths(shown)
  OBVIOUS
<1>13. h[0] = <<>> /\ DOMAIN h = 0..L /\ h = [i \in 0..L |-> h[i]] /\ \A i \in 1..L : h[i] = Next1(h[i - 1], i)
  <2>1. Is(h)
    <3>. HIDE DEF Is
    <3>. QED  BY <1>10, <1>12
  <2>2. DOMAIN h = 0..L /\ h = [i \in 0..L |-> h[i]]
    BY <2>1
  <2>3. h[0] = <<>> /\ \A i \in 1..L : h[i] = Next1(h[i - 1], i)
    <3>. HIDE DEF Is
    <3>. QED  BY <1>11, <2>1
  <2>. QED  BY <2>2, <2>3
<1>14. \A i \in 0..L : h[i] \in S
  <2>1. h[0] \in S
    BY <1>1, <1>13 DEF S
  <2>2. \A i \in 1..L : h[i - 1] \in S => h[i] \in S
    BY <1>2, <1>13 DEF S
  <2>. QED  BY <1>1, <2>1, <2>2, LoopKeeps
<1>. QED  BY <1>12, <1>13, <1>14 DEF Walks, S, L, Next1

\* What is shown in an outline, item by item.
SaidInOrder(f, shown) ==
    /\ \A k \in DOMAIN shown :
          /\ shown[k].of \in 1 .. Len(f.items) /\ shown[k].name = f.levels[shown[k].of]
          /\ ~Empty(f.items[shown[k].of])
    /\ \A j, k \in DOMAIN shown : j < k => shown[j].of <= shown[k].of
    /\ \A i \in 1 .. Len(f.items) : ~Empty(f.items[i]) => \E k \in DOMAIN shown : shown[k].of = i

LEMMA OutlinedIs ==
    ASSUME NEW f, Outline(f), NEW shown, shown = Outlined(f.items, f.levels)
    PROVE  shown \in Seq(Segment(Nat)) /\ SaidInOrder(f, shown)
<1>. DEFINE N == Len(f.items)
            S == Segment(Nat)
<1>0. /\ f.items \in Seq(Seq(Letters)) /\ f.levels \in Seq(Nat) /\ Len(f.levels) = N
      /\ N \in Nat /\ DOMAIN f.items = 1..N
  BY DEF Outline
<1>1. PICK s : s = [i \in DOMAIN f.items |-> [of |-> i, name |-> f.levels[i], text |-> f.items[i]]]
  OBVIOUS
<1>2. /\ s \in Seq(S) /\ DOMAIN s = 1..N
      /\ \A i \in 1..N : s[i].of = i /\ s[i].name = f.levels[i] /\ s[i].text = f.items[i]
  <2>1. \A i \in 1..N : [of |-> i, name |-> f.levels[i], text |-> f.items[i]] \in S
    BY <1>0 DEF Segment
  <2>. HIDE DEF N, S
  <2>. QED  BY <1>0, <1>1, <2>1
<1>3. PICK T : T = {p \in ToSet(s) : ~Empty(p.text)}
  OBVIOUS
<1>4. shown = Among(s, T)
  BY <1>1, <1>3 DEF Outlined, Filled
<1>. HIDE DEF N, S
<1>5. shown \in Seq(S) /\ AmongOnes(shown, s, T)
  BY <1>2, <1>4, AmongHolds
<1>6. PICK place \in [DOMAIN shown -> DOMAIN s] :
         /\ \A k \in DOMAIN shown : shown[k] = s[place[k]]
         /\ \A j, k \in DOMAIN shown : j < k => place[j] <= place[k]
  <2>1. PICK X : X = S
    OBVIOUS
  <2>2. s \in Seq(X)
    BY <1>2, <2>1
  <2>. QED  BY <1>4, <2>2, AmongInTurn
<1>7. \A k \in DOMAIN shown : place[k] \in 1..N /\ shown[k].of = place[k] /\ shown[k].name = f.levels[place[k]]
  <2>. TAKE k \in DOMAIN shown
  <2>1. place[k] \in 1..N
    BY <1>2, <1>6
  <2>. QED  BY <1>2, <1>6, <2>1
<1>8. \A k \in DOMAIN shown : ~Empty(f.items[shown[k].of])
  <2>. TAKE k \in DOMAIN shown
  <2>1. shown[k] \in T
    BY <1>5 DEF AmongOnes
  <2>2. ~Empty(shown[k].text)
    BY <1>3, <2>1
  <2>3. shown[k].text = f.items[place[k]]
    BY <1>2, <1>6, <1>7
  <2>. QED  BY <1>7, <2>2, <2>3
<1>9. \A i \in 1..N : ~Empty(f.items[i]) => \E k \in DOMAIN shown : shown[k].of = i
  <2>. SUFFICES ASSUME NEW i \in 1..N, ~Empty(f.items[i]) PROVE \E k \in DOMAIN shown : shown[k].of = i
    OBVIOUS
  <2>1. s[i] \in T
    BY <1>2, <1>3 DEF ToSet
  <2>2. PICK k \in DOMAIN shown : shown[k] = s[i]
    BY <1>2, <1>5, <2>1 DEF AmongOnes
  <2>. QED  BY <1>2, <2>2
<1>. QED  BY <1>5, <1>6, <1>7, <1>8, <1>9 DEF N, S, SaidInOrder

\* After each part the path is what that part stands under.
LEMMA OutlineNames ==
    ASSUME NEW f, f.kind = "odt", Outline(f), Nested(f), NEW shown, shown = Outlined(f.items, f.levels)
    PROVE  \A k \in DOMAIN shown : Calls(f, HeadingPaths(shown)[k], shown[k].of)
<1>. DEFINE L == Len(shown)
            N == Len(f.items)
            upto(k) == IF k = 0 THEN 0 ELSE shown[k].of
<1>1. /\ shown \in Seq(Segment(Nat)) /\ L \in Nat /\ DOMAIN shown = 1..L
      /\ \A k \in 1..L : /\ shown[k].of \in 1..N /\ shown[k].name = f.levels[shown[k].of]
                         /\ ~Empty(f.items[shown[k].of])
      /\ \A j, k \in 1..L : j < k => shown[j].of <= shown[k].of
      /\ \A i \in 1..N : ~Empty(f.items[i]) => \E k \in 1..L : shown[k].of = i
  <2>1. shown \in Seq(Segment(Nat))
    BY OutlinedIs
  <2>2. L \in Nat /\ DOMAIN shown = 1..L
    BY <2>1
  <2>3. SaidInOrder(f, shown)
    BY OutlinedIs
  <2>. HIDE DEF L, N
  <2>4. 1..L = DOMAIN shown /\ N = Len(f.items)
    BY <2>2 DEF N
  <2>. QED  BY <2>1, <2>2, <2>3, <2>4 DEF SaidInOrder
<1>2. N \in Nat
  BY DEF Outline
<1>3. PICK path : path = HeadingPaths(shown)
  OBVIOUS
<1>4. /\ path[0] = <<>>
      /\ \A k \in 1..L : path[k] = IF shown[k].name = 0 THEN path[k - 1]
                                   ELSE Append(Upto(path[k - 1], shown[k].name - 1), shown[k].of)
  BY <1>1, <1>3, PathsWalk DEF Walks
<1>. HIDE DEF L, N
<1>5. ASSUME NEW k \in 1..L PROVE Adjacent(f, upto(k - 1), shown[k].of)
  <2>1. upto(k - 1) \in Nat /\ upto(k - 1) <= shown[k].of
    <3>1. CASE k = 1
      BY <1>1, <1>2, <3>1
    <3>2. CASE k # 1
      <4>1. k - 1 \in 1..L /\ k - 1 < k /\ k - 1 # 0
        BY <1>1, <3>2
      <4>. QED  BY <1>1, <1>2, <4>1
    <3>. QED  BY <3>1, <3>2
  <2>2. ASSUME NEW x \in (upto(k - 1) + 1) .. (shown[k].of - 1), IsHeading(f, x) PROVE FALSE
    <3>1. shown[k].of \in Nat /\ shown[k].of <= N
      BY <1>1, <1>2
    <3>2. x \in 1..N
      BY <1>2, <2>1, <3>1
    <3>3. PICK y \in 1..L : shown[y].of = x
      BY <1>1, <2>2, <3>2 DEF IsHeading
    <3>4. CASE k <= y
      <4>1. shown[k].of <= shown[y].of
        BY <1>1, <3>1, <3>4
      <4>. QED  BY <2>1, <3>1, <3>3, <4>1
    <3>5. CASE y < k
      <4>1. k - 1 \in 1..L /\ (y < k - 1 \/ y = k - 1) /\ k - 1 # 0
        BY <1>1, <3>5
      <4>2. upto(k - 1) = shown[k - 1].of
        BY <4>1
      <4>3. shown[y].of <= shown[k - 1].of
        BY <1>1, <1>2, <4>1
      <4>. QED  BY <2>1, <3>1, <3>3, <4>2, <4>3
    <3>. QED  BY <1>1, <3>4, <3>5
  <2>3. PICK i : i = upto(k - 1)
    OBVIOUS
  <2>. HIDE DEF upto
  <2>. QED  BY <1>1, <2>1, <2>2 DEF Adjacent, N
<1>. DEFINE Fine(n) == Stands(f, path[n], upto(n))
            Good == {n \in Nat : n \in 0..L => Fine(n)}
<1>6. 0 \in Good
  <2>1. Over(f, 0) = {}
    BY DEF Over
  <2>2. Stands(f, <<>>, 0)
    BY <2>1 DEF Stands
  <2>. QED  BY <1>4, <2>2
<1>7. ASSUME NEW n \in Nat, n \in Good PROVE n + 1 \in Good
  <2>. SUFFICES ASSUME n + 1 \in 0..L PROVE Fine(n + 1)
    <3>. HIDE DEF Fine
    <3>. QED  OBVIOUS
  <2>1. n + 1 \in 1..L /\ (n + 1) - 1 = n /\ n \in 0..L /\ n + 1 # 0
    BY <1>1
  <2>2. PICK i, j, p, q : i = upto(n) /\ j = shown[n + 1].of /\ p = path[n] /\ q = path[n + 1]
    OBVIOUS
  <2>3. upto(n + 1) = j
    BY <2>1, <2>2
  <2>. HIDE DEF upto
  <2>4. Adjacent(f, i, j)
    BY <1>5, <2>1, <2>2
  <2>5. Stands(f, p, i)
    BY <1>7, <2>1, <2>2
  <2>6. q = IF f.levels[j] = 0 THEN p ELSE Append(Upto(p, f.levels[j] - 1), j)
    BY <1>1, <1>4, <2>1, <2>2
  <2>7. Stands(f, q, j)
    BY <2>4, <2>5, <2>6, StandsOn, ZenonT(60)
  <2>. QED  BY <2>2, <2>3, <2>7
<1>8. Nat \subseteq Good
  <2>. HIDE DEF Good
  <2>. QED  BY <1>6, <1>7, Counting
<1>9. ASSUME NEW k \in 1..L PROVE Calls(f, path[k], shown[k].of)
  <2>1. k \in Nat /\ k \in 0..L /\ k # 0
    BY <1>1
  <2>2. upto(k) = shown[k].of
    BY <2>1
  <2>3. Stands(f, path[k], upto(k))
    <3>. HIDE DEF upto
    <3>. QED  BY <1>8, <2>1
  <2>4. shown[k].of \in Nat
    BY <1>1, <1>2
  <2>. HIDE DEF upto
  <2>. QED  BY <2>2, <2>3, <2>4, StandsNames
<1>. QED  BY <1>1, <1>3, <1>9

-----------------------------------------------------------------------------
(* What is extracted *)

\* The parts of an outline keep their paths.
LEMMA OutlineKeeps ==
    ASSUME NEW f, Outline(f), NEW parts, parts = OutlineParts(f.items, f.levels)
    PROVE  /\ parts \in Seq(Segment(Seq(Nat)))
           /\ f.kind = "odt" /\ Nested(f) => \A i \in DOMAIN parts : Calls(f, parts[i].name, parts[i].of)
<1>1. PICK shown : shown = Outlined(f.items, f.levels)
  OBVIOUS
<1>2. shown \in Seq(Segment(Nat)) /\ Walks(HeadingPaths(shown), shown)
  BY <1>1, OutlinedIs, PathsWalk
<1>3. PICK path : path = HeadingPaths(shown)
  OBVIOUS
<1>4. Len(shown) \in Nat /\ DOMAIN shown = 1 .. Len(shown)
      /\ \A i \in DOMAIN shown : path[i] \in Seq(Nat) /\ shown[i] \in Segment(Nat)
  <2>1. Len(shown) \in Nat /\ DOMAIN shown = 1 .. Len(shown) /\ \A i \in DOMAIN shown : shown[i] \in Segment(Nat)
    BY <1>2
  <2>2. path \in [0..Len(shown) -> Seq(Nat)]
    BY <1>2, <1>3 DEF Walks
  <2>3. \A i \in DOMAIN shown : i \in 0..Len(shown)
    BY <2>1
  <2>. QED  BY <2>1, <2>2, <2>3
<1>5. parts = [i \in DOMAIN shown |-> [shown[i] EXCEPT !.name = path[i]]]
  BY <1>1, <1>3 DEF OutlineParts
<1>6. \A i \in DOMAIN shown : /\ [shown[i] EXCEPT !.name = path[i]] \in Segment(Seq(Nat))
                             /\ parts[i].name = path[i] /\ parts[i].of = shown[i].of
  <2>. TAKE i \in DOMAIN shown
  <2>1. PICK x, p : x = shown[i] /\ p = path[i]
    OBVIOUS
  <2>2. x \in Segment(Nat) /\ p \in Seq(Nat)
    BY <1>4, <2>1
  <2>3. [x EXCEPT !.name = p] \in Segment(Seq(Nat)) /\ [x EXCEPT !.name = p].name = p /\ [x EXCEPT !.name = p].of = x.of
    BY <2>2 DEF Segment
  <2>. QED  BY <1>5, <2>1, <2>3
<1>7. parts \in Seq(Segment(Seq(Nat))) /\ DOMAIN parts = DOMAIN shown
  BY <1>4, <1>5, <1>6
<1>8. ASSUME f.kind = "odt", Nested(f), NEW i \in DOMAIN parts PROVE Calls(f, parts[i].name, parts[i].of)
  <2>1. Calls(f, path[i], shown[i].of)
    BY <1>1, <1>3, <1>7, <1>8, OutlineNames
  <2>. QED  BY <1>6, <1>7, <2>1
<1>. QED  BY <1>7, <1>8

Labels == Nat \cup Seq(Nat)

\* Every part of a file is called what its program calls it.
RightlyNamed(f, parts) ==
    f.kind # "csv" /\ Nested(f) => \A i \in DOMAIN parts : Calls(f, parts[i].name, parts[i].of)

LEMMA PartsNamed ==
    ASSUME NEW f \in Files, NEW parts, parts = Parts(f)
    PROVE  parts \in Seq(Segment(Labels)) /\ RightlyNamed(f, parts)
<1>1. Outline(f)
  BY TextAssumption DEF Outline
<1>2. Segment(Nat) \subseteq Segment(Labels) /\ Segment(Seq(Nat)) \subseteq Segment(Labels) /\ Own \subseteq Segment(Labels)
  BY DEF Segment, Labels, Own
<1>3. CASE f.kind = "csv"
  <2>1. parts \in Seq(Segment(Nat))
    <3>1. parts = TableParts(f.items)
      BY <1>3 DEF Parts
    <3>. QED  BY <1>1, <3>1, TableRows DEF Outline
  <2>. QED  BY <1>2, <1>3, <2>1 DEF RightlyNamed
<1>4. CASE f.kind = "odt"
  <2>1. parts = OutlineParts(f.items, f.levels)
    BY <1>4 DEF Parts
  <2>2. parts \in Seq(Segment(Seq(Nat)))
    BY <1>1, <2>1, OutlineKeeps
  <2>3. RightlyNamed(f, parts)
    BY <1>1, <1>4, <2>1, OutlineKeeps DEF RightlyNamed
  <2>. QED  BY <1>2, <2>2, <2>3
<1>5. CASE f.kind # "csv" /\ f.kind # "odt"
  <2>1. parts \in Seq(Own)
    BY <1>1, <1>5, PartsOwn DEF Outline
  <2>2. \A i \in DOMAIN parts : parts[i] \in Own
    BY <2>1
  <2>3. \A i \in DOMAIN parts : parts[i].name = parts[i].of
    BY <2>2 DEF Own
  <2>4. RightlyNamed(f, parts)
    BY <1>5, <2>3 DEF RightlyNamed, Calls
  <2>5. parts \in Seq(Segment(Labels))
    <3>. HIDE DEF Own
    <3>. QED  BY <1>2, <2>1
  <2>. QED  BY <2>4, <2>5
<1>. QED  BY <1>3, <1>4, <1>5

\* The text is one.
LEMMA JoinedIsText ==
    ASSUME NEW parts \in Seq(Segment(Labels)), NEW sep \in Seq(Letters)
    PROVE  Joined(parts, sep) \in Seq(Letters)
<1>. DEFINE L  == Len(parts)
            ss == [i \in DOMAIN parts |-> IF i = 1 THEN parts[i].text ELSE sep \o parts[i].text]
<1>1. L \in Nat /\ DOMAIN parts = 1..L /\ \A i \in 1..L : parts[i] \in Segment(Labels)
  OBVIOUS
<1>2. \A i \in 1..L : ss[i] \in Seq(Letters)
  <2>. TAKE i \in 1..L
  <2>1. PICK t : t = parts[i].text
    OBVIOUS
  <2>2. t \in Seq(Letters)
    BY <1>1, <2>1 DEF Segment
  <2>3. sep \o t \in Seq(Letters)
    BY <2>2
  <2>. QED  BY <1>1, <2>1, <2>2, <2>3
<1>3. Joined(parts, sep) = FlattenSeq(ss)
  BY DEF Joined
<1>4. ss \in [1..L -> Seq(Letters)]
  BY <1>1, <1>2
<1>. HIDE DEF ss, L
<1>. QED  BY <1>1, <1>3, <1>4, Flattened

\* The first part begins where the text does.
LEMMA FirstOffset ==
    ASSUME NEW parts \in Seq(Segment(Labels)), NEW sep \in Seq(Letters), NEW at, at = Offsets(parts, sep)
    PROVE  /\ \A i \in DOMAIN parts : at[i] \in Nat
           /\ 1 \in DOMAIN parts => at[1] = 0
<1>. DEFINE L == Len(parts)
            After(x, n) == x + Len(parts[n].text) + Len(sep)
            turn == [n \in 1..L |-> [x \in Nat |-> After(x, n)]]
<1>1. L \in Nat /\ DOMAIN parts = 1..L /\ Len(sep) \in Nat
  OBVIOUS
<1>2. \A n \in 1..L : Len(parts[n].text) \in Nat
  <2>. TAKE n \in 1..L
  <2>1. parts[n] \in Segment(Labels)
    BY <1>1
  <2>2. PICK t : t = parts[n].text
    OBVIOUS
  <2>3. t \in Seq(Letters)
    BY <2>1, <2>2 DEF Segment
  <2>. QED  BY <2>2, <2>3
<1>3. ASSUME NEW n \in 1..L, NEW x \in Nat PROVE After(x, n) \in Nat
  BY <1>1, <1>2
<1>. HIDE DEF After, L
<1>4. turn \in [1..L -> [Nat -> Nat]] /\ \A n \in 1..L : \A x \in Nat : turn[n][x] = After(x, n)
  <2>1. \A n \in 1..L : [x \in Nat |-> After(x, n)] \in [Nat -> Nat]
    BY <1>3
  <2>. QED  BY <2>1
<1>5. PICK t : t = turn
  OBVIOUS
<1>. HIDE DEF turn
<1>6. Loop(L, Nat, 0, t)
  BY <1>1, <1>4, <1>5 DEF Loop
<1>7. PICK g : Looped(g, L, Nat, 0, t)
  BY <1>6, Iterates
<1>8. g \in [0..L -> Nat] /\ g[0] = 0 /\ \A n \in 1..L : g[n] = After(g[n - 1], n)
  <2>1. g \in [0..L -> Nat] /\ g[0] = 0 /\ \A n \in 1..L : g[n] = t[n][g[n - 1]]
    BY <1>7 DEF Looped
  <2>2. \A n \in 1..L : n - 1 \in 0..L
    BY <1>1
  <2>. QED  BY <1>4, <1>5, <2>1, <2>2
<1>. DEFINE Is(h) == h = [n \in 0..L |-> IF n = 0 THEN 0 ELSE After(h[n - 1], n)]
<1>9. Is(g)
  <2>1. \A n \in 0..L : g[n] = IF n = 0 THEN 0 ELSE After(g[n - 1], n)
    <3>1. \A n \in 0..L : n = 0 \/ n \in 1..L
      BY <1>1
    <3>. QED  BY <1>8, <3>1
  <2>. QED  BY <1>8, <2>1
<1>10. PICK h : Is(h) /\ at = [i \in DOMAIN parts |-> h[i - 1]]
  <2>1. at = [i \in DOMAIN parts |-> (CHOOSE h : Is(h))[i - 1]]
    BY DEF Offsets, After, L
  <2>. HIDE DEF Is
  <2>2. Is(CHOOSE h : Is(h))
    BY <1>9
  <2>. QED  BY <2>1, <2>2
<1>11. h[0] = 0 /\ \A n \in 1..L : h[n] = After(h[n - 1], n)
  <2>1. \A n \in 1..L : n \in 0..L /\ n # 0
    BY <1>1
  <2>. QED  BY <1>1, <1>10, <2>1
<1>12. \A n \in 0..L : h[n] \in Nat
  <2>. HIDE DEF Is
  <2>0. \A n \in 1..L : h[n - 1] \in Nat => h[n] \in Nat
    BY <1>3, <1>11
  <2>1. PICK Z : Z = Nat
    OBVIOUS
  <2>2. h[0] \in Z /\ \A n \in 1..L : h[n - 1] \in Z => h[n] \in Z
    BY <1>11, <2>0, <2>1
  <2>3. \A n \in 0..L : h[n] \in Z
    <3>. HIDE DEF Is
    <3>. QED  BY <1>1, <2>2, LoopKeeps
  <2>. QED  BY <2>1, <2>3
<1>13. \A i \in DOMAIN parts : i - 1 \in 0..L /\ at[i] = h[i - 1]
  BY <1>1, <1>10
<1>14. 1 \in DOMAIN parts => at[1] = h[0]
  BY <1>13
<1>. QED  BY <1>11, <1>12, <1>13, <1>14

\* The parts as a citation finds them.
Placed(f, ps) ==
    /\ Len(ps) \in Nat /\ DOMAIN ps = 1 .. Len(ps) /\ (ps # <<>> => Len(ps) # 0)
    /\ Len(ps) # 0 => ps[1].start = 0
    /\ RightlyNamed(f, ps)

\* An extraction has a text, and parts that are placed in it.
LEMMA ExtractPlaces ==
    ASSUME NEW f \in Files
    PROVE  Extract(f).text \in Seq(Letters) /\ Placed(f, Extract(f).parts)
<1>1. PICK parts, sep, at : parts = Parts(f) /\ sep = Between(f) /\ at = Offsets(parts, sep)
  OBVIOUS
<1>2. sep \in Seq(Letters)
  <2>1. PICK n : n = "n"
    OBVIOUS
  <2>2. n \in Letters
    BY <2>1 DEF Letters
  <2>3. <<n>> \in Seq(Letters) /\ <<n, n>> \in Seq(Letters)
    BY <2>2
  <2>. QED  BY <1>1, <2>1, <2>3 DEF Between, Break, TwoBreaks
<1>3. parts \in Seq(Segment(Labels)) /\ RightlyNamed(f, parts)
  BY <1>1, PartsNamed
<1>4. Extract(f).text \in Seq(Letters)
  BY <1>1, <1>2, <1>3, JoinedIsText DEF Extract
<1>5. PICK ps : ps = Extract(f).parts
  OBVIOUS
<1>6. CASE Located(f)
  <2>. DEFINE Made(i) == [start |-> at[i], of |-> parts[i].of, name |-> parts[i].name]
              P == [start : Nat, of : Nat, name : Labels]
  <2>1. ps = [i \in DOMAIN parts |-> Made(i)]
    BY <1>1, <1>5, <1>6 DEF Extract
  <2>2. Len(parts) \in Nat /\ DOMAIN parts = 1 .. Len(parts) /\ \A i \in DOMAIN parts : parts[i] \in Segment(Labels)
    BY <1>3
  <2>3. /\ \A i \in DOMAIN parts : at[i] \in Nat
        /\ 1 \in DOMAIN parts => at[1] = 0
    BY <1>1, <1>2, <1>3, FirstOffset
  <2>4. \A i \in DOMAIN parts : Made(i) \in P /\ Made(i).start = at[i] /\ Made(i).of = parts[i].of /\ Made(i).name = parts[i].name
    BY <2>2, <2>3 DEF Segment
  <2>. HIDE DEF Made, P
  <2>5. ps \in Seq(P) /\ DOMAIN ps = DOMAIN parts /\ \A i \in DOMAIN parts : ps[i] = Made(i)
    BY <2>1, <2>2, <2>4
  <2>6. Len(ps) \in Nat /\ DOMAIN ps = 1 .. Len(ps) /\ (ps # <<>> => Len(ps) # 0)
    BY <2>5
  <2>7. Len(ps) # 0 => ps[1].start = 0
    <3>. SUFFICES ASSUME Len(ps) # 0 PROVE ps[1].start = 0
      OBVIOUS
    <3>1. 1 \in DOMAIN parts
      BY <2>5, <2>6
    <3>. QED  BY <2>3, <2>4, <2>5, <3>1
  <2>8. RightlyNamed(f, ps)
    BY <1>3, <2>4, <2>5 DEF RightlyNamed
  <2>. QED  BY <1>4, <1>5, <1>6, <2>6, <2>7, <2>8 DEF Placed
<1>7. CASE ~Located(f)
  <2>1. ps = <<>>
    BY <1>5, <1>7 DEF Extract
  <2>2. Len(ps) = 0 /\ DOMAIN ps = 1 .. 0
    BY <2>1
  <2>3. \A i \in DOMAIN ps : FALSE
    BY <2>2
  <2>. QED  BY <1>4, <1>5, <2>1, <2>2, <2>3 DEF Placed, RightlyNamed
<1>. QED  BY <1>6, <1>7

\* The part an offset is in is one of them.
LEMMA PartFound ==
    ASSUME NEW f, NEW ps, Placed(f, ps), Len(ps) # 0, NEW o \in Nat
    PROVE  \E i \in DOMAIN ps : PartAt(ps, o) = ps[i]
<1>1. PICK B : B = {i \in DOMAIN ps : ps[i].start <= o}
  OBVIOUS
<1>2. Len(ps) \in Nat /\ DOMAIN ps = 1 .. Len(ps) /\ ps[1].start = 0
  BY DEF Placed
<1>3. 1 \in B /\ B \subseteq Nat /\ \A i \in B : i <= Len(ps)
  BY <1>1, <1>2
<1>4. Largest(B) \in B
  BY <1>2, <1>3, LargestIs
<1>. QED  BY <1>1, <1>4 DEF PartAt

\* A chunk that is read back is named by where it is.
LEMMA PlaceIsWhere ==
    ASSUME Placed(upload, doc.parts), NEW c \in Spanned,
           NEW x, x = [span |-> c, where |-> PlaceOf(c)]
    PROVE  WhereItIs(x)
<1>1. PICK ps : ps = doc.parts
  OBVIOUS
<1>. SUFFICES ASSUME upload.kind \notin {"csv", "code"}, PlaceOf(c) # <<>>, Nested(upload)
     PROVE  /\ Calls(upload, PlaceOf(c)[1], PartAt(ps, c.start).of)
            /\ upload.kind # "pdf" => Calls(upload, PlaceOf(c)[Len(PlaceOf(c))], PartAt(ps, c.end - 1).of)
  BY <1>1 DEF WhereItIs
<1>2. c.start \in Nat /\ c.end - 1 \in Nat
  BY DEF Spanned
<1>3. /\ Placed(upload, ps) /\ Len(ps) \in Nat /\ ps # <<>> => Len(ps) # 0
      /\ \A i \in DOMAIN ps : Calls(upload, ps[i].name, ps[i].of)
  BY <1>1 DEF Placed, RightlyNamed
<1>4. ASSUME NEW o \in Nat, Len(ps) # 0 PROVE Calls(upload, NameAt(o), PartAt(ps, o).of)
  BY <1>1, <1>3, <1>4, PartFound DEF NameAt
<1>5. PICK a, b : a = NameAt(c.start) /\ b = NameAt(c.end - 1)
  OBVIOUS
<1>6. CASE upload.kind = "pdf"
  <2>1. Len(ps) # 0 /\ PlaceOf(c) = <<a>>
    BY <1>1, <1>3, <1>5, <1>6 DEF PlaceOf, PageFor
  <2>. QED  BY <1>2, <1>4, <1>5, <1>6, <2>1
<1>7. CASE upload.kind # "pdf"
  <2>1. PlaceOf(c) = SegmentLabel(c.start, c.end)
    BY <1>7 DEF PlaceOf
  <2>2. ps # <<>> /\ PlaceOf(c) = IF a = b THEN <<a>> ELSE <<a, b>>
    BY <1>1, <1>5, <2>1 DEF SegmentLabel
  <2>3. Len(ps) # 0
    BY <1>3, <2>2
  <2>4. PICK w : w = PlaceOf(c)
    OBVIOUS
  <2>5. w[1] = a /\ w[Len(w)] = b
    BY <2>2, <2>4
  <2>6. Calls(upload, a, PartAt(ps, c.start).of) /\ Calls(upload, b, PartAt(ps, c.end - 1).of)
    BY <1>2, <1>4, <1>5, <2>3
  <2>. QED  BY <2>4, <2>5, <2>6
<1>. QED  BY <1>6, <1>7

-----------------------------------------------------------------------------
(* The blocks of a report *)

\* A line's place in the report, a block of it and a line.
Spot  == Nat \X Nat
Block == [head : BOOLEAN, size : Nat, lines : SUBSET Spot]
Row   == [head : BOOLEAN, size : Nat]

\* The lines that are no headings are in blocks that are none.
InText(got, at) == \E j \in DOMAIN got : ~got[j].head /\ at \in got[j].lines

\* A line that is added is in a block, and the others stay where they were.
LEMMA JoiningKeeps ==
    ASSUME NEW got \in Seq(Block), NEW b \in Block, NEW t, t = Joining(got, b)
    PROVE  /\ t \in Seq(Block)
           /\ \A at : InText(got, at) => InText(t, at)
           /\ \A at \in b.lines : ~b.head => InText(t, at)
<1>1. PICK n : n = Len(got)
  OBVIOUS
<1>2. n \in Nat /\ DOMAIN got = 1 .. n /\ (got # <<>> => n \in 1 .. n) /\ \A j \in 1 .. n : got[j] \in Block
  BY <1>1
<1>3. CASE got # <<>> /\ ~b.head /\ ~got[n].head
  <2>1. PICK x : x = [head |-> FALSE, size |-> got[n].size + b.size, lines |-> got[n].lines \cup b.lines]
    OBVIOUS
  <2>2. n \in 1 .. n /\ got[n] \in Block
    BY <1>2, <1>3
  <2>3. x \in Block /\ ~x.head /\ got[n].lines \subseteq x.lines /\ b.lines \subseteq x.lines
    BY <2>1, <2>2 DEF Block
  <2>4. t = [got EXCEPT ![n] = x]
    BY <1>1, <1>3, <2>1 DEF Joining
  <2>5. t \in Seq(Block) /\ DOMAIN t = 1 .. n /\ t[n] = x /\ \A j \in 1 .. n : j # n => t[j] = got[j]
    BY <1>2, <2>2, <2>3, <2>4
  <2>6. ASSUME NEW at, InText(got, at) PROVE InText(t, at)
    <3>1. PICK j \in 1 .. n : ~got[j].head /\ at \in got[j].lines
      BY <1>2, <2>6 DEF InText
    <3>2. ~t[j].head /\ at \in t[j].lines
      BY <2>3, <2>5, <3>1
    <3>. QED  BY <2>5, <3>2 DEF InText
  <2>7. ASSUME NEW at \in b.lines PROVE InText(t, at)
    BY <2>2, <2>3, <2>5, <2>7 DEF InText
  <2>. QED  BY <2>5, <2>6, <2>7
<1>4. CASE ~(got # <<>> /\ ~b.head /\ ~got[n].head)
  <2>1. t = Append(got, b)
    BY <1>1, <1>4 DEF Joining
  <2>2. t \in Seq(Block) /\ DOMAIN t = 1 .. (n + 1) /\ t[n + 1] = b /\ \A j \in 1 .. n : t[j] = got[j]
    BY <1>1, <1>2, <2>1
  <2>3. n + 1 \in DOMAIN t /\ \A j \in 1 .. n : j \in DOMAIN t
    BY <1>2, <2>2
  <2>4. ASSUME NEW at, InText(got, at) PROVE InText(t, at)
    <3>1. PICK j \in 1 .. n : ~got[j].head /\ at \in got[j].lines
      BY <1>2, <2>4 DEF InText
    <3>. QED  BY <2>2, <2>3, <3>1 DEF InText
  <2>5. ASSUME NEW at \in b.lines, ~b.head PROVE InText(t, at)
    BY <2>2, <2>3, <2>5 DEF InText
  <2>. QED  BY <2>2, <2>4, <2>5
<1>. QED  BY <1>3, <1>4

\* Peeling a paragraph loses no line of it.
LEMMA PeelHolds ==
    ASSUME NEW paragraph \in Seq(Row), NEW k \in Nat, NEW t, t = Peel(paragraph, k)
    PROVE  /\ t \in Seq(Block)
           /\ \A l \in DOMAIN paragraph : ~paragraph[l].head => InText(t, <<k, l>>)
<1>. DEFINE L == Len(paragraph)
            S == Seq(Block)
            one(i) == OneLine(paragraph[i], <<k, i>>)
            turn == [i \in 1..L |-> [g \in S |-> Joining(g, one(i))]]
<1>1. L \in Nat /\ DOMAIN paragraph = 1..L /\ <<>> \in S
  OBVIOUS
<1>2. ASSUME NEW i \in 1..L
      PROVE  one(i) \in Block /\ one(i).head = paragraph[i].head /\ one(i).lines = {<<k, i>>}
  <2>1. paragraph[i] \in Row /\ i \in Nat
    BY <1>1
  <2>2. {<<k, i>>} \in SUBSET Spot
    BY <2>1 DEF Spot
  <2>. QED  BY <2>1, <2>2 DEF OneLine, Block, Row
<1>. HIDE DEF one, L
<1>3. \A i \in 1..L : \A g \in S : Joining(g, one(i)) \in S
  BY <1>2, JoiningKeeps
<1>4. PICK Z : Z = S
  OBVIOUS
<1>. HIDE DEF S
<1>5. turn \in [1..L -> [S -> S]] /\ \A i \in 1..L : \A g \in S : turn[i][g] = Joining(g, one(i))
  <2>1. \A i \in 1..L : [g \in S |-> Joining(g, one(i))] \in [S -> S]
    BY <1>3
  <2>. QED  BY <2>1
<1>6. PICK u : u = turn
  OBVIOUS
<1>. HIDE DEF turn
<1>7. Loop(L, Z, <<>>, u)
  BY <1>1, <1>4, <1>5, <1>6 DEF Loop
<1>8. PICK g : Looped(g, L, Z, <<>>, u)
  BY <1>7, Iterates
<1>9. g \in [0..L -> S] /\ g[0] = <<>> /\ \A i \in 1..L : g[i] = Joining(g[i - 1], one(i))
  <2>1. g \in [0..L -> S] /\ g[0] = <<>> /\ \A i \in 1..L : g[i] = u[i][g[i - 1]]
    BY <1>4, <1>8 DEF Looped
  <2>2. \A i \in 1..L : i - 1 \in 0..L
    BY <1>1
  <2>. QED  BY <1>5, <1>6, <2>1, <2>2
<1>. DEFINE Is(h) == h = [i \in 0..L |-> IF i = 0 THEN <<>> ELSE Joining(h[i - 1], one(i))]
<1>10. Is(g)
  <2>1. \A i \in 0..L : g[i] = IF i = 0 THEN <<>> ELSE Joining(g[i - 1], one(i))
    <3>1. \A i \in 0..L : i = 0 \/ i \in 1..L
      BY <1>1
    <3>. QED  BY <1>9, <3>1
  <2>. QED  BY <1>9, <2>1
<1>11. PICK h : Is(h) /\ t = h[L]
  <2>1. t = (CHOOSE h : Is(h))[L]
    BY DEF Peel, one, L
  <2>. HIDE DEF Is
  <2>2. Is(CHOOSE h : Is(h))
    BY <1>10
  <2>. QED  BY <2>1, <2>2
<1>12. h[0] = <<>> /\ \A i \in 1..L : h[i] = Joining(h[i - 1], one(i))
  <2>1. \A i \in 1..L : i \in 0..L /\ i # 0
    BY <1>1
  <2>. QED  BY <1>1, <1>11, <2>1
<1>. HIDE DEF Is
<1>. DEFINE Fine(n) == h[n] \in Seq(Block) /\ \A l \in 1..n : ~paragraph[l].head => InText(h[n], <<k, l>>)
            Good == {n \in Nat : n \in 0..L => Fine(n)}
<1>13. 0 \in Good
  <2>1. h[0] \in Seq(Block)
    BY <1>12
  <2>. QED  BY <2>1
<1>14. ASSUME NEW n \in Nat, n \in Good PROVE n + 1 \in Good
  <2>. SUFFICES ASSUME n + 1 \in 0..L PROVE Fine(n + 1)
    <3>. HIDE DEF Fine
    <3>. QED  OBVIOUS
  <2>1. n \in 0..L /\ n + 1 \in 1..L /\ (n + 1) - 1 = n
    BY <1>1
  <2>2. Fine(n)
    <3>. HIDE DEF Fine
    <3>. QED  BY <1>14, <2>1
  <2>3. PICK a, b, c : a = h[n] /\ b = one(n + 1) /\ c = h[n + 1]
    OBVIOUS
  <2>4. a \in Seq(Block) /\ b \in Block /\ c = Joining(a, b)
    BY <1>2, <1>12, <2>1, <2>2, <2>3
  <2>5. /\ c \in Seq(Block)
        /\ \A at : InText(a, at) => InText(c, at)
        /\ \A at \in b.lines : ~b.head => InText(c, at)
    BY <2>4, JoiningKeeps
  <2>6. ASSUME NEW l \in 1..(n + 1), ~paragraph[l].head PROVE InText(c, <<k, l>>)
    <3>1. CASE l = n + 1
      <4>1. b.head = paragraph[l].head /\ <<k, l>> \in b.lines
        BY <1>2, <2>1, <2>3, <3>1
      <4>. QED  BY <2>5, <2>6, <4>1
    <3>2. CASE l # n + 1
      <4>1. l \in 1..n
        BY <3>2
      <4>2. InText(a, <<k, l>>)
        BY <2>2, <2>3, <2>6, <4>1
      <4>. QED  BY <2>5, <4>2
    <3>. QED  BY <3>1, <3>2
  <2>. QED  BY <2>3, <2>5, <2>6
<1>15. Nat \subseteq Good
  <2>. HIDE DEF Good
  <2>. QED  BY <1>13, <1>14, Counting
<1>16. Fine(L)
  <2>1. L \in Nat /\ L \in 0..L
    BY <1>1
  <2>. HIDE DEF Fine
  <2>. QED  BY <1>15, <2>1
<1>. QED  BY <1>1, <1>11, <1>16

\* Every line of a report that is no heading is in a block that is none.
Blocked(d, bs) ==
    /\ bs \in Seq(Block)
    /\ \A p \in DOMAIN d : \A l \in DOMAIN d[p] : ~d[p][l].head => InText(bs, <<p, l>>)

\* Peeling a report loses no line of it.
LEMMA PeeledHolds ==
    ASSUME NEW d \in Seq(Seq(Row)), NEW bs, bs = Peeled(d)
    PROVE  Blocked(d, bs)
<1>. DEFINE L  == Len(d)
            ss == [p \in DOMAIN d |-> Peel(d[p], p)]
            S  == Block
<1>1. L \in Nat /\ DOMAIN d = 1..L /\ \A p \in 1..L : d[p] \in Seq(Row) /\ p \in Nat
  OBVIOUS
<1>2. \A p \in 1..L : /\ ss[p] \in Seq(S)
                      /\ \A l \in DOMAIN d[p] : ~d[p][l].head => InText(ss[p], <<p, l>>)
  BY <1>1, PeelHolds
<1>3. bs = FlattenSeq(ss) /\ ss \in [1..L -> Seq(S)]
  BY <1>1, <1>2 DEF Peeled
<1>. HIDE DEF ss, L, S
<1>4. bs \in Seq(S) /\ HoldsAll(bs, ss, L)
  BY <1>1, <1>3, Flattened
<1>5. ASSUME NEW p \in 1..L, NEW l \in DOMAIN d[p], ~d[p][l].head PROVE InText(bs, <<p, l>>)
  <2>1. PICK j \in DOMAIN ss[p] : ~ss[p][j].head /\ <<p, l>> \in ss[p][j].lines
    BY <1>2, <1>5 DEF InText
  <2>2. PICK k \in DOMAIN bs : bs[k] = ss[p][j]
    BY <1>4, <2>1 DEF HoldsAll
  <2>. QED  BY <2>1, <2>2 DEF InText
<1>. QED  BY <1>1, <1>4, <1>5 DEF Blocked, S

-----------------------------------------------------------------------------
(* The chunks of a report *)

\* A chunk, open or stored.
Noted == [size : Nat, lines : SUBSET Spot, body : BOOLEAN]

\* A line that a chunk holds, or the open one will.
IsKept(ns, op, at) == (\E k \in DOMAIN ns : at \in ns[k].lines) \/ (op.body /\ at \in op.lines)

\* Flushing stores what the open chunk will have kept.
LEMMA FlushKeeps ==
    ASSUME NEW ns \in Seq(Noted), NEW op \in Noted, NEW t, t = Flushed(ns, op)
    PROVE  /\ t \in Seq(Noted)
           /\ \A at : IsKept(ns, op, at) => \E k \in DOMAIN t : at \in t[k].lines
<1>1. CASE ~op.body
  BY <1>1 DEF Flushed, IsKept
<1>2. CASE op.body
  <2>1. PICK n : n = Len(ns)
    OBVIOUS
  <2>2. n \in Nat /\ DOMAIN ns = 1 .. n
    BY <2>1
  <2>3. t = Append(ns, op)
    BY <1>2 DEF Flushed
  <2>4. t \in Seq(Noted) /\ DOMAIN t = 1 .. (n + 1) /\ t[n + 1] = op /\ \A k \in 1 .. n : t[k] = ns[k]
    BY <2>1, <2>2, <2>3
  <2>5. n + 1 \in DOMAIN t /\ \A k \in 1 .. n : k \in DOMAIN t
    BY <2>2, <2>4
  <2>6. ASSUME NEW at, IsKept(ns, op, at) PROVE \E k \in DOMAIN t : at \in t[k].lines
    <3>1. CASE at \in op.lines
      BY <2>4, <2>5, <3>1
    <3>2. ASSUME NEW k \in 1 .. n, at \in ns[k].lines PROVE \E j \in DOMAIN t : at \in t[j].lines
      BY <2>4, <2>5, <3>2
    <3>. QED  BY <2>2, <2>6, <3>1, <3>2 DEF IsKept
  <2>. QED  BY <2>4, <2>6
<1>. QED  BY <1>1, <1>2

\* What two make together holds the lines of both.
LEMMA PlusKeeps ==
    ASSUME NEW x \in Noted, NEW y \in Noted
    PROVE  /\ Plus(x, y) \in Noted
           /\ Plus(x, y).lines = x.lines \cup y.lines /\ (x.body \/ y.body <=> Plus(x, y).body)
<1>1. x.size + y.size \in Nat /\ x.lines \cup y.lines \in SUBSET Spot /\ (x.body \/ y.body) \in BOOLEAN
  BY DEF Noted
<1>. QED  BY <1>1 DEF Plus, Noted

\* What the open chunk begins with.
LEMMA Parcels ==
    ASSUME NEW b \in Block
    PROVE  /\ Nothing \in Noted /\ ~Nothing.body
           /\ Heads(b) \in Noted /\ ~Heads(b).body /\ Heads(b).lines = b.lines
           /\ \A n \in Nat : /\ Body(b, n) \in Noted /\ Body(b, n).body /\ Body(b, n).lines = b.lines
                             /\ [Nothing EXCEPT !.size = n] \in Noted
<1>1. {} \in SUBSET Spot /\ 0 \in Nat /\ b.size \in Nat /\ b.lines \in SUBSET Spot
  BY DEF Block
<1>2. Nothing \in Noted /\ ~Nothing.body
  BY <1>1 DEF Nothing, Noted
<1>3. Heads(b) \in Noted /\ ~Heads(b).body /\ Heads(b).lines = b.lines
  BY <1>1 DEF Heads, Noted
<1>4. ASSUME NEW n \in Nat
      PROVE  /\ Body(b, n) \in Noted /\ Body(b, n).body /\ Body(b, n).lines = b.lines
             /\ [Nothing EXCEPT !.size = n] \in Noted
  <2>1. Body(b, n) \in Noted /\ Body(b, n).body /\ Body(b, n).lines = b.lines
    BY <1>1 DEF Body, Noted
  <2>2. [Nothing EXCEPT !.size = n] \in Noted
    BY <1>2 DEF Noted
  <2>. QED  BY <2>1, <2>2
<1>. QED  BY <1>2, <1>3, <1>4

\* The chunks while a block is poured into them, which lose nothing.
Pouring == [notes : Seq(Noted), open : Noted]
KeepsAll(s, t) == \A at : IsKept(s.notes, s.open, at) => IsKept(t.notes, t.open, at)

\* One piece put is kept, with all there was.
LEMMA PutKeeps ==
    ASSUME NEW s \in Pouring, NEW b \in Block, NEW head \in Noted, NEW words \in Nat, NEW n \in Nat,
           NEW t, t = Put(s, b, head, words, n)
    PROVE  /\ t \in Pouring /\ KeepsAll(s, t)
           /\ \A at \in b.lines : IsKept(t.notes, t.open, at)
<1>1. s.notes \in Seq(Noted) /\ s.open \in Noted
  BY DEF Pouring
<1>2. PICK x : x = Body(b, n)
  OBVIOUS
<1>3. x \in Noted /\ x.body /\ x.lines = b.lines
  BY <1>2, Parcels
<1>4. CASE s.open.size = 0 \/ s.open.size + n <= Target
  <2>1. PICK y : y = Plus(s.open, x)
    OBVIOUS
  <2>2. y \in Noted /\ y.body /\ s.open.lines \subseteq y.lines /\ b.lines \subseteq y.lines
    BY <1>1, <1>3, <2>1, PlusKeeps
  <2>3. t = [s EXCEPT !.open = y]
    BY <1>2, <1>4, <2>1 DEF Put
  <2>4. t \in Pouring /\ t.notes = s.notes /\ t.open = y
    BY <2>2, <2>3 DEF Pouring
  <2>. QED  BY <2>2, <2>4 DEF IsKept, KeepsAll
<1>5. CASE ~(s.open.size = 0 \/ s.open.size + n <= Target)
  <2>1. PICK done : done = Flushed(s.notes, s.open)
    OBVIOUS
  <2>2. /\ done \in Seq(Noted)
        /\ \A at : IsKept(s.notes, s.open, at) => \E k \in DOMAIN done : at \in done[k].lines
    BY <1>1, <2>1, FlushKeeps
  <2>3. PICK c : c = [Nothing EXCEPT !.size = IF done = <<>> THEN 0 ELSE words]
    OBVIOUS
  <2>4. c \in Noted
    BY <2>3, Parcels
  <2>5. PICK z : z = Plus(head, c)
    OBVIOUS
  <2>6. z \in Noted
    BY <2>4, <2>5, PlusKeeps
  <2>7. PICK y : y = Plus(z, x)
    OBVIOUS
  <2>8. y \in Noted /\ y.body /\ b.lines \subseteq y.lines
    BY <1>3, <2>6, <2>7, PlusKeeps
  <2>9. t = [notes |-> done, open |-> y]
    BY <1>2, <1>5, <2>1, <2>3, <2>5, <2>7 DEF Put
  <2>10. t \in Pouring /\ t.notes = done /\ t.open = y
    BY <2>2, <2>8, <2>9 DEF Pouring
  <2>. QED  BY <2>2, <2>8, <2>10 DEF IsKept, KeepsAll
<1>. QED  BY <1>4, <1>5

\* A block poured into the chunks, in whatever pieces, is in them, and what was
\* in them still is.
LEMMA PouredKeeps ==
    ASSUME NEW s \in Pouring, s = [notes |-> notes, open |-> open],
           NEW b \in Block, NEW head \in Noted, NEW words \in Nat,
           NEW sizes \in Seq(Nat), sizes # <<>>, NEW t, t = Poured(b, head, words, sizes)
    PROVE  /\ t \in Pouring /\ KeepsAll(s, t)
           /\ \A at \in b.lines : IsKept(t.notes, t.open, at)
<1>. DEFINE L == Len(sizes)
            S == Pouring
            turn == [i \in 1..L |-> [g \in S |-> Put(g, b, head, words, sizes[i])]]
<1>1. L \in Nat /\ L # 0 /\ DOMAIN sizes = 1..L /\ \A i \in 1..L : sizes[i] \in Nat
  OBVIOUS
<1>. HIDE DEF L
<1>3. \A i \in 1..L : \A g \in S : Put(g, b, head, words, sizes[i]) \in S
  BY <1>1, PutKeeps
<1>4. PICK Z : Z = S
  OBVIOUS
<1>. HIDE DEF S
<1>5. turn \in [1..L -> [S -> S]] /\ \A i \in 1..L : \A g \in S : turn[i][g] = Put(g, b, head, words, sizes[i])
  <2>1. \A i \in 1..L : [g \in S |-> Put(g, b, head, words, sizes[i])] \in [S -> S]
    BY <1>3
  <2>. QED  BY <2>1
<1>6. PICK u : u = turn
  OBVIOUS
<1>. HIDE DEF turn
<1>7. Loop(L, Z, s, u)
  <2>1. s \in S
    BY DEF S
  <2>. QED  BY <1>1, <1>4, <1>5, <1>6, <2>1 DEF Loop
<1>8. PICK g : Looped(g, L, Z, s, u)
  BY <1>7, Iterates
<1>9. g \in [0..L -> S] /\ g[0] = s /\ \A i \in 1..L : g[i] = Put(g[i - 1], b, head, words, sizes[i])
  <2>1. g \in [0..L -> S] /\ g[0] = s /\ \A i \in 1..L : g[i] = u[i][g[i - 1]]
    BY <1>4, <1>8 DEF Looped
  <2>2. \A i \in 1..L : i - 1 \in 0..L
    BY <1>1
  <2>. QED  BY <1>5, <1>6, <2>1, <2>2
<1>. DEFINE Is(h) == h = [i \in 0..L |-> IF i = 0 THEN [notes |-> notes, open |-> open]
                                                  ELSE Put(h[i - 1], b, head, words, sizes[i])]
<1>10. Is(g)
  <2>1. \A i \in 0..L : g[i] = IF i = 0 THEN s ELSE Put(g[i - 1], b, head, words, sizes[i])
    <3>1. \A i \in 0..L : i = 0 \/ i \in 1..L
      BY <1>1
    <3>. QED  BY <1>9, <3>1
  <2>. QED  BY <1>9, <2>1
<1>11. PICK h : Is(h) /\ t = h[L]
  <2>1. t = (CHOOSE h : Is(h))[L]
    BY DEF Poured, L
  <2>. HIDE DEF Is
  <2>2. Is(CHOOSE h : Is(h))
    BY <1>10
  <2>. QED  BY <2>1, <2>2
<1>12. h[0] = s /\ \A i \in 1..L : h[i] = Put(h[i - 1], b, head, words, sizes[i])
  <2>1. \A i \in 1..L : i \in 0..L /\ i # 0
    BY <1>1
  <2>. QED  BY <1>1, <1>11, <2>1
<1>. HIDE DEF Is
<1>. DEFINE Fine(n) == /\ h[n] \in S /\ KeepsAll(s, h[n])
                       /\ n # 0 => \A at \in b.lines : IsKept(h[n].notes, h[n].open, at)
            Good == {n \in Nat : n \in 0..L => Fine(n)}
<1>13. 0 \in Good
  <2>1. s \in S /\ KeepsAll(s, s)
    BY DEF KeepsAll, S
  <2>. QED  BY <1>12, <2>1
<1>14. ASSUME NEW n \in Nat, n \in Good PROVE n + 1 \in Good
  <2>. SUFFICES ASSUME n + 1 \in 0..L PROVE Fine(n + 1)
    <3>. HIDE DEF Fine
    <3>. QED  OBVIOUS
  <2>1. n \in 0..L /\ n + 1 \in 1..L /\ (n + 1) - 1 = n
    BY <1>1
  <2>2. h[n] \in S /\ KeepsAll(s, h[n])
    <3>1. Fine(n)
      <4>. HIDE DEF Fine
      <4>. QED  BY <1>14, <2>1
    <3>. QED  BY <3>1
  <2>3. PICK a, c, m : a = h[n] /\ c = h[n + 1] /\ m = sizes[n + 1]
    OBVIOUS
  <2>4. a \in Pouring /\ m \in Nat /\ c = Put(a, b, head, words, m)
    BY <1>1, <1>12, <2>1, <2>2, <2>3 DEF S
  <2>5. c \in Pouring /\ KeepsAll(a, c) /\ \A at \in b.lines : IsKept(c.notes, c.open, at)
    BY <2>4, PutKeeps
  <2>6. KeepsAll(s, c)
    BY <2>2, <2>3, <2>5 DEF KeepsAll
  <2>. QED  BY <2>3, <2>5, <2>6 DEF S
<1>15. Nat \subseteq Good
  <2>. HIDE DEF Good
  <2>. QED  BY <1>13, <1>14, Counting
<1>16. Fine(L)
  <2>1. L \in Nat /\ L \in 0..L
    BY <1>1
  <2>. HIDE DEF Fine
  <2>. QED  BY <1>15, <2>1
<1>. QED  BY <1>1, <1>11, <1>16 DEF S

\* The heading above a block, or nothing.
LEMMA AboveIs ==
    ASSUME Blocks \in Seq(Block), NEW i \in 1 .. Len(Blocks)
    PROVE  Above(i) \in Noted
<1>. DEFINE heads == {j \in 1 .. (i - 1) : Blocks[j].head}
<1>1. CASE heads = {}
  <2>1. {} \in SUBSET Spot
    OBVIOUS
  <2>. QED  BY <1>1, <2>1 DEF Above, Nothing, Noted
<1>2. CASE heads # {}
  <2>1. heads \subseteq Nat /\ i \in Nat /\ \A j \in heads : j <= i
    OBVIOUS
  <2>2. Largest(heads) \in heads
    <3>. HIDE DEF heads
    <3>. QED  BY <1>2, <2>1, LargestIs
  <2>3. Blocks[Largest(heads)] \in Block
    BY <2>2
  <2>. QED  BY <1>2, <2>3, Parcels DEF Above
<1>. QED  BY <1>1, <1>2

\* A block is poured in at least one piece, of a number of characters each.
LEMMA PiecesAre ==
    ASSUME NEW b \in Block, NEW room \in Nat \ {0}
    PROVE  Pieces(b, room) \in Seq(Nat) /\ Pieces(b, room) # <<>>
<1>1. b.size \in Nat /\ Target \in Nat
  BY TextAssumption DEF Block
<1>2. CASE b.size <= Target
  <2>1. PICK n : n = b.size
    OBVIOUS
  <2>2. <<n>> \in Seq(Nat) /\ <<n>> # <<>>
    BY <1>1, <2>1
  <2>. QED  BY <1>2, <2>1, <2>2 DEF Pieces
<1>3. CASE ~ b.size <= Target
  <2>1. PICK n, size : size = b.size /\ n = (size + room - 1) \div room
    OBVIOUS
  <2>2. size \in Nat /\ size > 0
    BY <1>1, <1>3, <2>1
  <2>3. n \in Nat /\ n >= 1
    BY <2>1, <2>2
  <2>4. PICK t : t = [i \in 1 .. n |-> IF i * room <= size THEN room ELSE size % room]
    OBVIOUS
  <2>5. size % room \in Nat
    BY <2>2
  <2>6. t \in [1 .. n -> Nat]
    BY <2>4, <2>5
  <2>7. t \in Seq(Nat) /\ DOMAIN t = 1 .. n
    BY <2>3, <2>6
  <2>8. t # <<>>
    <3>1. 1 \in DOMAIN t
      BY <2>3, <2>7
    <3>. QED  BY <3>1
  <2>9. Pieces(b, room) = t
    BY <1>3, <2>1, <2>4 DEF Pieces
  <2>. QED  BY <2>7, <2>8, <2>9
<1>. QED  BY <1>2, <1>3

\* Every line of a block that is dealt with is in a chunk, or in the open one
\* that will be stored.
KeptSoFar(bs, n, ns, op) ==
    /\ n \in Nat /\ n <= Len(bs) + 1
    /\ ns \in Seq(Noted) /\ op \in Noted
    /\ \A j \in DOMAIN bs : j <= n /\ ~bs[j].head => \A at \in bs[j].lines : IsKept(ns, op, at)
    /\ n = Len(bs) + 1 => ~op.body

\* A block further, when nothing was lost and its own lines are kept.
LEMMA OneMoreBlock ==
    ASSUME NEW bs \in Seq(Block), NEW n, NEW ns, NEW op, KeptSoFar(bs, n, ns, op), n < Len(bs),
           NEW ms \in Seq(Noted), NEW mop \in Noted, \A at : IsKept(ns, op, at) => IsKept(ms, mop, at),
           ~bs[n + 1].head => \A at \in bs[n + 1].lines : IsKept(ms, mop, at)
    PROVE  KeptSoFar(bs, n + 1, ms, mop)
<1>1. PICK m : m = Len(bs)
  OBVIOUS
<1>2. m \in Nat /\ DOMAIN bs = 1 .. m /\ n \in Nat /\ n < m
  BY <1>1 DEF KeptSoFar
<1>3. n + 1 \in Nat /\ n + 1 <= m + 1 /\ n + 1 # m + 1
  BY <1>2
<1>4. ASSUME NEW j \in 1 .. m, j <= n + 1, ~bs[j].head, NEW at \in bs[j].lines PROVE IsKept(ms, mop, at)
  <2>1. CASE j = n + 1
    BY <1>4, <2>1
  <2>2. CASE j # n + 1
    <3>1. j <= n
      BY <1>2, <1>4, <2>2
    <3>2. IsKept(ns, op, at)
      BY <1>2, <1>4, <3>1 DEF KeptSoFar
    <3>. QED  BY <3>2
  <2>. QED  BY <2>1, <2>2
<1>. QED  BY <1>1, <1>2, <1>3, <1>4 DEF KeptSoFar

\* Storing or joining the last chunk keeps every line.
LEMMA LastIsKept ==
    ASSUME NEW bs \in Seq(Block), NEW n, NEW ns, NEW op, KeptSoFar(bs, n, ns, op), n = Len(bs),
           NEW all, all = Flushed(ns, op), NEW ms, NEW k, k = Len(all),
           \/ ms = all
           \/ k > 1 /\ ms = Append(SubSeq(all, 1, k - 2), Plus(all[k - 1], all[k]))
    PROVE  KeptSoFar(bs, n + 1, ms, Nothing)
<1>1. ns \in Seq(Noted) /\ op \in Noted /\ n \in Nat
  BY DEF KeptSoFar
<1>2. all \in Seq(Noted) /\ \A at : IsKept(ns, op, at) => \E i \in DOMAIN all : at \in all[i].lines
  BY <1>1, FlushKeeps
<1>3. ms \in Seq(Noted) /\ \A at : (\E i \in DOMAIN all : at \in all[i].lines) => \E i \in DOMAIN ms : at \in ms[i].lines
  <2>1. CASE ms = all
    BY <1>2, <2>1
  <2>2. CASE k > 1 /\ ms = Append(SubSeq(all, 1, k - 2), Plus(all[k - 1], all[k]))
    <3>1. PICK x : x = Plus(all[k - 1], all[k])
      OBVIOUS
    <3>2. k \in Nat /\ DOMAIN all = 1 .. k /\ k - 1 \in 1 .. k /\ k \in 1 .. k /\ k - 2 \in Nat
      BY <1>2, <2>2
    <3>3. all[k - 1] \in Noted /\ all[k] \in Noted
      BY <1>2, <3>2
    <3>4. x \in Noted /\ all[k - 1].lines \subseteq x.lines /\ all[k].lines \subseteq x.lines
      BY <3>1, <3>3, PlusKeeps
    <3>5. PICK r : r = SubSeq(all, 1, k - 2)
      OBVIOUS
    <3>6. r \in Seq(Noted) /\ Len(r) = k - 2 /\ \A i \in 1 .. (k - 2) : r[i] = all[i]
      BY <1>2, <3>2, <3>5
    <3>7. ms = Append(r, x)
      BY <2>2, <3>1, <3>5
    <3>8. ms \in Seq(Noted) /\ DOMAIN ms = 1 .. (k - 1) /\ ms[k - 1] = x /\ \A i \in 1 .. (k - 2) : ms[i] = r[i]
      <4>1. ms \in Seq(Noted) /\ Len(ms) = (k - 2) + 1
        BY <3>4, <3>6, <3>7
      <4>2. (k - 2) + 1 = k - 1
        BY <3>2
      <4>3. ms[(k - 2) + 1] = x /\ \A i \in 1 .. (k - 2) : ms[i] = r[i]
        BY <3>2, <3>4, <3>6, <3>7
      <4>. QED  BY <4>1, <4>2, <4>3
    <3>9. ASSUME NEW at, NEW i \in 1 .. k, at \in all[i].lines PROVE \E j \in DOMAIN ms : at \in ms[j].lines
      <4>1. CASE i \in 1 .. (k - 2)
        <5>1. i \in 1 .. (k - 1) /\ ms[i] = all[i]
          BY <3>2, <3>6, <3>8, <4>1
        <5>. QED  BY <3>8, <3>9, <5>1
      <4>2. CASE i \notin 1 .. (k - 2)
        <5>1. i = k - 1 \/ i = k
          BY <3>2, <4>2
        <5>2. at \in x.lines
          BY <3>4, <3>9, <5>1
        <5>3. k - 1 \in 1 .. (k - 1)
          BY <3>2
        <5>. QED  BY <3>8, <5>2, <5>3
      <4>. QED  BY <4>1, <4>2
    <3>. QED  BY <3>2, <3>8, <3>9
  <2>. QED  BY <2>1, <2>2
<1>4. ASSUME NEW j \in DOMAIN bs, ~bs[j].head, NEW at \in bs[j].lines PROVE IsKept(ms, Nothing, at)
  <2>1. j <= n
    OBVIOUS
  <2>2. IsKept(ns, op, at)
    BY <1>4, <2>1 DEF KeptSoFar
  <2>. QED  BY <1>2, <1>3, <2>2 DEF IsKept
<1>5. Nothing \in Noted /\ ~Nothing.body
  <2>1. {} \in SUBSET Spot
    OBVIOUS
  <2>. QED  BY <2>1 DEF Nothing, Noted
<1>6. n + 1 \in Nat /\ n + 1 <= Len(bs) + 1
  BY <1>1
<1>. QED  BY <1>3, <1>4, <1>5, <1>6 DEF KeptSoFar

\* What holds of a report all along.
ReportKept == draft \in Written /\ KeptSoFar(Blocks, dealt, notes, open)

\* The blocks of a report hold its lines.
LEMMA BlocksAre ==
    ASSUME draft \in Written
    PROVE  Blocks \in Seq(Block) /\ Blocked(draft, Blocks)
<1>1. draft \in Seq(Seq(Row))
  BY TextAssumption DEF Row
<1>. QED  BY <1>1, PeeledHolds DEF Blocks, Blocked

\* Each step on a report loses no line.
LEMMA HeadingKeeps ==
    ASSUME ReportKept, NextHeading
    PROVE  ReportKept'
<1>1. draft' = draft /\ dealt' = dealt + 1 /\ dealt < Len(Blocks)
  BY DEF NextHeading
<1>2. PICK bs, n, ns, op, ms, mop, b :
        bs = Blocks /\ n = dealt /\ ns = notes /\ op = open /\ ms = notes' /\ mop = open' /\ b = Blocks[dealt + 1]
  OBVIOUS
<1>3. Blocks' = bs
  BY <1>1, <1>2 DEF Blocks
<1>4. bs \in Seq(Block) /\ KeptSoFar(bs, n, ns, op) /\ n < Len(bs) /\ b = bs[n + 1]
  BY <1>1, <1>2, BlocksAre DEF ReportKept
<1>5. n \in Nat /\ ns \in Seq(Noted) /\ op \in Noted
  BY <1>4 DEF KeptSoFar
<1>6. b \in Block /\ b.head
  <2>1. n + 1 \in 1 .. Len(bs)
    BY <1>4, <1>5
  <2>. QED  BY <1>2, <1>4, <2>1 DEF NextHeading
<1>7. Heads(b) \in Noted /\ ~Heads(b).body
  BY <1>6, Parcels
<1>8. /\ ms \in Seq(Noted) /\ mop \in Noted
      /\ \A at : IsKept(ns, op, at) => IsKept(ms, mop, at)
  <2>1. CASE 5 * open.size >= 3 * Target
    <3>1. ms = Flushed(ns, op) /\ mop = Heads(b)
      BY <1>2, <2>1 DEF NextHeading
    <3>2. ms \in Seq(Noted) /\ \A at : IsKept(ns, op, at) => \E k \in DOMAIN ms : at \in ms[k].lines
      BY <1>5, <3>1, FlushKeeps
    <3>. QED  BY <1>7, <3>1, <3>2 DEF IsKept
  <2>2. CASE ~ 5 * open.size >= 3 * Target
    <3>1. ms = ns /\ mop = Plus(op, Heads(b))
      BY <1>2, <2>2 DEF NextHeading
    <3>2. mop \in Noted /\ (op.body => mop.body) /\ op.lines \subseteq mop.lines
      BY <1>5, <1>7, <3>1, PlusKeeps
    <3>. QED  BY <1>5, <3>1, <3>2 DEF IsKept
  <2>. QED  BY <2>1, <2>2
<1>9. KeptSoFar(bs, n + 1, ms, mop)
  BY <1>4, <1>6, <1>8, OneMoreBlock
<1>. QED  BY <1>1, <1>2, <1>3, <1>9 DEF ReportKept

LEMMA BlockKeeps ==
    ASSUME ReportKept, NextBlock
    PROVE  ReportKept'
<1>1. draft' = draft /\ dealt' = dealt + 1 /\ dealt < Len(Blocks)
  BY DEF NextBlock
<1>2. PICK bs, n, ns, op, ms, mop, b, head :
        /\ bs = Blocks /\ n = dealt /\ ns = notes /\ op = open /\ ms = notes' /\ mop = open'
        /\ b = Blocks[dealt + 1] /\ head = Above(dealt + 1)
  OBVIOUS
<1>3. Blocks' = bs
  BY <1>1, <1>2 DEF Blocks
<1>4. bs \in Seq(Block) /\ KeptSoFar(bs, n, ns, op) /\ n < Len(bs) /\ b = bs[n + 1]
  BY <1>1, <1>2, BlocksAre DEF ReportKept
<1>5. n \in Nat /\ ns \in Seq(Noted) /\ op \in Noted /\ n + 1 \in 1 .. Len(bs)
  BY <1>4 DEF KeptSoFar
<1>6. b \in Block /\ head \in Noted
  BY <1>2, <1>4, <1>5, AboveIs
<1>7. PICK room : room = LET left == Target - Overlap - head.size IN IF left > Target \div 2 THEN left ELSE Target \div 2
  OBVIOUS
<1>8. room \in Nat \ {0}
  <2>1. PICK T, O, z : T = Target /\ O = Overlap /\ z = head.size
    OBVIOUS
  <2>2. T \in Nat \ {0, 1} /\ O \in Nat /\ z \in Nat
    BY <1>6, <2>1, TextAssumption DEF Noted
  <2>3. room = IF T - O - z > T \div 2 THEN T - O - z ELSE T \div 2
    BY <1>7, <2>1
  <2>4. T \div 2 \in Nat /\ T \div 2 >= 1
    BY <2>2
  <2>. QED  BY <2>2, <2>3, <2>4
<1>9. PICK words \in 0 .. Overlap : LET end == Poured(b, head, words, Pieces(b, room)) IN ms = end.notes /\ mop = end.open
  BY <1>2, <1>7 DEF NextBlock
<1>10. PICK sizes : sizes = Pieces(b, room)
  OBVIOUS
<1>11. sizes \in Seq(Nat) /\ sizes # <<>>
  BY <1>6, <1>8, <1>10, PiecesAre
<1>12. PICK s, t : s = [notes |-> ns, open |-> op] /\ t = Poured(b, head, words, sizes)
  OBVIOUS
<1>13. s \in Pouring /\ words \in Nat /\ s.notes = ns /\ s.open = op
  BY <1>5, <1>12, TextAssumption DEF Pouring
<1>14. /\ t \in Pouring /\ KeepsAll(s, t)
       /\ \A at \in b.lines : IsKept(t.notes, t.open, at)
  BY <1>2, <1>6, <1>11, <1>12, <1>13, PouredKeeps
<1>15. ms = t.notes /\ mop = t.open
  BY <1>9, <1>10, <1>12
<1>16. /\ ms \in Seq(Noted) /\ mop \in Noted
       /\ \A at : IsKept(ns, op, at) => IsKept(ms, mop, at)
       /\ \A at \in b.lines : IsKept(ms, mop, at)
  BY <1>13, <1>14, <1>15 DEF Pouring, KeepsAll
<1>17. KeptSoFar(bs, n + 1, ms, mop)
  BY <1>4, <1>16, OneMoreBlock
<1>. QED  BY <1>1, <1>2, <1>3, <1>17 DEF ReportKept

LEMMA LastKeeps ==
    ASSUME ReportKept, LastChunk
    PROVE  ReportKept'
<1>1. draft' = draft /\ dealt' = dealt + 1 /\ dealt = Len(Blocks) /\ open' = Nothing
  BY DEF LastChunk
<1>2. PICK bs, n, ns, op, ms, all, k :
        bs = Blocks /\ n = dealt /\ ns = notes /\ op = open /\ ms = notes' /\ all = Flushed(notes, open) /\ k = Len(all)
  OBVIOUS
<1>3. Blocks' = bs
  BY <1>1, <1>2 DEF Blocks
<1>4. bs \in Seq(Block) /\ KeptSoFar(bs, n, ns, op) /\ n = Len(bs)
  BY <1>1, <1>2, BlocksAre DEF ReportKept
<1>5. \/ ms = all
      \/ k > 1 /\ ms = Append(SubSeq(all, 1, k - 2), Plus(all[k - 1], all[k]))
  BY <1>2 DEF LastChunk
<1>6. KeptSoFar(bs, n + 1, ms, Nothing)
  <2>1. all = Flushed(ns, op) /\ k = Len(all)
    BY <1>2
  <2>. QED  BY <1>4, <1>5, <2>1, LastIsKept
<1>. QED  BY <1>1, <1>2, <1>3, <1>6 DEF ReportKept

LEMMA ReportBegins == ASSUME ReportInit PROVE ReportKept
<1>1. PICK d \in Written : Approved(d)
  BY DEF ReportInit
<1>2. draft \in Written /\ dealt = 0 /\ open = Nothing /\ notes = <<>>
  BY <1>1 DEF Approved
<1>3. PICK bs, n, op : bs = Blocks /\ n = 0 /\ op = Nothing
  OBVIOUS
<1>4. bs \in Seq(Block)
  BY <1>2, <1>3, BlocksAre
<1>5. op \in Noted /\ ~op.body
  <2>1. {} \in SUBSET Spot
    OBVIOUS
  <2>. QED  BY <1>3, <2>1 DEF Nothing, Noted
<1>6. n <= Len(bs) + 1 /\ \A j \in DOMAIN bs : ~ j <= n
  BY <1>3, <1>4
<1>7. KeptSoFar(bs, n, <<>>, op)
  BY <1>3, <1>5, <1>6 DEF KeptSoFar
<1>. QED  BY <1>2, <1>3, <1>7 DEF ReportKept

\* A report that is dealt with has its lines in its chunks.
LEMMA ReportSays ==
    ASSUME ReportKept, dealt = Len(Blocks) + 1
    PROVE  \A p \in DOMAIN draft : \A l \in DOMAIN draft[p] :
              ~draft[p][l].head => \E k \in DOMAIN notes : <<p, l>> \in notes[k].lines
<1>1. Blocks \in Seq(Block) /\ Blocked(draft, Blocks)
  BY BlocksAre DEF ReportKept
<1>. SUFFICES ASSUME NEW p \in DOMAIN draft, NEW l \in DOMAIN draft[p], ~draft[p][l].head
              PROVE  \E k \in DOMAIN notes : <<p, l>> \in notes[k].lines
  OBVIOUS
<1>2. PICK j \in DOMAIN Blocks : ~Blocks[j].head /\ <<p, l>> \in Blocks[j].lines
  BY <1>1 DEF Blocked, InText
<1>3. j <= dealt
  BY <1>1, <1>2
<1>4. IsKept(notes, open, <<p, l>>) /\ ~open.body
  BY <1>2, <1>3 DEF ReportKept, KeptSoFar
<1>. QED  BY <1>4 DEF IsKept

\* The chunks so far leave out white space only, and what was cited from one is
\* where it says.
TextHeld ==
    /\ TextTyped /\ Covering
    /\ doc.text # <<>> => Placed(upload, doc.parts)
    /\ cited # <<>> => WhereItIs(cited[1])

\* Each step on an upload keeps that.
LEMMA UploadHolds ==
    ASSUME TextHeld, Upload
    PROVE  TextHeld'
<1>1. upload' = upload /\ spans' = spans /\ cited' = cited /\ doc.text = <<>> /\ doc' = Extract(upload)
  BY DEF Upload
<1>2. spans = <<>> /\ cited = <<>> /\ upload \in Files /\ spans \in Seq(Spanned)
  BY <1>1 DEF TextHeld, TextTyped
<1>3. PICK x, S : x = Extract(upload) /\ S = {o \in DOMAIN x.text : ~Space(x.text[o])}
  OBVIOUS
<1>4. x.text \in Seq(Letters) /\ Placed(upload, x.parts)
  BY <1>2, <1>3, ExtractPlaces
<1>5. S # {}
  BY <1>3 DEF Upload, Refused, Empty
<1>6. S \subseteq Nat /\ \A o \in S : o >= 1
  BY <1>3, <1>4
<1>7. Smallest(S) \in S
  BY <1>5, <1>6, SmallestIs
<1>8. from' = Smallest(S) - 1
  BY <1>3 DEF Upload
<1>9. from' \in Nat
  <2>1. PICK s : s = Smallest(S)
    OBVIOUS
  <2>2. s \in Nat /\ s >= 1 /\ from' = s - 1
    BY <1>6, <1>7, <1>8, <2>1
  <2>. QED  BY <2>2
<1>10. x.text # <<>>
  BY <1>3, <1>5
<1>11. doc'.text = x.text /\ doc'.parts = x.parts
  BY <1>1, <1>3
<1>12. TextTyped'
  BY <1>1, <1>2, <1>4, <1>9, <1>10, <1>11 DEF TextTyped
<1>13. Covering'
  BY <1>1, <1>2 DEF Covering, Ascending
<1>. QED  BY <1>1, <1>2, <1>4, <1>11, <1>12, <1>13 DEF TextHeld

LEMMA ChunkHolds ==
    ASSUME TextHeld, Chunk
    PROVE  TextHeld'
<1>1. upload' = upload /\ doc' = doc /\ cited' = cited /\ doc.text # <<>>
  BY DEF Chunk
<1>2. spans' \in Seq(Spanned) /\ from' \in Nat \cup {-1} /\ Covering'
  BY ChunkCovers DEF TextHeld
<1>3. TextTyped'
  BY <1>1, <1>2 DEF TextHeld, TextTyped
<1>4. WhereItIs(cited[1])' <=> WhereItIs(cited[1])
  BY <1>1 DEF WhereItIs
<1>. QED  BY <1>1, <1>2, <1>3, <1>4 DEF TextHeld

LEMMA ReadBackHolds ==
    ASSUME TextHeld, ReadBack
    PROVE  TextHeld'
<1>1. upload' = upload /\ doc' = doc /\ spans' = spans /\ from' = from
  BY DEF ReadBack
<1>2. PICK i \in DOMAIN spans : cited' = <<[span |-> spans[i], where |-> PlaceOf(spans[i])]>>
  BY DEF ReadBack
<1>3. PICK c, x : c = spans[i] /\ x = [span |-> c, where |-> PlaceOf(c)]
  OBVIOUS
<1>4. spans \in Seq(Spanned) /\ c \in Spanned /\ spans # <<>>
  BY <1>2, <1>3 DEF TextHeld, TextTyped
<1>5. doc.text # <<>> /\ Placed(upload, doc.parts)
  BY <1>4 DEF TextHeld, TextTyped
<1>6. WhereItIs(x)
  BY <1>3, <1>4, <1>5, PlaceIsWhere
<1>7. cited' = <<x>> /\ cited'[1] = x
  BY <1>2, <1>3
<1>8. WhereItIs(cited[1])'
  BY <1>1, <1>6, <1>7 DEF WhereItIs
<1>9. TextTyped'
  BY <1>1, <1>5 DEF TextHeld, TextTyped
<1>10. Covering'
  BY <1>1 DEF TextHeld, Covering
<1>. QED  BY <1>1, <1>5, <1>8, <1>9, <1>10 DEF TextHeld

\* It holds before anything is uploaded, and while a report is cut.
LEMMA TextBegins == ASSUME TextInit PROVE TextHeld
<1>1. PICK f \in Files : Given(f)
  BY DEF TextInit
<1>2. upload \in Files /\ doc.text = <<>> /\ spans = <<>> /\ from = 0 /\ cited = <<>>
  BY <1>1 DEF Given
<1>. QED  BY <1>2 DEF TextHeld, TextTyped, Covering, Ascending

LEMMA TextStaysHeld ==
    ASSUME TextHeld, UNCHANGED textVars
    PROVE  TextHeld'
<1>1. upload' = upload /\ doc' = doc /\ spans' = spans /\ from' = from /\ cited' = cited
  BY DEF textVars
<1>2. WhereItIs(cited[1])' <=> WhereItIs(cited[1])
  BY <1>1 DEF WhereItIs
<1>. QED  BY <1>1, <1>2 DEF TextHeld, TextTyped, Covering

LEMMA ReportStaysKept ==
    ASSUME ReportKept, UNCHANGED reportVars
    PROVE  ReportKept'
<1>1. draft' = draft /\ dealt' = dealt /\ open' = open /\ notes' = notes
  BY DEF reportVars
<1>. QED  BY <1>1 DEF ReportKept, Blocks

\* What is claimed of chunks and places.
LEMMA TextHeldSays == ASSUME TextHeld, ReportKept PROVE TextKeepsItsPlace
<1>1. ASSUME spans # <<>>, NEW o \in spans[1].start .. (spans[Len(spans)].end - 1), ~Space(CharAt(o))
      PROVE  \E i \in DOMAIN spans : spans[i].start <= o /\ o < spans[i].end
  <2>1. PICK a, z : a = spans[1].start /\ z = spans[Len(spans)].end
    OBVIOUS
  <2>2. a \in Nat /\ z \in Nat
    <3>1. spans \in Seq(Spanned) /\ spans # <<>>
      BY <1>1 DEF TextHeld, TextTyped
    <3>2. spans[1] \in Spanned /\ spans[Len(spans)] \in Spanned
      BY <3>1
    <3>. QED  BY <2>1, <3>2 DEF Spanned
  <2>3. o \in Nat /\ a <= o /\ o < z
    BY <1>1, <2>1, <2>2
  <2>4. NoGap(doc.text, spans, z)
    BY <1>1, <2>1 DEF TextHeld, Covering
  <2>. QED  BY <1>1, <2>1, <2>3, <2>4 DEF NoGap, Covers, CharAt, Text
<1>. QED  BY <1>1, ReportSays DEF TextKeepsItsPlace, TextHeld

\* Between two chunks of a document only white space is left out, no line of a
\* report's text is in none of its chunks, and a citation names the page, row,
\* slide, cell, chapter or sections its passage is in: for every file and report,
\* whatever the sizes of chunks (chunk_document, chunk_report, segment_label).
THEOREM TextStaysInPlace == TextSpec => []TextKeepsItsPlace
<1>. DEFINE Whole == TextHeld /\ ReportKept
<1>1. TextInit /\ ReportInit => Whole
  BY TextBegins, ReportBegins
<1>2. ASSUME Whole,
             [(TextNext /\ UNCHANGED reportVars) \/ (ReportNext /\ UNCHANGED textVars)]_<<textVars, reportVars>>
      PROVE  Whole'
  <2>1. ASSUME TextNext, UNCHANGED reportVars PROVE Whole'
    <3>1. ReportKept'
      BY <1>2, <2>1, ReportStaysKept
    <3>2. TextHeld'
      BY <1>2, <2>1, UploadHolds, ChunkHolds, ReadBackHolds DEF TextNext
    <3>. QED  BY <3>1, <3>2
  <2>2. ASSUME ReportNext, UNCHANGED textVars PROVE Whole'
    <3>1. TextHeld'
      BY <1>2, <2>2, TextStaysHeld
    <3>2. ReportKept'
      BY <1>2, <2>2, HeadingKeeps, BlockKeeps, LastKeeps DEF ReportNext
    <3>. QED  BY <3>1, <3>2
  <2>3. ASSUME UNCHANGED <<textVars, reportVars>> PROVE Whole'
    <3>1. UNCHANGED textVars /\ UNCHANGED reportVars
      BY <2>3
    <3>. QED  BY <1>2, <3>1, TextStaysHeld, ReportStaysKept
  <2>. QED  BY <1>2, <2>1, <2>2, <2>3
<1>3. Whole => TextKeepsItsPlace
  BY TextHeldSays
<1>. HIDE DEF Whole
<1>. QED  BY <1>1, <1>2, <1>3, PTL DEF TextSpec

=============================================================================
