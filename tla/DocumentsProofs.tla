--------------------------- MODULE DocumentsProofs ---------------------------
(***************************************************************************)
(* What the filing cabinet keeps, for any documents, versions, officers    *)
(* and requests: one live version of a document, and, as long as no two    *)
(* files are of one size, that version's own file under its name.          *)
(***************************************************************************)
EXTENDS Documents, FiniteSetTheorems, TLAPS

----------------------------------------------------------------------------
(* Names *)

Kept(v) == version[v] # NoVersion

\* A name is never past the number of versions filed, and the one to come
\* never past the next.
NamesOK ==
    \A v \in Version : Kept(v) =>
        /\ version[v].name <= Cardinality(Filings(version[v].doc)) + 1
        /\ version[v].state = "committed" => version[v].name <= Cardinality(Filings(version[v].doc))

TablesOK ==
    /\ version \in [Version -> VersionRow \cup {NoVersion}]
    /\ drive \in [Document -> [Name -> Version \cup {NoFile}]]

LEMMA VersionIsNone == NoVersion \notin VersionRow /\ NoVersion.state # "committed"
<1>1. \A x \in VersionRow : x.state \in {"pending", "committed", "failed"}
  BY DEF VersionRow
<1> QED
  BY <1>1 DEF NoVersion

LEMMA FilingsFinite ==
    ASSUME NEW d
    PROVE  /\ IsFiniteSet(Filings(d)) /\ Cardinality(Filings(d)) \in Nat
           /\ Cardinality(Filings(d)) <= Cardinality(Version) /\ Cardinality(Version) \in Nat
<1>1. Filings(d) \in SUBSET Version
  BY DEF Filings
<1>2. IsFiniteSet(Version)
  BY VersionAssumption
<1> QED
  BY <1>1, <1>2, FS_Subset, FS_CardinalityType

\* The next name is the one after the number of versions filed: none that was
\* filed has it.
LEMMA NextNameIs ==
    ASSUME TablesOK, NamesOK, NEW d \in Document
    PROVE  NextName(d) = Cardinality(Filings(d)) + 1 /\ NextName(d) \in Name
<1> DEFINE k == Cardinality(Filings(d))
           free == {n \in Name : n > k /\ \A v \in Filings(d) : version[v].name # n}
<1>1. k \in Nat /\ k <= Cardinality(Version) /\ Cardinality(Version) \in Nat
  BY FilingsFinite
<1>2. k + 1 \in Name /\ \A n \in Name : n \in Nat
  BY <1>1 DEF Name
<1>3. \A v \in Filings(d) : version[v].name \in Nat /\ version[v].name <= k
  BY <1>2, VersionIsNone DEF Filings, NamesOK, Kept, TablesOK, VersionRow
<1> HIDE DEF k
<1>4. k + 1 \in free
  BY <1>1, <1>2, <1>3
<1>5. \A n \in free : k + 1 <= n
  BY <1>1, <1>2
<1>6. \A n \in free : (\A y \in free : n <= y) => n = k + 1
  BY <1>1, <1>2, <1>4, <1>5
<1>7. Min(free) = CHOOSE x \in free : \A y \in free : x <= y
  BY DEF Min
<1> HIDE DEF free
<1>8. Min(free) = k + 1
  BY <1>4, <1>5, <1>6, <1>7
<1> USE DEF free, k
<1> QED
  BY <1>2, <1>8 DEF NextName

----------------------------------------------------------------------------
(* The invariant *)

\* What a request has of the version it handles.
Handling(request) ==
    request.does \in {"look", "file", "remove", "delete"} =>
        /\ request = [does |-> request.does, v |-> request.v, by |-> request.by]
        /\ request.v \in Version /\ Kept(request.v)
        /\ request.does \in {"remove", "delete"} => version[request.v].state = "committed"
        /\ request.does = "delete" => version[request.v].superseded

Deletes(request, v) == request.does = "delete" /\ request.v = v

HandsOK ==
    /\ desk = [q \in Request |-> desk[q]]
    /\ \A q \in Request : Handling(desk[q])
    /\ \A p, q \in Request, v \in Version : Deletes(desk[p], v) /\ Deletes(desk[q], v) => p = q

PapersInv == TablesOK /\ NamesOK /\ OneLiveVersion /\ HandsOK

\* A version never comes off the books: it keeps its document and its name,
\* stays committed, and superseded.
Grows ==
    \A v \in Version : Kept(v) =>
        /\ version'[v] # NoVersion
        /\ version'[v].doc = version[v].doc /\ version'[v].name = version[v].name
        /\ version[v].state = "committed" => version'[v].state = "committed"
        /\ version[v].superseded => version'[v].superseded

LEMMA HandlingStays ==
    ASSUME NEW request, Handling(request), Grows
    PROVE  Handling(request)'
BY DEF Handling, Grows, Kept

LEMMA HandsStayOK ==
    ASSUME HandsOK, Grows,
           \/ desk' = desk
           \/ \E q \in Request : \E next :
                /\ Sits(q, next) /\ Handling(next)'
                /\ \A o \in Request \ {q}, v \in Version : ~(Deletes(desk[o], v) /\ Deletes(next, v))
    PROVE  HandsOK'
<1>1. ASSUME NEW o \in Request, desk'[o] = desk[o]
      PROVE  Handling(desk[o])'
  <2>1. PICK r : r = desk[o]
    OBVIOUS
  <2>2. Handling(r)'
    BY <2>1, HandlingStays DEF HandsOK
  <2> QED
    BY <1>1, <2>1, <2>2 DEF Handling
<1>2. CASE desk' = desk
  BY <1>1, <1>2 DEF HandsOK
<1>3. CASE \E q \in Request : \E next :
             /\ Sits(q, next) /\ Handling(next)'
             /\ \A o \in Request \ {q}, v \in Version : ~(Deletes(desk[o], v) /\ Deletes(next, v))
  <2>1. PICK q \in Request : \E next :
             /\ Sits(q, next) /\ Handling(next)'
             /\ \A o \in Request \ {q}, v \in Version : ~(Deletes(desk[o], v) /\ Deletes(next, v))
    BY <1>3
  <2>2. PICK next : /\ Sits(q, next) /\ Handling(next)'
                    /\ \A o \in Request \ {q}, v \in Version : ~(Deletes(desk[o], v) /\ Deletes(next, v))
    BY <2>1
  <2>3. desk' = [o \in Request |-> desk'[o]] /\ desk'[q] = next /\ \A o \in Request \ {q} : desk'[o] = desk[o]
    BY <2>2 DEF HandsOK, Sits
  <2>4. \A o \in Request : Handling(desk[o])'
    <3>1. Handling(desk[q])'
      BY <2>2, <2>3 DEF Handling
    <3> QED
      BY <1>1, <2>3, <3>1
  <2>5. \A o, r \in Request, v \in Version : Deletes(desk'[o], v) /\ Deletes(desk'[r], v) => o = r
    BY <2>2, <2>3 DEF HandsOK
  <2> QED
    BY <2>3, <2>4, <2>5 DEF HandsOK, Deletes
<1> QED
  BY <1>2, <1>3

\* A request that has no version, or has nothing to delete.
LEMMA HandlesNothing ==
    ASSUME NEW next, next.does \notin {"look", "file", "remove", "delete"}
    PROVE  Handling(next)' /\ \A v : ~Deletes(next, v)
BY DEF Handling, Deletes

----------------------------------------------------------------------------
(* Each step *)

\* A step that writes no version.
LEMMA VersionsStay ==
    ASSUME PapersInv, version' = version, drive' \in [Document -> [Name -> Version \cup {NoFile}]],
           \/ desk' = desk
           \/ \E q \in Request : \E next :
                /\ Sits(q, next) /\ Handling(next)'
                /\ \A o \in Request \ {q}, v \in Version : ~(Deletes(desk[o], v) /\ Deletes(next, v))
    PROVE  PapersInv' /\ Grows
<1>1. Grows
  BY DEF Grows, Kept
<1>2. HandsOK'
  BY <1>1, HandsStayOK DEF PapersInv
<1>3. NamesOK' /\ OneLiveVersion' /\ TablesOK'
  BY DEF PapersInv, NamesOK, OneLiveVersion, TablesOK, Kept, LiveFilings, Filings
<1> QED
  BY <1>1, <1>2, <1>3 DEF PapersInv

\* A step that writes versions but neither files one nor makes one live.
LEMMA FilingsStay ==
    ASSUME PapersInv, Grows, version' \in [Version -> VersionRow \cup {NoVersion}],
           drive' \in [Document -> [Name -> Version \cup {NoFile}]],
           \A v \in Version :
              /\ version'[v].state = "committed" => version[v].state = "committed"
              /\ Kept(v) \/ version'[v] = version[v],
           HandsOK'
    PROVE  PapersInv'
<1>1. \A v \in Version : version[v].state = "committed" => Kept(v)
  BY VersionIsNone DEF Kept
<1>2. \A d : Filings(d)' = Filings(d)
  BY <1>1 DEF Filings, Grows
<1>3. \A d : LiveFilings(d)' \subseteq LiveFilings(d)
  BY <1>1, <1>2 DEF LiveFilings, Filings, Grows
<1>4. NamesOK'
  BY <1>2 DEF PapersInv, NamesOK, Grows, Kept
<1>5. OneLiveVersion'
  BY <1>3 DEF PapersInv, OneLiveVersion
<1> QED
  BY <1>4, <1>5 DEF PapersInv, TablesOK

LEMMA BeginUploadKeeps ==
    ASSUME PapersInv, NEW v \in Version, NEW d \in Document, NEW o \in Officer, BeginUpload(v, d, o)
    PROVE  PapersInv' /\ Grows
<1>1. PICK row : row = [doc |-> d, by |-> o, state |-> "pending", name |-> NextName(d),
                        superseded |-> FALSE, sent |-> FALSE]
  OBVIOUS
<1>2. NextName(d) = Cardinality(Filings(d)) + 1 /\ NextName(d) \in Name
  BY NextNameIs DEF PapersInv
<1>3. row \in VersionRow /\ row # NoVersion
  <2>1. row \in VersionRow
    BY <1>1, <1>2 DEF VersionRow
  <2> QED
    BY <2>1, VersionIsNone
<1>4. /\ version'[v] = row /\ \A w \in Version : w # v => version'[w] = version[w]
      /\ version' \in [Version -> VersionRow \cup {NoVersion}] /\ version[v] = NoVersion
  BY <1>1, <1>3 DEF BeginUpload, PapersInv, TablesOK
<1>5. Grows
  BY <1>4 DEF Grows, Kept
<1>6. \A e : Filings(e)' = Filings(e) /\ LiveFilings(e)' = LiveFilings(e)
  BY <1>1, <1>4, VersionIsNone DEF Filings, LiveFilings
<1>7. NamesOK'
  <2> SUFFICES ASSUME NEW w \in Version, version'[w] # NoVersion
               PROVE  /\ version'[w].name <= Cardinality(Filings(version'[w].doc)) + 1
                      /\ version'[w].state = "committed" => version'[w].name <= Cardinality(Filings(version'[w].doc))
    BY <1>6 DEF NamesOK, Kept
  <2>1. CASE w = v
    BY <1>1, <1>2, <1>4, <2>1, FilingsFinite
  <2>2. CASE w # v
    BY <1>4, <2>2 DEF PapersInv, NamesOK, Kept
  <2> QED
    BY <2>1, <2>2
<1>8. OneLiveVersion'
  BY <1>6 DEF PapersInv, OneLiveVersion
<1>9. HandsOK'
  BY <1>5, HandsStayOK DEF PapersInv, BeginUpload
<1> QED
  BY <1>4, <1>5, <1>7, <1>8, <1>9 DEF PapersInv, TablesOK, BeginUpload

LEMMA ArrivesKeeps ==
    ASSUME PapersInv, NEW v \in Version, Arrives(v)
    PROVE  PapersInv' /\ Grows
<1>1. version[v] \in VersionRow
  BY DEF Arrives, PapersInv, TablesOK
<1>2. PICK row : row = [version[v] EXCEPT !.sent = TRUE]
  OBVIOUS
<1>3. /\ row \in VersionRow /\ row.doc = version[v].doc /\ row.name = version[v].name
      /\ row.state = version[v].state /\ row.superseded = version[v].superseded
  BY <1>1, <1>2 DEF VersionRow
<1>4. /\ version'[v] = row /\ \A w \in Version : w # v => version'[w] = version[w]
      /\ version' \in [Version -> VersionRow \cup {NoVersion}]
  BY <1>2, <1>3 DEF Arrives, PapersInv, TablesOK
<1>5. Grows
  BY <1>3, <1>4, VersionIsNone DEF Grows, Kept
<1>6. drive' \in [Document -> [Name -> Version \cup {NoFile}]]
  BY DEF Arrives, PapersInv, TablesOK
<1>7. HandsOK'
  BY <1>5, HandsStayOK DEF PapersInv, Arrives
<1> QED
  BY <1>3, <1>4, <1>5, <1>6, <1>7, FilingsStay DEF Arrives, Kept

LEMMA BeginCommitKeeps ==
    ASSUME PapersInv, NEW q \in Request, NEW v \in Version, BeginCommit(q, v)
    PROVE  PapersInv' /\ Grows
<1>1. PICK next : next = [does |-> "look", v |-> v, by |-> version[v].by] /\ Sits(q, next)
  BY DEF BeginCommit
<1>2. Kept(v)
  BY DEF BeginCommit, Kept, NoVersion
<1>3. version' = version /\ drive' = drive
  BY DEF BeginCommit, papers
<1>4. Handling(next)'
  BY <1>1, <1>2, <1>3 DEF Handling, Kept
<1>5. \A w : ~Deletes(next, w)
  BY <1>1 DEF Deletes
<1> QED
  BY <1>1, <1>3, <1>4, <1>5, VersionsStay DEF PapersInv, TablesOK

LEMMA LookKeeps ==
    ASSUME PapersInv, NEW q \in Request, Look(q)
    PROVE  PapersInv' /\ Grows
<1> DEFINE v == desk[q].v
<1>1. /\ desk[q] = [does |-> "look", v |-> v, by |-> desk[q].by] /\ v \in Version /\ Kept(v)
      /\ version[v] \in VersionRow
  BY DEF Look, PapersInv, HandsOK, Handling, TablesOK, Kept
<1>2. CASE Sits(q, [desk[q] EXCEPT !.does = "file"]) /\ UNCHANGED version
  <2>1. PICK next : next = [desk[q] EXCEPT !.does = "file"] /\ Sits(q, next)
    BY <1>2
  <2>2. next = [does |-> "file", v |-> v, by |-> desk[q].by]
    BY <1>1, <2>1
  <2>3. Handling(next)' /\ \A w : ~Deletes(next, w)
    BY <1>1, <1>2, <2>2 DEF Handling, Kept, Deletes
  <2> QED
    BY <1>2, <2>1, <2>3, VersionsStay DEF Look, PapersInv, TablesOK
<1>3. CASE Sits(q, Idle) /\ version' = [version EXCEPT ![v].state = IF @ = "pending" THEN "failed" ELSE @]
  <2>1. PICK row : row = [version[v] EXCEPT !.state = IF @ = "pending" THEN "failed" ELSE @]
    OBVIOUS
  <2>2. /\ row \in VersionRow /\ row.doc = version[v].doc /\ row.name = version[v].name
        /\ row.state = "committed" <=> version[v].state = "committed"
        /\ row.superseded = version[v].superseded
    BY <1>1, <2>1 DEF VersionRow
  <2>3. /\ version'[v] = row /\ \A w \in Version : w # v => version'[w] = version[w]
        /\ version' \in [Version -> VersionRow \cup {NoVersion}]
    BY <1>1, <1>3, <2>1, <2>2 DEF PapersInv, TablesOK
  <2>4. Grows
    BY <1>1, <2>2, <2>3, VersionIsNone DEF Grows, Kept
  <2>5. HandsOK'
    BY <1>3, <2>4, HandlesNothing, HandsStayOK DEF PapersInv, Idle
  <2> QED
    BY <1>1, <2>2, <2>3, <2>4, <2>5, FilingsStay DEF Look, PapersInv, TablesOK
<1> QED
  BY <1>2, <1>3 DEF Look

\* What is filed is live, and nothing else of its document.
LEMMA CommitUploadKeeps ==
    ASSUME PapersInv, NEW q \in Request, CommitUpload(q), NEW v, v = desk[q].v, NEW d, d = version[v].doc
    PROVE  /\ PapersInv' /\ Grows
           /\ LiveFilings(d)' \subseteq {v}
           /\ \A e : e # d => LiveFilings(e)' = LiveFilings(e)
<1>1. v \in Version /\ Kept(v) /\ version[v] \in VersionRow
  BY DEF CommitUpload, PapersInv, HandsOK, Handling, TablesOK, Kept
<1>2. PICK row : row = [version[v] EXCEPT !.state = "committed"]
  OBVIOUS
<1>3. /\ row \in VersionRow /\ row.doc = d /\ row.name = version[v].name
      /\ row.state = "committed" /\ row.superseded = version[v].superseded
  BY <1>1, <1>2 DEF VersionRow
<1>4. ASSUME NEW w \in Version, w # v
      PROVE  /\ version'[w] \in VersionRow \cup {NoVersion}
             /\ w \in LiveFilings(d) =>
                  /\ version'[w].superseded /\ version'[w].state = "committed" /\ version'[w].doc = d
                  /\ version'[w].name = version[w].name /\ Kept(w) /\ version'[w] # NoVersion
             /\ w \notin LiveFilings(d) => version'[w] = version[w]
  <2>1. CASE w \in LiveFilings(d)
    <3>1. Kept(w) /\ version[w].doc = d /\ version[w].state = "committed"
      BY <2>1, VersionIsNone DEF LiveFilings, Filings, Kept
    <3>2. version[w] \in VersionRow
      BY <3>1 DEF PapersInv, TablesOK, Kept
    <3>3. version'[w] = [version[w] EXCEPT !.superseded = TRUE]
      BY <1>4, <2>1 DEF CommitUpload, Supersedes
    <3>4. /\ version'[w] \in VersionRow /\ version'[w].superseded /\ version'[w].state = "committed"
          /\ version'[w].doc = d /\ version'[w].name = version[w].name
      BY <3>1, <3>2, <3>3 DEF VersionRow
    <3> QED
      BY <2>1, <3>1, <3>4, VersionIsNone
  <2>2. CASE w \notin LiveFilings(d)
    BY <1>4, <2>2 DEF CommitUpload, Supersedes, PapersInv, TablesOK
  <2> QED
    BY <2>1, <2>2
<1>5. version'[v] = row /\ version' = [w \in Version |-> version'[w]]
  BY <1>1, <1>2 DEF CommitUpload, Supersedes
<1>6. version' \in [Version -> VersionRow \cup {NoVersion}]
  BY <1>3, <1>4, <1>5
<1>7. Grows
  <2> SUFFICES ASSUME NEW w \in Version, Kept(w)
               PROVE  /\ version'[w] # NoVersion
                      /\ version'[w].doc = version[w].doc /\ version'[w].name = version[w].name
                      /\ version[w].state = "committed" => version'[w].state = "committed"
                      /\ version[w].superseded => version'[w].superseded
    BY DEF Grows
  <2>1. CASE w = v
    BY <1>3, <1>5, <2>1, VersionIsNone
  <2>2. CASE w # v /\ w \in LiveFilings(d)
    <3>1. version[w].doc = d
      BY <2>2 DEF LiveFilings, Filings
    <3> QED
      BY <1>4, <2>2, <3>1
  <2>3. CASE w # v /\ w \notin LiveFilings(d)
    BY <1>4, <2>3 DEF Kept
  <2> QED
    BY <2>1, <2>2, <2>3
<1>8. \A w \in Version : w # v => (version'[w].state = "committed" /\ version'[w].doc = d) <=> w \in Filings(d)
  BY <1>4 DEF LiveFilings, Filings
<1>9. Filings(d)' = Filings(d) \cup {v}
  BY <1>1, <1>3, <1>5, <1>8 DEF Filings
<1>10. \A e : e # d => Filings(e)' = Filings(e) /\ LiveFilings(e)' = LiveFilings(e)
  <2> SUFFICES ASSUME NEW e, e # d
               PROVE  Filings(e)' = Filings(e) /\ LiveFilings(e)' = LiveFilings(e)
    OBVIOUS
  <2>1. version[v].doc # e /\ version'[v].doc # e
    BY <1>3, <1>5
  <2>2. \A w \in Version : w # v => (version'[w] = version[w] \/ (version[w].doc = d /\ version'[w].doc = d))
    BY <1>4 DEF LiveFilings, Filings
  <2> QED
    BY <2>1, <2>2 DEF Filings, LiveFilings
<1>11. LiveFilings(d)' \subseteq {v}
  BY <1>4, <1>9 DEF LiveFilings, Filings
<1>12. OneLiveVersion'
  BY <1>10, <1>11 DEF PapersInv, OneLiveVersion
<1>13. /\ Cardinality(Filings(d)) \in Nat /\ IsFiniteSet(Filings(d))
       /\ Cardinality(Filings(d)') = IF v \in Filings(d) THEN Cardinality(Filings(d)) ELSE Cardinality(Filings(d)) + 1
  <2>1. PICK S : S = Filings(d)
    OBVIOUS
  <2>2. IsFiniteSet(S) /\ Cardinality(S) \in Nat
    BY <2>1, FilingsFinite
  <2>3. Cardinality(S \cup {v}) = IF v \in S THEN Cardinality(S) ELSE Cardinality(S) + 1
    BY <2>2, FS_AddElement
  <2> QED
    BY <1>9, <2>1, <2>2, <2>3
<1>14. NamesOK'
  <2> SUFFICES ASSUME NEW w \in Version, version'[w] # NoVersion
               PROVE  /\ version'[w].name <= Cardinality(Filings(version[w].doc)') + 1
                      /\ version'[w].state = "committed" =>
                           version'[w].name <= Cardinality(Filings(version[w].doc)')
    BY DEF NamesOK, Kept
  <2>0. Kept(w) /\ version'[w].doc = version[w].doc /\ version'[w].name = version[w].name /\ version[w].name \in Nat
    <3>1. Kept(w)
      BY <1>1, <1>4 DEF Kept
    <3>2. version[w] \in VersionRow /\ \A n \in Name : n \in Nat
      BY <3>1 DEF PapersInv, TablesOK, Kept, Name
    <3> QED
      BY <1>7, <3>1, <3>2 DEF Grows, VersionRow
  <2>1. CASE version[w].doc # d
    <3>1. PICK e : e = version[w].doc
      OBVIOUS
    <3>2. version'[w] = version[w] /\ Filings(e)' = Filings(e)
      BY <1>4, <1>10, <2>1, <3>1 DEF LiveFilings, Filings
    <3> QED
      BY <2>0, <3>1, <3>2 DEF PapersInv, NamesOK
  <2>2. CASE version[w].doc = d /\ w # v
    <3>1. version'[w].state = "committed" => version[w].state = "committed"
      BY <1>8, <2>0, <2>2 DEF Filings
    <3> QED
      BY <1>7, <1>13, <2>0, <2>2, <3>1 DEF PapersInv, NamesOK, Grows
  <2>3. CASE w = v
    <3>1. v \in Filings(d) => version[v].state = "committed"
      BY DEF Filings
    <3> QED
      BY <1>13, <2>0, <2>3, <3>1 DEF PapersInv, NamesOK
  <2> QED
    BY <2>1, <2>2, <2>3
<1>15. HandsOK'
  BY <1>7, HandlesNothing, HandsStayOK DEF PapersInv, CommitUpload, Idle
<1> QED
  BY <1>6, <1>7, <1>10, <1>11, <1>12, <1>14, <1>15 DEF PapersInv, TablesOK, CommitUpload

LEMMA BeginRemoveKeeps ==
    ASSUME PapersInv, NEW q \in Request, NEW d \in Document, NEW o \in Officer, BeginRemove(q, d, o)
    PROVE  PapersInv' /\ Grows
<1>1. PICK v \in LiveFilings(d) : Sits(q, [does |-> "remove", v |-> v, by |-> o])
  BY DEF BeginRemove
<1>2. PICK next : next = [does |-> "remove", v |-> v, by |-> o] /\ Sits(q, next)
  BY <1>1
<1>3. v \in Version /\ version[v].state = "committed" /\ Kept(v)
  BY VersionIsNone DEF LiveFilings, Filings, Kept
<1>4. version' = version /\ drive' = drive
  BY DEF BeginRemove, papers
<1>5. Handling(next)'
  BY <1>2, <1>3, <1>4 DEF Handling, Kept
<1>6. \A w : ~Deletes(next, w)
  BY <1>2 DEF Deletes
<1> QED
  BY <1>2, <1>4, <1>5, <1>6, VersionsStay DEF PapersInv, TablesOK

LEMMA CommitRemoveKeeps ==
    ASSUME PapersInv, NEW q \in Request, CommitRemove(q)
    PROVE  PapersInv' /\ Grows
<1> DEFINE v == desk[q].v
<1>1. /\ desk[q] = [does |-> "remove", v |-> v, by |-> desk[q].by] /\ v \in Version /\ Kept(v)
      /\ version[v] \in VersionRow /\ version[v].state = "committed" /\ ~version[v].superseded
  BY DEF CommitRemove, PapersInv, HandsOK, Handling, TablesOK, Kept
<1>2. PICK row : row = [version[v] EXCEPT !.superseded = TRUE]
  OBVIOUS
<1>3. /\ row \in VersionRow /\ row.doc = version[v].doc /\ row.name = version[v].name
      /\ row.state = version[v].state /\ row.superseded
  BY <1>1, <1>2 DEF VersionRow
<1>4. /\ version'[v] = row /\ \A w \in Version : w # v => version'[w] = version[w]
      /\ version' \in [Version -> VersionRow \cup {NoVersion}]
  BY <1>1, <1>2, <1>3 DEF CommitRemove, PapersInv, TablesOK
<1>5. Grows
  BY <1>3, <1>4, VersionIsNone DEF Grows, Kept
<1>6. PICK next : next = [desk[q] EXCEPT !.does = "delete"] /\ Sits(q, next)
  BY DEF CommitRemove
<1>7. next = [does |-> "delete", v |-> v, by |-> desk[q].by]
  BY <1>1, <1>6
<1>8. Handling(next)'
  BY <1>1, <1>3, <1>4, <1>7, VersionIsNone DEF Handling, Kept
<1>9. \A p \in Request, w \in Version : ~(Deletes(desk[p], w) /\ Deletes(next, w))
  BY <1>1, <1>7 DEF Deletes, PapersInv, HandsOK, Handling
<1>10. HandsOK'
  BY <1>5, <1>6, <1>8, <1>9, HandsStayOK DEF PapersInv
<1> QED
  BY <1>1, <1>3, <1>4, <1>5, <1>10, FilingsStay DEF CommitRemove, PapersInv, TablesOK

LEMMA DeleteFileKeeps ==
    ASSUME PapersInv, NEW q \in Request, DeleteFile(q)
    PROVE  PapersInv' /\ Grows
<1>1. drive' \in [Document -> [Name -> Version \cup {NoFile}]]
  BY DEF DeleteFile, PapersInv, TablesOK
<1>2. PICK next : next = Idle /\ Sits(q, next)
  BY DEF DeleteFile
<1>3. Handling(next)' /\ \A w : ~Deletes(next, w)
  BY <1>2, HandlesNothing DEF Idle
<1> QED
  BY <1>1, <1>2, <1>3, VersionsStay DEF DeleteFile

LEMMA CheckKeeps ==
    ASSUME PapersInv, NEW q \in Request,
           \/ CommitCheck(q)
           \/ \E d \in Document, o \in Officer, verdict \in {"verified", "rejected"} : BeginCheck(q, d, o, verdict)
           \/ Dies(q) /\ UNCHANGED <<status, papers>>
    PROVE  PapersInv' /\ Grows
<1>1. version' = version /\ drive' = drive
  BY DEF CommitCheck, BeginCheck, papers
<1>2. \E next : Sits(q, next) /\ next.does \notin {"look", "file", "remove", "delete"}
  <2>1. CASE CommitCheck(q) \/ Dies(q)
    BY <2>1 DEF CommitCheck, Dies, Idle
  <2>2. CASE \E d \in Document, o \in Officer, verdict \in {"verified", "rejected"} : BeginCheck(q, d, o, verdict)
    <3>1. PICK d \in Document, o \in Officer, verdict \in {"verified", "rejected"} : BeginCheck(q, d, o, verdict)
      BY <2>2
    <3>2. PICK next : next = [does |-> "check", doc |-> d, by |-> o, verdict |-> verdict] /\ Sits(q, next)
      BY <3>1 DEF BeginCheck
    <3> QED
      BY <3>2
  <2> QED
    BY <2>1, <2>2
<1>3. PICK next : Sits(q, next) /\ next.does \notin {"look", "file", "remove", "delete"}
  BY <1>2
<1>4. Handling(next)' /\ \A w : ~Deletes(next, w)
  BY <1>3, HandlesNothing
<1> QED
  BY <1>1, <1>3, <1>4, VersionsStay DEF PapersInv, TablesOK

LEMMA NobodySitsKeeps ==
    ASSUME PapersInv,
           \/ \E d \in Document : Expire(d)
           \/ \E a \in Application : Submits(a) \/ Returns(a)
    PROVE  PapersInv' /\ Grows
<1>1. version' = version /\ drive' = drive /\ desk' = desk
  BY DEF Expire, Submits, Returns, papers
<1> QED
  BY <1>1, VersionsStay DEF PapersInv, TablesOK

LEMMA PapersStepKeeps ==
    ASSUME PapersInv, [PapersNext]_paperVars
    PROVE  PapersInv' /\ Grows
<1>1. CASE PaperStep
  BY <1>1, BeginUploadKeeps, ArrivesKeeps, BeginCommitKeeps, LookKeeps, CommitUploadKeeps, CommitRemoveKeeps,
     DeleteFileKeeps, CheckKeeps, BeginRemoveKeeps, NobodySitsKeeps DEF PaperStep
<1>2. CASE \E a \in Application : Submits(a) \/ Returns(a)
  BY <1>2, NobodySitsKeeps
<1>3. CASE \E q \in Request : Dies(q) /\ UNCHANGED <<status, papers>>
  BY <1>3, CheckKeeps
<1>4. CASE UNCHANGED paperVars
  <2>1. version' = version /\ drive' = drive /\ desk' = desk
    BY <1>4 DEF paperVars, papers
  <2> QED
    BY <2>1, VersionsStay DEF PapersInv, TablesOK
<1> QED
  BY <1>1, <1>2, <1>3, <1>4 DEF PapersNext

LEMMA NothingFiled ==
    ASSUME NoPapers, desk = [q \in Request |-> Idle]
    PROVE  PapersInv /\ \A v \in Version : ~Kept(v)
<1>1. TablesOK
  BY DEF NoPapers, TablesOK
<1>2. \A v \in Version : ~Kept(v) /\ version[v].state # "committed"
  BY VersionIsNone DEF NoPapers, Kept
<1>3. NamesOK /\ OneLiveVersion
  BY <1>2 DEF NamesOK, OneLiveVersion, LiveFilings, Filings
<1>4. HandsOK
  BY DEF HandsOK, Handling, Deletes, Idle
<1> QED
  BY <1>1, <1>2, <1>3, <1>4 DEF PapersInv

LEMMA PapersStart == PapersInit => PapersInv
BY NothingFiled DEF PapersInit

\* The tables keep their types, no name runs past the count of what was
\* filed, a document has one live version, and no two requests delete the
\* file of one version, whatever uploads, removals and verdicts are under way
\* together (documents.ts).
THEOREM PapersStayInOrder == PapersSpec => []PapersInv
<1>1. PapersInit => PapersInv
  BY PapersStart
<1>2. PapersInv /\ [PapersNext]_paperVars => PapersInv'
  BY PapersStepKeeps
<1> QED
  BY <1>1, <1>2, PTL DEF PapersSpec

\* A document has one live version at most, for any number of uploads of it
\* ending together (documents.ts, commitUpload).
THEOREM OneVersionIsLive == PapersSpec => []OneLiveVersion
<1>1. PapersInv => OneLiveVersion
  BY DEF PapersInv
<1> QED
  BY <1>1, PapersStayInOrder, PTL

----------------------------------------------------------------------------
(* The file under the name.  No two files are of one size: the code tells  *)
(* them apart by nothing else.                                             *)

SizesDiffer == \A v, w \in Version : Size[v] = Size[w] => v = w

\* Whose bytes must be under their name: a live version's, those an upload
\* has found and is about to file, and those a removal is about to delete.
Claims(v) ==
    /\ Kept(v)
    /\ \/ version[v].state = "committed" /\ ~version[v].superseded
       \/ \E q \in Request : desk[q].does = "file" /\ desk[q].v = v /\ ~version[v].superseded
       \/ \E q \in Request : Deletes(desk[q], v)

Under(v) == drive[version[v].doc][version[v].name]

Anchors == \A v \in Version : Claims(v) => Under(v) = v

LEMMA SlotsTyped ==
    ASSUME TablesOK, NEW v \in Version, Kept(v)
    PROVE  version[v] \in VersionRow /\ version[v].doc \in Document /\ version[v].name \in Name
BY DEF TablesOK, Kept, VersionRow

\* A step that takes nothing off the drive, and claims nothing new.
LEMMA AnchorsStay ==
    ASSUME PapersInv, Grows, Anchors,
           \A v \in Version : Claims(v)' => Claims(v),
           \A d \in Document, n \in Name : drive[d][n] # NoFile => drive'[d][n] = drive[d][n]
    PROVE  Anchors'
<1> SUFFICES ASSUME NEW v \in Version, Claims(v)'
             PROVE  drive'[version'[v].doc][version'[v].name] = v
  BY DEF Anchors, Under
<1>1. Claims(v) /\ Kept(v)
  BY DEF Claims
<1>2. Under(v) = v /\ v # NoFile
  BY <1>1, VersionAssumption DEF Anchors
<1>3. version'[v].doc = version[v].doc /\ version'[v].name = version[v].name
  BY <1>1 DEF Grows
<1> QED
  BY <1>1, <1>2, <1>3, SlotsTyped DEF PapersInv, Under

\* A step that keeps the live versions and the drive as they are, and at
\* whose end one request at most holds something else, nothing to file or
\* to delete.
LEMMA AnchorsUndisturbed ==
    ASSUME PapersInv, Grows, Anchors,
           \A v \in Version : version'[v].state = "committed" /\ ~version'[v].superseded =>
               version[v].state = "committed" /\ ~version[v].superseded /\ Kept(v),
           \A d \in Document, n \in Name : drive[d][n] # NoFile => drive'[d][n] = drive[d][n],
           \/ desk' = desk
           \/ \E q \in Request : \E next : Sits(q, next) /\ next.does \notin {"file", "delete"}
    PROVE  Anchors'
<1>1. \A o \in Request : desk'[o] = desk[o] \/ desk'[o].does \notin {"file", "delete"}
  BY DEF PapersInv, HandsOK, Sits
<1>2. ASSUME NEW o \in Request, desk'[o].does \in {"file", "delete"}
      PROVE  desk[o] = desk'[o] /\ Kept(desk[o].v)
  BY <1>1, <1>2 DEF PapersInv, HandsOK, Handling
<1>3. \A v \in Version : Claims(v)' => Claims(v)
  BY <1>2 DEF Claims, Deletes, Grows
<1> QED
  BY <1>3, AnchorsStay

LEMMA LookAnchors ==
    ASSUME SizesDiffer, PapersInv, Anchors, Grows, NEW q \in Request, Look(q)
    PROVE  Anchors'
<1>1. PICK v : v = desk[q].v
  OBVIOUS
<1>2. v \in Version /\ Kept(v) /\ desk[q] = [does |-> "look", v |-> v, by |-> desk[q].by]
  BY <1>1 DEF Look, PapersInv, HandsOK, Handling
<1>3. drive' = drive
  BY DEF Look
<1>4. CASE Found(v) /\ Sits(q, [desk[q] EXCEPT !.does = "file"]) /\ UNCHANGED version
  <2>1. Under(v) = v
    <3>1. Under(v) \in Version \cup {NoFile}
      BY <1>2, SlotsTyped DEF PapersInv, TablesOK, Under
    <3> QED
      BY <1>2, <1>4, <3>1 DEF Found, Under, SizesDiffer
  <2>2. ASSUME NEW o \in Request, o # q
        PROVE  desk'[o] = desk[o]
    BY <1>4, <2>2 DEF PapersInv, HandsOK, Sits
  <2>3. desk'[q] = [does |-> "file", v |-> v, by |-> desk[q].by]
    BY <1>2, <1>4 DEF PapersInv, HandsOK, Sits
  <2>4. \A w \in Version : w # v /\ Claims(w)' => Claims(w)
    BY <1>4, <2>2, <2>3 DEF Claims, Kept, Deletes
  <2> QED
    BY <1>3, <1>4, <2>1, <2>4 DEF Anchors, Under
<1>5. CASE /\ Sits(q, Idle)
           /\ version' = [version EXCEPT ![v].state = IF @ = "pending" THEN "failed" ELSE @]
  <2>1. version[v] \in VersionRow
    BY <1>2, SlotsTyped DEF PapersInv
  <2>2. PICK row : row = [version[v] EXCEPT !.state = IF @ = "pending" THEN "failed" ELSE @]
    OBVIOUS
  <2>3. (row.state = "committed" <=> version[v].state = "committed") /\ row.superseded = version[v].superseded
    BY <2>1, <2>2 DEF VersionRow
  <2>4. version'[v] = row /\ \A w \in Version : w # v => version'[w] = version[w]
    BY <1>2, <1>5, <2>2 DEF PapersInv, TablesOK
  <2>5. \A w \in Version : version'[w].state = "committed" /\ ~version'[w].superseded =>
                           version[w].state = "committed" /\ ~version[w].superseded /\ Kept(w)
    BY <1>2, <2>3, <2>4, VersionIsNone DEF Kept
  <2>6. PICK next : next = Idle /\ Sits(q, next)
    BY <1>5
  <2>7. next.does \notin {"file", "delete"}
    BY <2>6 DEF Idle
  <2> QED
    BY <1>3, <2>5, <2>6, <2>7, AnchorsUndisturbed
<1> QED
  BY <1>1, <1>4, <1>5 DEF Look

\* What was found is filed; what it supersedes is claimed no more.
LEMMA CommitUploadAnchors ==
    ASSUME PapersInv, Anchors, NEW q \in Request, CommitUpload(q)
    PROVE  Anchors'
<1>1. PICK v : v = desk[q].v
  OBVIOUS
<1>2. v \in Version /\ Kept(v) /\ desk[q].does = "file"
  BY <1>1 DEF CommitUpload, PapersInv, HandsOK, Handling
<1>3. PICK d : d = version[v].doc
  OBVIOUS
<1>4. Grows /\ LiveFilings(d)' \subseteq {v} /\ \A e : e # d => LiveFilings(e)' = LiveFilings(e)
  BY <1>1, <1>3, CommitUploadKeeps
<1>5. drive' = drive
  BY DEF CommitUpload
<1>6. \A o \in Request : desk'[o] = desk[o] \/ desk'[o].does \notin {"file", "delete"}
  BY DEF CommitUpload, PapersInv, HandsOK, Sits, Idle
<1>7. ASSUME NEW w \in Version, version'[w].state = "committed", ~version'[w].superseded
      PROVE  Claims(w)
  <2>1. PICK e : e = version'[w].doc
    OBVIOUS
  <2>2. w \in LiveFilings(e)'
    BY <1>7, <2>1 DEF LiveFilings, Filings
  <2>3. CASE w = v
    BY <1>1, <1>2, <1>4, <1>7, <2>3 DEF Claims, Grows
  <2>4. CASE w # v
    <3>1. w \in LiveFilings(e)
      BY <1>4, <2>2, <2>4
    <3> QED
      BY <3>1, VersionIsNone DEF LiveFilings, Filings, Claims, Kept
  <2> QED
    BY <2>3, <2>4
<1>8. ASSUME NEW o \in Request, desk'[o].does \in {"file", "delete"}
      PROVE  desk[o] = desk'[o] /\ Kept(desk[o].v)
  BY <1>6, <1>8 DEF PapersInv, HandsOK, Handling
<1>9. \A w \in Version : Claims(w)' => Claims(w)
  <2> SUFFICES ASSUME NEW w \in Version, Claims(w)'
               PROVE  Claims(w)
    OBVIOUS
  <2>1. CASE version'[w].state = "committed" /\ ~version'[w].superseded
    BY <1>7, <2>1
  <2>2. CASE \E o \in Request : desk'[o].does = "file" /\ desk'[o].v = w /\ ~version'[w].superseded
    BY <1>4, <1>8, <2>2 DEF Claims, Grows
  <2>3. CASE \E o \in Request : Deletes(desk'[o], w)
    BY <1>8, <2>3 DEF Claims, Deletes
  <2> QED
    BY <2>1, <2>2, <2>3 DEF Claims
<1> QED
  BY <1>4, <1>5, <1>9, AnchorsStay

LEMMA CommitRemoveAnchors ==
    ASSUME PapersInv, Anchors, Grows, NEW q \in Request, CommitRemove(q)
    PROVE  Anchors'
<1>1. PICK v : v = desk[q].v
  OBVIOUS
<1>2. /\ desk[q] = [does |-> "remove", v |-> v, by |-> desk[q].by] /\ v \in Version /\ Kept(v)
      /\ version[v].state = "committed" /\ ~version[v].superseded
  BY <1>1 DEF CommitRemove, PapersInv, HandsOK, Handling
<1>3. Claims(v)
  BY <1>2 DEF Claims
<1>4. drive' = drive /\ \A w \in Version : w # v => version'[w] = version[w]
  BY <1>1, <1>2 DEF CommitRemove, PapersInv, TablesOK
<1>5. desk'[q] = [does |-> "delete", v |-> v, by |-> desk[q].by] /\ \A o \in Request : o # q => desk'[o] = desk[o]
  BY <1>1, <1>2 DEF CommitRemove, PapersInv, HandsOK, Sits
<1>6. \A w \in Version : w # v /\ Claims(w)' => Claims(w)
  BY <1>4, <1>5 DEF Claims, Deletes, Kept
<1> QED
  BY <1>3, <1>4, <1>6, AnchorsStay

\* The name a file goes from was claimed by nothing else: what claims it is
\* what lies under it.
LEMMA DeleteFileAnchors ==
    ASSUME PapersInv, Anchors, NEW q \in Request, DeleteFile(q)
    PROVE  Anchors'
<1>1. PICK v : v = desk[q].v
  OBVIOUS
<1>2. desk[q].does = "delete" /\ v \in Version /\ Kept(v) /\ version[v].superseded
  BY <1>1 DEF DeleteFile, PapersInv, HandsOK, Handling
<1>3. Claims(v) /\ Under(v) = v
  BY <1>1, <1>2 DEF Claims, Deletes, Anchors
<1>4. version' = version
  BY DEF DeleteFile
<1>5. /\ \A o \in Request : o # q => desk'[o] = desk[o]
      /\ desk'[q].does \notin {"file", "delete"}
  BY DEF DeleteFile, PapersInv, HandsOK, Sits, Idle
<1>6. ASSUME NEW w \in Version, Claims(w)'
      PROVE  Claims(w) /\ w # v
  <2>1. Claims(w)
    BY <1>4, <1>5, <1>6 DEF Claims, Deletes, Kept
  <2>2. w # v
    <3>1. SUFFICES ASSUME w = v PROVE FALSE
      OBVIOUS
    <3>2. PICK o \in Request : Deletes(desk'[o], v)
      BY <1>2, <1>4, <1>6, <3>1 DEF Claims
    <3>3. o # q /\ Deletes(desk[o], v)
      BY <1>5, <3>2 DEF Deletes
    <3> QED
      BY <1>1, <1>2, <3>3 DEF PapersInv, HandsOK, Deletes
  <2> QED
    BY <2>1, <2>2
<1>7. ASSUME NEW w \in Version, Claims(w)'
      PROVE  drive'[version[w].doc][version[w].name] = w
  <2>1. Under(w) = w /\ Kept(w)
    BY <1>6, <1>7 DEF Anchors, Claims
  <2>2. version[w].doc # version[v].doc \/ version[w].name # version[v].name
    BY <1>3, <1>6, <1>7, <2>1 DEF Under
  <2>3. /\ version[w].doc \in Document /\ version[w].name \in Name
        /\ version[v].doc \in Document /\ version[v].name \in Name
    BY <1>2, <2>1, SlotsTyped DEF PapersInv
  <2>4. drive'[version[w].doc][version[w].name] = drive[version[w].doc][version[w].name]
    BY <1>1, <2>2, <2>3 DEF DeleteFile, PapersInv, TablesOK
  <2> QED
    BY <2>1, <2>4 DEF Under
<1> QED
  BY <1>4, <1>7 DEF Anchors, Under

LEMMA AnchorsStepKeeps ==
    ASSUME SizesDiffer, PapersInv, Anchors, [PapersNext]_paperVars
    PROVE  Anchors'
<1>0. Grows
  BY PapersStepKeeps
<1>1. \A v \in Version : version[v].state = "committed" => Kept(v)
  BY VersionIsNone DEF Kept
<1>2. ASSUME NEW v \in Version, NEW d \in Document, NEW o \in Officer, BeginUpload(v, d, o)
      PROVE  Anchors'
  <2>1. PICK row : /\ row = [doc |-> d, by |-> o, state |-> "pending", name |-> NextName(d),
                              superseded |-> FALSE, sent |-> FALSE]
    OBVIOUS
  <2>2. version'[v] = row /\ \A w \in Version : w # v => version'[w] = version[w]
    BY <1>2, <2>1 DEF BeginUpload, PapersInv, TablesOK
  <2> QED
    BY <1>0, <1>1, <1>2, <2>1, <2>2, AnchorsUndisturbed DEF BeginUpload
<1>3. ASSUME NEW v \in Version, Arrives(v)
      PROVE  Anchors'
  <2>1. version[v] \in VersionRow /\ version[v].doc \in Document /\ version[v].name \in Name
    BY <1>3, SlotsTyped DEF Arrives, PapersInv, Kept
  <2>2. PICK row : row = [version[v] EXCEPT !.sent = TRUE]
    OBVIOUS
  <2>3. row.state = version[v].state /\ row.superseded = version[v].superseded
    BY <2>1, <2>2 DEF VersionRow
  <2>4. version'[v] = row /\ \A w \in Version : w # v => version'[w] = version[w]
    BY <1>3, <2>2 DEF Arrives, PapersInv, TablesOK
  <2>5. \A d \in Document, n \in Name : drive[d][n] # NoFile => drive'[d][n] = drive[d][n]
    BY <1>3, <2>1 DEF Arrives, PapersInv, TablesOK
  <2> QED
    BY <1>0, <1>1, <1>3, <2>3, <2>4, <2>5, AnchorsUndisturbed DEF Arrives
<1>4. ASSUME version' = version, drive' = drive,
             \/ desk' = desk
             \/ \E q \in Request : \E next : Sits(q, next) /\ next.does \notin {"file", "delete"}
      PROVE  Anchors'
  BY <1>0, <1>1, <1>4, AnchorsUndisturbed
<1>5. ASSUME NEW q \in Request, NEW v \in Version, BeginCommit(q, v)
      PROVE  Anchors'
  <2>1. PICK next : next = [does |-> "look", v |-> v, by |-> version[v].by] /\ Sits(q, next)
    BY <1>5 DEF BeginCommit
  <2> QED
    BY <1>4, <1>5, <2>1 DEF BeginCommit, papers
<1>6. ASSUME NEW q \in Request, NEW d \in Document, NEW o \in Officer, BeginRemove(q, d, o)
      PROVE  Anchors'
  <2>1. PICK v \in LiveFilings(d) : Sits(q, [does |-> "remove", v |-> v, by |-> o])
    BY <1>6 DEF BeginRemove
  <2>2. PICK next : next = [does |-> "remove", v |-> v, by |-> o] /\ Sits(q, next)
    BY <2>1
  <2> QED
    BY <1>4, <1>6, <2>2 DEF BeginRemove, papers
<1>7. ASSUME NEW q \in Request, NEW d \in Document, NEW o \in Officer, NEW verdict, BeginCheck(q, d, o, verdict)
      PROVE  Anchors'
  <2>1. PICK next : next = [does |-> "check", doc |-> d, by |-> o, verdict |-> verdict] /\ Sits(q, next)
    BY <1>7 DEF BeginCheck
  <2> QED
    BY <1>4, <1>7, <2>1 DEF BeginCheck, papers
<1>8. ASSUME NEW q \in Request, CommitCheck(q) \/ (Dies(q) /\ UNCHANGED <<status, papers>>)
      PROVE  Anchors'
  BY <1>4, <1>8 DEF CommitCheck, Dies, Idle, papers
<1>9. CASE desk' = desk /\ version' = version /\ drive' = drive
  BY <1>4, <1>9
<1>10. CASE PaperStep
  BY <1>0, <1>2, <1>3, <1>5, <1>6, <1>7, <1>8, <1>9, <1>10, LookAnchors, CommitUploadAnchors, CommitRemoveAnchors,
     DeleteFileAnchors DEF PaperStep, Expire
<1>11. CASE \E a \in Application : Submits(a) \/ Returns(a)
  BY <1>9, <1>11 DEF Submits, Returns, papers
<1>12. CASE \E q \in Request : Dies(q) /\ UNCHANGED <<status, papers>>
  BY <1>8, <1>12
<1>13. CASE UNCHANGED paperVars
  BY <1>9, <1>13 DEF paperVars, papers
<1> QED
  BY <1>10, <1>11, <1>12, <1>13 DEF PapersNext

LEMMA AnchorsMean == Anchors => LiveFileIsItsOwn
<1>1. \A v \in Version : version[v].state = "committed" => Kept(v)
  BY VersionIsNone DEF Kept
<1> QED
  BY <1>1 DEF LiveFileIsItsOwn, LiveFilings, Filings, Anchors, Claims, Under

\* A step of whatever else an application goes through: the tables as they are,
\* and one request at most that does something else, nothing with a version.
LEMMA PapersBeside ==
    ASSUME PapersInv, UNCHANGED papers,
           \/ desk' = desk
           \/ \E q \in Request : \E next : Sits(q, next) /\ next.does \notin {"look", "file", "remove", "delete"}
    PROVE  PapersInv' /\ (Anchors => Anchors')
<1>1. version' = version /\ drive' = drive
  BY DEF papers
<1>2. \/ desk' = desk
      \/ \E q \in Request : \E next :
           /\ Sits(q, next) /\ Handling(next)'
           /\ \A o \in Request \ {q}, v \in Version : ~(Deletes(desk[o], v) /\ Deletes(next, v))
  BY HandlesNothing
<1>3. PapersInv' /\ Grows
  BY <1>1, <1>2, VersionsStay DEF PapersInv, TablesOK
<1>4. \A v \in Version : version[v].state = "committed" => Kept(v)
  BY VersionIsNone DEF Kept
<1>5. desk' = desk \/ \E q \in Request : \E next : Sits(q, next) /\ next.does \notin {"file", "delete"}
  OBVIOUS
<1>6. Anchors => Anchors'
  BY <1>1, <1>3, <1>4, <1>5, AnchorsUndisturbed
<1> QED
  BY <1>3, <1>6

\* What the checklist calls filed is in the drive under its name, and is what
\* its uploader sent, for any interleaving of uploads, late bytes, commits,
\* removals and deaths, as long as no two files are of one size: commitUpload
\* tells files apart by their size alone (documents.ts).
THEOREM LiveFilesAreTheirOwn ==
    ASSUME SizesDiffer
    PROVE  PapersSpec => []LiveFileIsItsOwn
<1>1. PapersInit => PapersInv /\ Anchors
  BY NothingFiled DEF PapersInit, Anchors, Claims
<1>2. PapersInv /\ Anchors /\ [PapersNext]_paperVars => (PapersInv /\ Anchors)'
  BY PapersStepKeeps, AnchorsStepKeeps
<1> QED
  BY <1>1, <1>2, AnchorsMean, PTL DEF PapersSpec

=============================================================================
