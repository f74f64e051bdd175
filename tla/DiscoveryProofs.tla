-------------------------- MODULE DiscoveryProofs --------------------------
(***************************************************************************)
(* Proofs about Discovery, for any connectors, patterns, listings, page    *)
(* size, page limit, tasks and number of changes.                          *)
(***************************************************************************)
EXTENDS Discovery, WellFoundedInduction, TLAPS

USE DiscoveryAssumption

-----------------------------------------------------------------------------
(* The inductive invariant, part by part.                                  *)

TaskStates == [pc : {"idle", "reload", "lock", "scan"}, repo : Repos,
               branch : {<<>>} \union Branches, ref : Refs, sure : BOOLEAN,
               answer : {"none", "queued", "out_of_scope", "ignored_branch",
                         "ignored_deletion", "failed"}]
Loaded     == [Names -> Entries \ {"unnamed"}]
ScanStates == [entries : Loaded, at : 1..(Len(Connectors) + 1), page : 1..MaxPages,
               found : Bindings]

DbType     == rows \in [Names -> Rows] /\ secrets \subseteq Names
RemoteType == /\ DOMAIN remote = Names /\ \A c \in Names : remote[c] \in Seq(Repos)
              /\ dormant \subseteq Repos
StoreType  == snap \in [Names -> Entries] /\ due \in BOOLEAN
CacheType  == config \in Loaded /\ bindings \in Bindings /\ scan \in ScanStates
LockType   == lock \in Seq(Tasks)
TaskType   == task \in [Tasks -> TaskStates]

\* Who refreshes is at the head of the lock, and who waits for it is in it.
LockInv ==
    \A t \in Tasks :
        /\ task[t].pc \in {"lock", "scan"} => \E i \in DOMAIN lock : lock[i] = t
        /\ task[t].pc = "scan" => Head(lock) = t

\* Connector i, as configured now, lists r at place k and selects it.
Findable(i, k, r) ==
    /\ i \in Index /\ scan_document[Connectors[i]] = "ok" /\ matches(Connectors[i], r)
    /\ k \in 1..(MaxPages * PageSize)
    /\ k \in DOMAIN remote[Connectors[i]] /\ remote[Connectors[i]][k] = r

\* The refresh under way has yet to read place k of connector i's listing.
Ahead(i, k) == scan.at < i \/ (scan.at = i /\ (scan.page - 1) * PageSize < k)

\* Why a hook that is sure is not told "out of scope".  Its refresh ends well
\* and there is something to find; it takes over the configuration there is;
\* it has found the repository or has a place ahead where it will.
Promised(t) == task[t].pc # "idle" => Sound /\ \E i, k : Findable(i, k, task[t].repo)
Current(t)  == task[t].pc = "lock" => config = scan_document
OnTheWay(t) ==
    task[t].pc = "scan" =>
        /\ scan.entries = scan_document
        /\ \/ scan.found[task[t].repo] # NoConnector
           \/ \E i, k : Findable(i, k, task[t].repo) /\ Ahead(i, k)
SureInv == \A t \in Tasks : task[t].sure => Promised(t) /\ Current(t) /\ OnTheWay(t)

-----------------------------------------------------------------------------
(* Lemmas about the operators.                                             *)

\* The type invariant in its parts.
LEMMA TypeParts ==
    TypeOK <=> /\ DbType /\ RemoteType /\ StoreType /\ CacheType /\ LockType /\ TaskType
               /\ changes \in 0..MaxChanges
BY DEF TypeOK, DbType, RemoteType, StoreType, CacheType, LockType, TaskType, TaskStates,
       ScanStates, Loaded

\* A set of numbers has a least one.
LEMMA LeastNumber ==
    ASSUME NEW T, T \subseteq Nat, T # {}
    PROVE  \E x \in T : \A y \in T : x <= y
<1> DEFINE R == OpToRel(<, Nat)
<1>1. IsWellFoundedOn(R, Nat)
  BY NatLessThanWellFounded
<1>2. \A x, y \in Nat : y < x => <<y, x>> \in R
  BY DEF OpToRel
<1> HIDE DEF R
<1>3. PICK x \in T : \A y \in T : ~ (<<y, x>> \in R)
  BY <1>1, WFMin
<1>4. ASSUME NEW y \in T PROVE x <= y
  <2>1. x \in Nat /\ y \in Nat /\ ~ (y < x)
    BY <1>2, <1>3
  <2> QED BY <2>1
<1> QED BY <1>4

\* The connectors are numbered.
LEMMA Numbered ==
    /\ Len(Connectors) \in Nat /\ Index = 1..Len(Connectors)
    /\ \A i \in Index : Connectors[i] \in Names
    /\ Len(Connectors) + 1 \notin Index
<1>1. Connectors \in Seq(Names)
  BY Zenon
<1>2. Len(Connectors) \in Nat /\ Index = 1..Len(Connectors)
  BY <1>1 DEF Index
<1>3. \A i \in Index : Connectors[i] \in Names
  BY DEF Names
<1> QED BY <1>2, <1>3

\* FirstBuilt passes over connectors that are not in the document or have no
\* token, and over no other.
LEMMA FirstBuiltIs ==
    ASSUME NEW entries \in Loaded, NEW i \in 1..(Len(Connectors) + 1)
    PROVE  /\ FirstBuilt(entries, i) \in i..(Len(Connectors) + 1)
           /\ FirstBuilt(entries, i) \in Index =>
                 entries[Connectors[FirstBuilt(entries, i)]] \in {"incomplete", "ok"}
           /\ \A k \in i..(FirstBuilt(entries, i) - 1) :
                 entries[Connectors[k]] \in {"none", "tokenless"}
<1> DEFINE n == Len(Connectors) + 1
           P(j) == /\ j \in Index => entries[Connectors[j]] \in {"incomplete", "ok"}
                   /\ \A k \in i..(j - 1) : entries[Connectors[k]] \in {"none", "tokenless"}
           T == {j \in i..n : j \in Index => entries[Connectors[j]] \in {"incomplete", "ok"}}
<1>1. Len(Connectors) \in Nat /\ n \in Nat /\ i \in Nat /\ Index = 1..Len(Connectors)
  BY Numbered
<1>2. n \in T
  BY <1>1, Numbered
<1>3. T \subseteq Nat
  BY <1>1
<1>4. PICK j \in T : \A y \in T : j <= y
  <2> HIDE DEF T
  <2> QED BY <1>2, <1>3, LeastNumber
<1>5. j \in i..n /\ j \in Nat
  BY <1>1
<1>6. ASSUME NEW k \in i..(j - 1) PROVE entries[Connectors[k]] \in {"none", "tokenless"}
  <2>1. k \in i..n /\ k < j /\ k \in Index
    BY <1>1, <1>5
  <2>2. k \notin T
    BY <1>1, <1>4, <2>1
  <2>3. entries[Connectors[k]] \notin {"incomplete", "ok"}
    BY <2>1, <2>2
  <2>4. entries[Connectors[k]] \in Entries \ {"unnamed"}
    BY <2>1, Numbered DEF Loaded
  <2> QED BY <2>3, <2>4 DEF Entries
<1>7. \E l \in i..n : P(l)
  BY <1>4, <1>5, <1>6
<1>8. FirstBuilt(entries, i) = CHOOSE l \in i..n : P(l)
  BY DEF FirstBuilt
<1> HIDE DEF P
<1>9. FirstBuilt(entries, i) \in i..n /\ P(FirstBuilt(entries, i))
  BY <1>7, <1>8
<1> QED BY <1>9 DEF P

\* Places and pages: what is past page k is not on the last one.
LEMMA PageCounts ==
    ASSUME NEW k \in 1..MaxPages
    PROVE  /\ (k - 1) * PageSize \in Nat /\ k * PageSize \in Nat
           /\ k * PageSize = (k - 1) * PageSize + PageSize
           /\ MaxPages * PageSize \in Nat /\ k * PageSize <= MaxPages * PageSize
<1>1. PageSize \in Nat /\ k \in Nat /\ MaxPages \in Nat /\ k >= 1 /\ k <= MaxPages
  OBVIOUS
<1>2. /\ (k - 1) * PageSize \in Nat /\ k * PageSize \in Nat /\ MaxPages * PageSize \in Nat
  BY <1>1
<1>3. k * PageSize = (k - 1) * PageSize + PageSize
  BY <1>1
<1>4. k * PageSize <= MaxPages * PageSize
  BY <1>1
<1> QED BY <1>2, <1>3, <1>4

\* A repository on page k is yielded with that page.
LEMMA OnPage ==
    ASSUME NEW list \in Seq(Repos), NEW k \in 1..MaxPages, NEW j \in DOMAIN list,
           (k - 1) * PageSize < j, j <= k * PageSize
    PROVE  \E i \in DOMAIN Page(list, k) : Page(list, k)[i] = list[j]
<1> DEFINE a == (k - 1) * PageSize
           b == k * PageSize
           m == IF b < Len(list) THEN b ELSE Len(list)
<1>1. a \in Nat /\ b \in Nat /\ Len(list) \in Nat /\ j \in 1..Len(list) /\ a < j /\ j <= b
  BY PageCounts
<1>2. Page(list, k) = SubSeq(list, a + 1, m)
  BY DEF Page
<1> HIDE DEF a, b
<1>3. m \in Nat /\ j <= m /\ m <= Len(list) /\ a + 1 <= m
  BY <1>1
<1> HIDE DEF m
<1>4. /\ DOMAIN SubSeq(list, a + 1, m) = 1..(m - a)
      /\ \A i \in 1..(m - a) : SubSeq(list, a + 1, m)[i] = list[a + i]
  BY <1>1, <1>3
<1>5. j - a \in 1..(m - a) /\ a + (j - a) = j
  BY <1>1, <1>3
<1> QED BY <1>2, <1>4, <1>5

\* A page is not the last while there is something past it within the limit.
LEMMA NotLast ==
    ASSUME RemoteType, NEW c \in Names, NEW k \in 1..MaxPages, NEW j \in DOMAIN remote[c],
           k * PageSize < j, j <= MaxPages * PageSize
    PROVE  ~ IsLast(c, k)
<1> DEFINE a == (k - 1) * PageSize
           b == k * PageSize
           list == remote[c]
<1>1. /\ a \in Nat /\ b \in Nat /\ b = a + PageSize /\ PageSize \in Nat \ {0}
      /\ list \in Seq(Repos) /\ Len(list) \in Nat /\ j \in 1..Len(list) /\ b < j
  BY PageCounts DEF RemoteType
<1>2. k # MaxPages
  <2>1. MaxPages * PageSize \in Nat /\ j \in Nat
    BY <1>1, PageCounts
  <2> QED BY <1>1, <2>1
<1>3. Page(list, k) = SubSeq(list, a + 1, b)
  <2>1. b < Len(list)
    BY <1>1
  <2>2. Page(list, k) = SubSeq(list, a + 1, IF b < Len(list) THEN b ELSE Len(list))
    BY Zenon DEF Page
  <2> HIDE DEF a, b, list
  <2> QED BY <2>1, <2>2, Zenon
<1>4. ~ LastOfLinked(list, k)
  BY <1>1, <1>2 DEF LastOfLinked
<1> HIDE DEF a, b, list
<1>5. Len(SubSeq(list, a + 1, b)) = PageSize
  <2>1. a + 1 \in 1..(Len(list) + 1) /\ b \in a..Len(list) /\ b - (a + 1) + 1 = PageSize
    BY <1>1
  <2> HIDE DEF a, b
  <2>2. Len(SubSeq(list, a + 1, b)) = IF a + 1 <= b THEN b - (a + 1) + 1 ELSE 0
    BY <1>1
  <2> QED BY <1>1, <2>1, <2>2
<1>6. ~ LastOfNumbered(list, k)
  <2>1. Len(Page(list, k)) = PageSize
    BY <1>3, <1>5, Zenon
  <2>2. ~ (PageSize < PageSize)
    BY <1>1
  <2> QED BY <1>2, <2>1, <2>2, Zenon DEF LastOfNumbered
<1> QED BY <1>4, <1>6 DEF IsLast, list

-----------------------------------------------------------------------------
(* What the steps change.                                                  *)

Answers == {"none", "queued", "out_of_scope", "ignored_branch", "ignored_deletion", "failed"}

OnlyTask(t) == TaskType' /\ \A u \in Tasks \ {t} : task'[u] = task[u]

\* One task changes.
LEMMA TaskUpdate ==
    ASSUME TaskType, NEW t \in Tasks, NEW s \in TaskStates, task' = [task EXCEPT ![t] = s]
    PROVE  OnlyTask(t) /\ task'[t] = s
BY DEF TaskType, OnlyTask

\* A task only moves on.
LEMMA TaskMoves ==
    ASSUME TaskType, NEW t \in Tasks, NEW pc \in {"idle", "reload", "lock", "scan"},
           task' = [task EXCEPT ![t].pc = pc]
    PROVE  /\ OnlyTask(t) /\ task'[t].pc = pc /\ task'[t].repo = task[t].repo
           /\ task'[t].sure = task[t].sure /\ task'[t].answer = task[t].answer
<1> DEFINE s == [task[t] EXCEPT !.pc = pc]
<1>1. task[t] \in TaskStates
  BY DEF TaskType
<1>2. /\ s \in TaskStates /\ s.pc = pc /\ s.repo = task[t].repo /\ s.sure = task[t].sure
      /\ s.answer = task[t].answer
  BY <1>1 DEF TaskStates
<1>3. task' = [task EXCEPT ![t] = s]
  BY DEF TaskType
<1> HIDE DEF s
<1>4. OnlyTask(t) /\ task'[t] = s
  BY <1>2, <1>3, TaskUpdate
<1> QED BY <1>2, <1>4

\* A task that does nothing.
LEMMA NoTaskIs ==
    NoTask \in TaskStates /\ NoTask.pc = "idle" /\ NoTask.sure = FALSE /\ NoTask.answer = "none"
<1> DEFINE r == CHOOSE r \in Repos : TRUE
<1>1. r \in Repos
  <2>1. \E x \in Repos : TRUE
    OBVIOUS
  <2> QED BY <2>1, Zenon
<1>2. <<>> \in Refs
  BY DEF Refs
<1>3. NoTask = [pc |-> "idle", repo |-> r, branch |-> <<>>, ref |-> <<>>, sure |-> FALSE,
                answer |-> "none"]
  BY DEF NoTask
<1> HIDE DEF r
<1> QED BY <1>1, <1>2, <1>3 DEF TaskStates

\* A task that is over keeps whether it was sure.
LEMMA EndedIs ==
    ASSUME TaskType, NEW t \in Tasks, NEW answer \in Answers
    PROVE  /\ Ended(t, answer) \in TaskStates /\ Ended(t, answer).pc = "idle"
           /\ Ended(t, answer).answer = answer /\ Ended(t, answer).sure = task[t].sure
<1>1. task[t] \in TaskStates
  BY DEF TaskType
<1>2. task[t].branch \in {<<>>} \union Branches /\ task[t].sure \in BOOLEAN
  BY <1>1 DEF TaskStates
<1> QED BY <1>2, NoTaskIs DEF Ended, TaskStates, Answers

\* A hook that has come in.
LEMMA ArrivedIs ==
    ASSUME NEW r \in Repos, NEW branch \in {<<>>} \union Branches, NEW ref \in Refs
    PROVE  /\ Arrived(r, branch, ref) \in TaskStates /\ Arrived(r, branch, ref).pc = "reload"
           /\ Arrived(r, branch, ref).repo = r /\ Arrived(r, branch, ref).answer = "none"
           /\ Arrived(r, branch, ref).sure = (Sound /\ Finders(r) # {})
<1> DEFINE b == Sound /\ Finders(r) # {}
<1>1. b \in BOOLEAN
  BY Zenon
<1>2. Arrived(r, branch, ref) = [NoTask EXCEPT !.pc = "reload", !.repo = r, !.branch = branch,
                                               !.ref = ref, !.sure = b]
  BY Zenon DEF Arrived
<1> HIDE DEF b
<1>3. /\ Arrived(r, branch, ref) \in TaskStates /\ Arrived(r, branch, ref).pc = "reload"
      /\ Arrived(r, branch, ref).repo = r /\ Arrived(r, branch, ref).answer = "none"
      /\ Arrived(r, branch, ref).sure = b
  BY <1>1, <1>2, NoTaskIs DEF TaskStates
<1> QED BY <1>3, Zenon DEF b

Unsure == \A t \in Tasks : /\ task'[t].pc = task[t].pc /\ task'[t].answer = task[t].answer
                           /\ task'[t].sure = FALSE

\* A change makes every hook unsure.
LEMMA DisturbIs ==
    ASSUME TypeOK, Disturb
    PROVE  TaskType' /\ Unsure /\ changes' \in 0..MaxChanges
<1>1. changes' \in 0..MaxChanges
  BY DEF Disturb, TypeOK
<1>2. ASSUME NEW t \in Tasks
      PROVE  /\ task'[t] \in TaskStates /\ task'[t].pc = task[t].pc
             /\ task'[t].answer = task[t].answer /\ task'[t].sure = FALSE
  <2>1. task[t] \in TaskStates
    BY TypeParts DEF TaskType
  <2>2. task'[t] = [task[t] EXCEPT !.sure = FALSE]
    BY DEF Disturb
  <2> QED BY <2>1, <2>2 DEF TaskStates
<1>3. task' \in [Tasks -> TaskStates]
  <2>1. task' = [t \in Tasks |-> task'[t]]
    BY DEF Disturb
  <2> QED BY <1>2, <2>1
<1> QED BY <1>1, <1>2, <1>3 DEF TaskType, Unsure

\* What the rows make of the document.
LEMMA DocumentType ==
    ASSUME TypeOK
    PROVE  scan_document \in [Names -> Entries]
<1> SUFFICES ASSUME NEW c \in Names PROVE scan_document[c] \in Entries
  BY DEF scan_document
<1>1. rows[c] \in Rows
  BY DEF TypeOK
<1> QED BY <1>1 DEF scan_document, Rows, Entries

\* What a document that loads can hold.
LEMMA LoadsIs ==
    ASSUME NEW e \in [Names -> Entries], Loads(e)
    PROVE  e \in Loaded
BY DEF Loads, Loaded

\* A finder has a place where the repository is listed.
LEMMA FinderFinds ==
    ASSUME NEW r \in Repos, Finders(r) # {}
    PROVE  \E i, k : Findable(i, k, r)
<1>1. PICK c \in Names :
          /\ scan_document[c] = "ok" /\ matches(c, r)
          /\ \E k \in 1..(MaxPages * PageSize) : k \in DOMAIN remote[c] /\ remote[c][k] = r
  BY DEF Finders
<1>2. PICK i \in Index : Connectors[i] = c
  BY DEF Names
<1>3. PICK k \in 1..(MaxPages * PageSize) : k \in DOMAIN remote[c] /\ remote[c][k] = r
  BY <1>1
<1>4. Findable(i, k, r)
  BY <1>1, <1>2, <1>3 DEF Findable
<1> QED BY <1>4

\* No refresh.
LEMMA NoScanIs ==
    NoScan \in ScanStates /\ NoBindings \in Bindings /\ NoEntries \in Loaded
    /\ NoScan.page = 1
<1>1. NoBindings \in Bindings /\ NoEntries \in Loaded
  BY DEF NoBindings, Bindings, NoEntries, Loaded, Entries
<1>2. 1 \in 1..(Len(Connectors) + 1) /\ 1 \in 1..MaxPages
  BY Numbered
<1> QED BY <1>1, <1>2 DEF NoScan, ScanStates

\* A refresh begins.
LEMMA BeginIs ==
    ASSUME TypeOK, NEW t \in Tasks, BeginScan(t)
    PROVE  /\ scan' \in ScanStates /\ scan'.entries = config
           /\ scan'.at = FirstBuilt(config, 1) /\ scan'.page = 1
<1>1. config \in Loaded /\ 1 \in 1..(Len(Connectors) + 1) /\ Len(Connectors) \in Nat
  BY Numbered, TypeParts DEF CacheType
<1> DEFINE at == FirstBuilt(config, 1)
<1>2. at \in 1..(Len(Connectors) + 1)
  BY <1>1, FirstBuiltIs
<1>3. scan' = [NoScan EXCEPT !.entries = config, !.at = at]
  BY DEF BeginScan
<1> HIDE DEF at
<1>4. /\ scan' \in ScanStates /\ scan'.entries = config /\ scan'.at = at /\ scan'.page = 1
  BY <1>1, <1>2, <1>3, NoScanIs DEF ScanStates
<1> QED BY <1>4 DEF at

\* A refresh goes on to the next connector.
LEMMA NextConnectorIs ==
    ASSUME TypeOK, scan.at \in Index, NEW found \in Bindings
    PROVE  /\ NextConnector(found) \in ScanStates
           /\ NextConnector(found).entries = scan.entries
           /\ NextConnector(found).at = FirstBuilt(scan.entries, scan.at + 1)
           /\ NextConnector(found).page = 1 /\ NextConnector(found).found = found
<1>1. scan \in ScanStates
  BY TypeParts DEF CacheType
<1>2. scan.entries \in Loaded /\ 1 \in 1..MaxPages
  BY <1>1 DEF ScanStates
<1> DEFINE at == FirstBuilt(scan.entries, scan.at + 1)
<1>3. at \in 1..(Len(Connectors) + 1)
  <2>1. scan.at + 1 \in 1..(Len(Connectors) + 1) /\ Len(Connectors) \in Nat
    BY Numbered
  <2>2. at \in (scan.at + 1)..(Len(Connectors) + 1)
    BY <1>2, <2>1, FirstBuiltIs
  <2> HIDE DEF at
  <2> QED BY <2>1, <2>2
<1>4. NextConnector(found) = [scan EXCEPT !.at = at, !.page = 1, !.found = found]
  BY DEF NextConnector
<1> HIDE DEF at
<1>5. /\ NextConnector(found) \in ScanStates /\ NextConnector(found).entries = scan.entries
      /\ NextConnector(found).at = at
      /\ NextConnector(found).page = 1 /\ NextConnector(found).found = found
  BY <1>1, <1>2, <1>3, <1>4 DEF ScanStates
<1> QED BY <1>5 DEF at

\* The connector that is read, and the page of its listing.
Source   == Connectors[scan.at]
ThisPage == Page(remote[Source], scan.page)

\* A page is read.
LEMMA DiscoverIs ==
    ASSUME TypeOK, NEW t \in Tasks, discover(t)
    PROVE  /\ Source \in Names /\ scan.at \in Index /\ scan.page \in 1..MaxPages
           /\ task[t].pc = "scan"
           /\ scan' \in ScanStates /\ scan'.entries = scan.entries
           /\ \A r \in Repos : scan'.found[r] \in {Source, scan.found[r]}
           /\ \A r \in Repos : matches(Source, r) /\ (\E i \in DOMAIN ThisPage : ThisPage[i] = r)
                                   => scan'.found[r] = Source
           /\ \/ IsLast(Source, scan.page)
                 /\ scan'.at = FirstBuilt(scan.entries, scan.at + 1) /\ scan'.page = 1
              \/ ~ IsLast(Source, scan.page) /\ scan'.at = scan.at /\ scan'.page = scan.page + 1
<1> DEFINE c == Source
           page == ThisPage
<1>0. c = Connectors[scan.at] /\ page = Page(remote[c], scan.page)
  BY DEF Source, ThisPage
<1> DEFINE found == [r \in Repos |-> IF matches(c, r) /\ \E i \in DOMAIN page : page[i] = r
                                     THEN c ELSE scan.found[r]]
<1>1. scan \in ScanStates /\ task[t].pc = "scan" /\ scan.at \in Index
  BY TypeParts DEF CacheType, discover, Scanning
<1>2. c \in Names /\ scan.found \in Bindings /\ scan.page \in 1..MaxPages
  BY <1>0, <1>1, Numbered DEF ScanStates
<1>3. found \in Bindings
  BY <1>2 DEF Bindings
<1>4. scan' = IF IsLast(c, scan.page) THEN NextConnector(found)
              ELSE [scan EXCEPT !.page = scan.page + 1, !.found = found]
  <2> DEFINE kept == {r \in Repos : matches(c, r) /\ \E i \in DOMAIN page : page[i] = r}
  <2>1. scan' = IF IsLast(c, scan.page)
                THEN NextConnector([r \in Repos |-> IF r \in kept THEN c ELSE scan.found[r]])
                ELSE [scan EXCEPT !.page = scan.page + 1,
                         !.found = [r \in Repos |-> IF r \in kept THEN c ELSE scan.found[r]]]
    BY <1>1 DEF discover, Source, ThisPage
  <2>2. [r \in Repos |-> IF r \in kept THEN c ELSE scan.found[r]] = found
    OBVIOUS
  <2> HIDE DEF found, kept
  <2> QED BY <2>1, <2>2
<1>5. /\ \A r \in Repos : found[r] \in {c, scan.found[r]}
      /\ \A r \in Repos : matches(c, r) /\ (\E i \in DOMAIN page : page[i] = r) => found[r] = c
  OBVIOUS
<1> HIDE DEF found
<1>6. CASE IsLast(c, scan.page)
  BY <1>1, <1>2, <1>3, <1>4, <1>5, <1>6, NextConnectorIs
<1>7. CASE ~ IsLast(c, scan.page)
  <2>1. scan.page # MaxPages
    BY <1>7 DEF IsLast, LastOfLinked, LastOfNumbered
  <2>2. scan.page + 1 \in 1..MaxPages
    BY <1>2, <2>1
  <2>3. scan' = [scan EXCEPT !.page = scan.page + 1, !.found = found]
    BY <1>4, <1>7
  <2>4. /\ scan' \in ScanStates /\ scan'.entries = scan.entries /\ scan'.at = scan.at
        /\ scan'.page = scan.page + 1 /\ scan'.found = found
    BY <1>1, <1>3, <2>2, <2>3 DEF ScanStates
  <2> QED BY <1>1, <1>2, <1>5, <1>7, <2>4
<1> QED BY <1>6, <1>7

\* A lookup answers a hook at once, which is never sure then, or leaves it to a
\* refresh.
LEMMA LookupIs ==
    ASSUME TypeOK, NEW t \in Tasks, NEW r \in Repos, NEW branch \in Branches, NEW ref \in Refs,
           lookup(t, r, branch, ref)
    PROVE  /\ OnlyTask(t) /\ task[t].pc = "idle"
           /\ \/ task'[t].pc = "idle" /\ task'[t].sure = FALSE
              \/ /\ task'[t].pc = "reload" /\ task'[t].repo = r /\ task'[t].answer = "none"
                 /\ task'[t].sure = (Sound /\ Finders(r) # {})
<1>1. task[t].pc = "idle" /\ TaskType
  BY TypeParts DEF lookup
<1>2. CASE bindings[r] = NoConnector
  <2>1. task' = [task EXCEPT ![t] = Arrived(r, branch, ref)]
    BY <1>2 DEF lookup
  <2>2. Arrived(r, branch, ref) \in TaskStates
    BY ArrivedIs
  <2>3. OnlyTask(t) /\ task'[t] = Arrived(r, branch, ref)
    BY <1>1, <2>1, <2>2, TaskUpdate
  <2> QED BY <1>1, <2>3, ArrivedIs
<1>3. CASE bindings[r] # NoConnector
  <2> DEFINE a == Answer(t, bindings[r], ref)
             s == [NoTask EXCEPT !.branch = branch, !.answer = a]
  <2>1. a \in Answers
    BY DEF Answer, Answers
  <2>2. task' = [task EXCEPT ![t] = s]
    BY <1>3 DEF lookup
  <2> HIDE DEF a
  <2>3. s \in TaskStates /\ s.pc = "idle" /\ s.sure = FALSE
    BY <2>1, NoTaskIs DEF TaskStates, Answers
  <2> HIDE DEF s
  <2>4. OnlyTask(t) /\ task'[t] = s
    BY <1>1, <2>2, <2>3, TaskUpdate
  <2> QED BY <1>1, <2>3, <2>4
<1> QED BY <1>2, <1>3

\* What a request to the indexer changes: nothing but its task.
LEMMA HookIs ==
    ASSUME TypeOK, NEW t \in Tasks, NEW r \in Repos, webhook(t, r) \/ trigger(t, r)
    PROVE  /\ OnlyTask(t) /\ task[t].pc = "idle"
           /\ UNCHANGED <<dbVars, remoteVars, storeVars, cacheVars, changes>>
           /\ \/ task'[t].pc = "idle" /\ task'[t].sure = FALSE
              \/ /\ task'[t].pc = "reload" /\ task'[t].repo = r /\ task'[t].answer = "none"
                 /\ task'[t].sure = (Sound /\ Finders(r) # {})
<1>1. /\ \A branch \in Branches, kind \in {"github", "bitbucket"} : parse(kind, branch) \in Refs
      /\ <<>> \in Refs /\ Default \in Branches
  <2>1. \A branch \in Branches : branch \in Refs /\ <<"refs", "heads">> \o branch \in Refs
    BY DEF Refs
  <2> QED BY <2>1 DEF parse, Refs
<1>2. CASE \E branch \in Branches, ref \in Refs : lookup(t, r, branch, ref)
  <2>1. PICK branch \in Branches, ref \in Refs : lookup(t, r, branch, ref)
    BY <1>2
  <2>2. UNCHANGED <<dbVars, remoteVars, storeVars, cacheVars, changes>>
    BY <2>1 DEF lookup
  <2> QED BY <2>1, <2>2, LookupIs
<1>3. CASE /\ task[t].pc = "idle"
           /\ task' = [task EXCEPT ![t] = [NoTask EXCEPT !.answer = "ignored_deletion"]]
           /\ UNCHANGED <<dbVars, remoteVars, storeVars, cacheVars, changes>>
  <2> DEFINE s == [NoTask EXCEPT !.answer = "ignored_deletion"]
  <2>1. s \in TaskStates /\ s.pc = "idle" /\ s.sure = FALSE
    BY NoTaskIs DEF TaskStates
  <2>2. task' = [task EXCEPT ![t] = s] /\ TaskType
    BY <1>3, TypeParts
  <2> HIDE DEF s
  <2>3. OnlyTask(t) /\ task'[t] = s
    BY <2>1, <2>2, TaskUpdate
  <2> QED BY <1>3, <2>1, <2>3
<1>4. CASE trigger(t, r)
  BY <1>1, <1>2, <1>4 DEF trigger
<1>5. CASE webhook(t, r)
  BY <1>1, <1>2, <1>3, <1>5 DEF webhook
<1> QED BY <1>4, <1>5

\* A rescan starts.
LEMMA RescanIs ==
    ASSUME TypeOK, NEW t \in Tasks, Rescan(t)
    PROVE  /\ OnlyTask(t) /\ task[t].pc = "idle" /\ task'[t].pc = "reload"
           /\ task'[t].sure = FALSE /\ task'[t].answer = "none"
<1> DEFINE s == [NoTask EXCEPT !.pc = "reload"]
<1>1. s \in TaskStates /\ s.pc = "reload" /\ s.sure = FALSE /\ s.answer = "none"
  BY NoTaskIs DEF TaskStates
<1>2. task' = [task EXCEPT ![t] = s] /\ TaskType /\ task[t].pc = "idle"
  BY TypeParts DEF Rescan
<1> HIDE DEF s
<1>3. OnlyTask(t) /\ task'[t] = s
  BY <1>1, <1>2, TaskUpdate
<1> QED BY <1>1, <1>2, <1>3

\* The configuration is read: the refresh queues for the lock or fails.
LEMMA ReloadIs ==
    ASSUME TypeOK, NEW t \in Tasks, reload_config(t)
    PROVE  /\ StoreType' /\ due' = FALSE /\ snap' \in {snap, scan_document}
           /\ due \/ snap = scan_document => snap' = scan_document
           /\ UNCHANGED <<dbVars, remoteVars, bindings, scan, changes>>
           /\ OnlyTask(t) /\ task[t].pc = "reload" /\ config' \in Loaded
           /\ task'[t].sure = task[t].sure
           /\ \/ /\ task'[t].pc = "lock" /\ lock' = Append(lock, t) /\ config' = snap'
                 /\ task'[t].repo = task[t].repo /\ task'[t].answer = task[t].answer
              \/ task'[t].pc = "idle" /\ task'[t].answer = "failed" /\ UNCHANGED <<lock, config>>
<1>1. /\ TaskType /\ task[t].pc = "reload" /\ config \in Loaded
      /\ UNCHANGED <<dbVars, remoteVars, bindings, scan, changes>>
  BY TypeParts DEF reload_config, CacheType
<1>2. snap' = (IF due THEN scan_document ELSE snap) /\ due' = FALSE
  BY DEF reload_config
<1>3. /\ snap' \in [Names -> Entries] /\ StoreType' /\ snap' \in {snap, scan_document}
      /\ due \/ snap = scan_document => snap' = scan_document
  BY <1>2, DocumentType, TypeParts DEF StoreType
<1>4. CASE /\ Loads(snap') /\ config' = snap' /\ lock' = Append(lock, t)
           /\ task' = [task EXCEPT ![t].pc = "lock"]
  <2>1. config' \in Loaded
    BY <1>3, <1>4, LoadsIs
  <2>2. /\ OnlyTask(t) /\ task'[t].pc = "lock" /\ task'[t].repo = task[t].repo
        /\ task'[t].sure = task[t].sure /\ task'[t].answer = task[t].answer
    BY <1>1, <1>4, TaskMoves
  <2> QED BY <1>1, <1>2, <1>3, <1>4, <2>1, <2>2
<1>5. CASE task' = [task EXCEPT ![t] = Ended(t, "failed")] /\ UNCHANGED <<config, lock>>
  <2>1. "failed" \in Answers
    BY DEF Answers
  <2>2. OnlyTask(t) /\ task'[t] = Ended(t, "failed")
    BY <1>1, <1>5, <2>1, EndedIs, TaskUpdate
  <2> QED BY <1>1, <1>2, <1>3, <1>5, <2>1, <2>2, EndedIs
<1> QED BY <1>4, <1>5 DEF reload_config

\* A refresh is over: with an error, or with its result.
LEMMA ReleaseIs ==
    ASSUME TypeOK, NEW t \in Tasks, BuildRaises(t) \/ SwapBindings(t)
    PROVE  /\ OnlyTask(t) /\ task[t].pc = "scan" /\ task'[t].pc = "idle"
           /\ task'[t].sure = task[t].sure /\ lock' = Tail(lock) /\ scan' = NoScan
           /\ \/ task'[t].answer = "failed" /\ UNCHANGED bindings
              \/ /\ scan.at \notin Index /\ bindings' = scan.found
                 /\ task'[t].answer = Answer(t, scan.found[task[t].repo], task[t].ref)
<1>1. TaskType
  BY TypeParts
<1>2. CASE BuildRaises(t)
  <2>1. "failed" \in Answers
    BY DEF Answers
  <2>2. /\ task' = [task EXCEPT ![t] = Ended(t, "failed")] /\ task[t].pc = "scan"
        /\ lock' = Tail(lock) /\ scan' = NoScan /\ UNCHANGED bindings
    BY <1>2 DEF BuildRaises, Scanning
  <2>3. OnlyTask(t) /\ task'[t] = Ended(t, "failed")
    BY <1>1, <2>1, <2>2, EndedIs, TaskUpdate
  <2> QED BY <1>1, <2>1, <2>2, <2>3, EndedIs
<1>3. CASE SwapBindings(t)
  <2> DEFINE a == Answer(t, scan.found[task[t].repo], task[t].ref)
  <2>1. a \in Answers
    BY DEF Answer, Answers
  <2>2. /\ task' = [task EXCEPT ![t] = Ended(t, a)] /\ task[t].pc = "scan"
        /\ lock' = Tail(lock) /\ scan' = NoScan /\ bindings' = scan.found /\ scan.at \notin Index
    BY <1>3 DEF SwapBindings
  <2> HIDE DEF a
  <2>3. OnlyTask(t) /\ task'[t] = Ended(t, a)
    BY <1>1, <2>1, <2>2, EndedIs, TaskUpdate
  <2>4. task'[t].pc = "idle" /\ task'[t].answer = a /\ task'[t].sure = task[t].sure
    BY <1>1, <2>1, <2>3, EndedIs
  <2> QED BY <2>2, <2>3, <2>4 DEF a
<1> QED BY <1>2, <1>3

\* What administrators and developers change.
Edits ==
    \E c \in Names :
        \/ \E row \in Rows \ {"absent"} : upsert_connector(c, row)
        \/ delete_connector(c)
        \/ put_secret(c) \/ delete_secret(c)
        \/ \E r \in Repos : RemoteChanges(c, r)

\* An edit leaves the indexer alone, but no hook sure.
LEMMA EditIs ==
    ASSUME TypeOK, Edits
    PROVE  /\ DbType' /\ RemoteType' /\ TaskType' /\ Unsure /\ changes' \in 0..MaxChanges
           /\ UNCHANGED <<storeVars, cacheVars>>
<1>1. Disturb /\ UNCHANGED <<storeVars, cacheVars>>
  BY DEF Edits, Edit, upsert_connector, delete_connector, put_secret, delete_secret, RemoteChanges
<1>2. DbType /\ RemoteType
  BY TypeParts
<1>3. PICK c \in Names :
          \/ \E row \in Rows \ {"absent"} : upsert_connector(c, row)
          \/ delete_connector(c)
          \/ put_secret(c) \/ delete_secret(c)
          \/ \E r \in Repos : RemoteChanges(c, r)
  BY DEF Edits
<1>4. CASE \/ \E row \in Rows \ {"absent"} : upsert_connector(c, row)
           \/ delete_connector(c)
  <2>1. PICK row \in Rows : rows' = [rows EXCEPT ![c] = row]
    BY <1>4 DEF upsert_connector, delete_connector, Rows
  <2>2. UNCHANGED <<secrets, remote, dormant>>
    BY <1>4 DEF upsert_connector, delete_connector, remoteVars
  <2>3. DbType' /\ RemoteType'
    BY <1>2, <2>1, <2>2 DEF DbType, RemoteType
  <2> QED BY <1>1, <2>3, DisturbIs
<1>5. CASE put_secret(c) \/ delete_secret(c)
  <2>1. DbType' /\ RemoteType'
    BY <1>2, <1>5 DEF put_secret, delete_secret, remoteVars, DbType, RemoteType
  <2> QED BY <1>1, <2>1, DisturbIs
<1>6. ASSUME NEW r \in Repos, RemoteChanges(c, r) PROVE DbType' /\ RemoteType'
  <2>1. DbType'
    BY <1>2, <1>6 DEF RemoteChanges, dbVars, DbType
  <2>2. remote[c] \in Seq(Repos) /\ \A d \in Names : remote[d] \in Seq(Repos)
    BY <1>2 DEF RemoteType
  <2>3. ASSUME NEW list \in Seq(Repos), remote' = [remote EXCEPT ![c] = list], UNCHANGED dormant
        PROVE  RemoteType'
    BY <1>2, <2>3 DEF RemoteType
  <2>4. CASE remote' = [remote EXCEPT ![c] = Append(@, r)] /\ UNCHANGED dormant
    <3> DEFINE list == Append(remote[c], r)
    <3>1. list \in Seq(Repos)
      BY <2>2
    <3>2. remote' = [remote EXCEPT ![c] = list] /\ UNCHANGED dormant
      BY <2>4
    <3> HIDE DEF list
    <3> QED BY <2>1, <2>3, <3>1, <3>2
  <2>5. CASE remote' = [remote EXCEPT ![c] = <<r>> \o @] /\ UNCHANGED dormant
    <3> DEFINE list == <<r>> \o remote[c]
    <3>1. list \in Seq(Repos)
      BY <2>2
    <3>2. remote' = [remote EXCEPT ![c] = list] /\ UNCHANGED dormant
      BY <2>5
    <3> HIDE DEF list
    <3> QED BY <2>1, <2>3, <3>1, <3>2
  <2>6. CASE /\ \E i \in DOMAIN remote[c] :
                   remote' = [remote EXCEPT ![c] = SubSeq(@, 1, i - 1) \o SubSeq(@, i + 1, Len(@))]
             /\ UNCHANGED dormant
    <3>1. PICK i \in DOMAIN remote[c] :
              remote' = [remote EXCEPT ![c] = SubSeq(@, 1, i - 1) \o SubSeq(@, i + 1, Len(@))]
      BY <2>6
    <3> DEFINE head == SubSeq(remote[c], 1, i - 1)
               tail == SubSeq(remote[c], i + 1, Len(remote[c]))
               list == head \o tail
    <3>2. head \in Seq(Repos)
      BY <2>2, <3>1
    <3>3. tail \in Seq(Repos)
      BY <2>2, <3>1
    <3>4. remote' = [remote EXCEPT ![c] = list] /\ UNCHANGED dormant
      BY <2>6, <3>1
    <3> HIDE DEF head, tail
    <3>5. list \in Seq(Repos)
      BY <3>2, <3>3
    <3> HIDE DEF list
    <3> QED BY <2>1, <2>3, <3>4, <3>5
  <2>7. CASE /\ dormant' = (IF r \in dormant THEN dormant \ {r} ELSE dormant \union {r})
             /\ UNCHANGED remote
    <3>1. dormant' \subseteq Repos
      BY <1>2, <1>6, <2>7 DEF RemoteType
    <3> QED BY <1>2, <2>1, <2>7, <3>1 DEF RemoteType
  <2> QED BY <1>6, <2>1, <2>4, <2>5, <2>6, <2>7 DEF RemoteChanges
<1> QED BY <1>1, <1>3, <1>4, <1>5, <1>6, DisturbIs

-----------------------------------------------------------------------------
(* The lock.                                                               *)

\* The lock is left alone, and a refresh begins only at its head.
LEMMA LockKept ==
    ASSUME LockInv, UNCHANGED lock,
           \A t \in Tasks : task'[t].pc \in {"lock", "scan"} =>
               task'[t].pc = task[t].pc \/ (task[t].pc = "lock" /\ Head(lock) = t)
    PROVE  LockInv'
BY DEF LockInv

\* A task queues.
LEMMA LockTaken ==
    ASSUME LockInv, LockType, NEW t \in Tasks, OnlyTask(t), lock' = Append(lock, t),
           task'[t].pc = "lock"
    PROVE  LockInv' /\ LockType'
<1>1. /\ LockType' /\ lock'[Len(lock) + 1] = t /\ Len(lock) + 1 \in DOMAIN lock'
      /\ \A i \in DOMAIN lock : i \in DOMAIN lock' /\ lock'[i] = lock[i]
      /\ lock # <<>> => Head(lock') = Head(lock)
  BY DEF LockType
<1>2. \A i \in DOMAIN lock : lock # <<>>
  BY DEF LockType
<1>3. ASSUME NEW u \in Tasks, u # t, task'[u].pc \in {"lock", "scan"}
      PROVE  /\ \E i \in DOMAIN lock' : lock'[i] = u
             /\ task'[u].pc = "scan" => Head(lock') = u
  <2>1. task'[u] = task[u]
    BY <1>3 DEF OnlyTask
  <2> QED BY <1>1, <1>2, <1>3, <2>1 DEF LockInv
<1> QED BY <1>1, <1>3 DEF LockInv

\* The head of the lock is over.
LEMMA LockReleased ==
    ASSUME LockInv, LockType, NEW t \in Tasks, OnlyTask(t), lock' = Tail(lock),
           task[t].pc = "scan", task'[t].pc = "idle"
    PROVE  LockInv' /\ LockType'
<1>1. Head(lock) = t /\ lock # <<>> /\ lock \in Seq(Tasks) /\ Len(lock) \in Nat
  BY DEF LockInv, LockType
<1>2. LockType' /\ Head(lock) = lock[1]
  BY <1>1 DEF LockType
<1>3. ASSUME NEW u \in Tasks, task'[u].pc \in {"lock", "scan"}
      PROVE  /\ \E i \in DOMAIN lock' : lock'[i] = u
             /\ task'[u].pc # "scan"
  <2>1. u # t /\ task'[u] = task[u]
    BY <1>3 DEF OnlyTask
  <2>2. PICK i \in DOMAIN lock : lock[i] = u
    BY <1>3, <2>1 DEF LockInv
  <2>3. i \in 1..Len(lock) /\ i # 1
    BY <1>1, <1>2, <2>1, <2>2
  <2>4. i - 1 \in DOMAIN lock' /\ lock'[i - 1] = lock[i]
    BY <1>1, <2>3
  <2>5. task[u].pc # "scan"
    BY <1>1, <2>1 DEF LockInv
  <2> QED BY <2>1, <2>2, <2>4, <2>5
<1> QED BY <1>2, <1>3 DEF LockInv

\* No step leaves the types or the lock's order.
LEMMA LockNext == TypeOK /\ LockInv /\ [Next]_vars => TypeOK' /\ LockInv'
<1> SUFFICES ASSUME TypeOK, LockInv, [Next]_vars PROVE TypeOK' /\ LockInv'
  OBVIOUS
<1>0. /\ DbType /\ RemoteType /\ StoreType /\ CacheType /\ LockType /\ TaskType
      /\ changes \in 0..MaxChanges
  BY TypeParts
<1>1. ASSUME DbType', RemoteType', StoreType', CacheType', LockType', TaskType',
             changes' \in 0..MaxChanges
      PROVE  TypeOK'
  BY <1>1 DEF TypeOK, DbType, RemoteType, StoreType, CacheType, LockType, TaskType, TaskStates,
              ScanStates, Loaded
<1> DEFINE Kept == /\ UNCHANGED <<dbVars, remoteVars, changes>>
<1>2. ASSUME Kept PROVE DbType' /\ RemoteType' /\ changes' \in 0..MaxChanges
  BY <1>0, <1>2 DEF DbType, RemoteType, dbVars, remoteVars
<1>3. UNCHANGED storeVars => StoreType'
  BY <1>0 DEF storeVars, StoreType
<1>4. /\ UNCHANGED cacheVars => CacheType' /\ LockType' /\ UNCHANGED lock
      /\ UNCHANGED lock => LockType'
  BY <1>0 DEF cacheVars, CacheType, LockType
<1>5. CASE Edits
  <2>1. LockInv'
    BY <1>4, <1>5, EditIs, LockKept DEF Unsure
  <2> QED BY <1>1, <1>3, <1>4, <1>5, <2>1, EditIs
<1>6. CASE PollDue
  <2>1. StoreType' /\ Kept /\ UNCHANGED cacheVars /\ UNCHANGED task /\ TaskType'
    BY <1>0, <1>6 DEF PollDue, StoreType, TaskType
  <2>2. LockInv'
    BY <1>4, <2>1, LockKept
  <2> QED BY <1>1, <1>2, <1>4, <2>1, <2>2
<1>7. ASSUME NEW t \in Tasks, OnlyTask(t), task'[t].pc \notin {"lock", "scan"},
             UNCHANGED <<dbVars, remoteVars, storeVars, cacheVars, changes>>
      PROVE  TypeOK' /\ LockInv'
  <2>1. LockInv'
    BY <1>4, <1>7, LockKept DEF OnlyTask
  <2> QED BY <1>1, <1>2, <1>3, <1>4, <1>7, <2>1 DEF OnlyTask
<1>8. ASSUME NEW t \in Tasks, TaskStep(t) PROVE TypeOK' /\ LockInv'
  <2>1. CASE reload_config(t)
    <3>1. /\ StoreType' /\ UNCHANGED <<dbVars, remoteVars, bindings, scan, changes>>
          /\ OnlyTask(t) /\ config' \in Loaded
      BY <2>1, ReloadIs
    <3>2. CacheType'
      BY <1>0, <3>1 DEF CacheType
    <3>3. LockInv' /\ LockType'
      <4>1. CASE task'[t].pc = "lock" /\ lock' = Append(lock, t)
        BY <1>0, <3>1, <4>1, LockTaken
      <4>2. CASE task'[t].pc = "idle" /\ UNCHANGED lock
        BY <1>4, <3>1, <4>2, LockKept DEF OnlyTask
      <4> QED BY <2>1, <4>1, <4>2, ReloadIs
    <3> QED BY <1>1, <1>2, <3>1, <3>2, <3>3 DEF OnlyTask
  <2>2. CASE BeginScan(t)
    <3>1. /\ UNCHANGED <<dbVars, remoteVars, storeVars, config, bindings, lock, changes>>
          /\ task' = [task EXCEPT ![t].pc = "scan"] /\ task[t].pc = "lock" /\ Head(lock) = t
      BY <2>2 DEF BeginScan
    <3>2. OnlyTask(t)
      BY <1>0, <3>1, TaskMoves
    <3>3. CacheType'
      BY <1>0, <2>2, <3>1, BeginIs DEF CacheType
    <3>4. LockInv'
      BY <3>1, <3>2, LockKept DEF OnlyTask
    <3> QED BY <1>1, <1>2, <1>3, <1>4, <3>1, <3>2, <3>3, <3>4 DEF OnlyTask
  <2>3. CASE BuildRaises(t) \/ SwapBindings(t)
    <3>1. /\ UNCHANGED <<dbVars, remoteVars, storeVars, config, changes>>
      BY <2>3 DEF BuildRaises, SwapBindings
    <3>2. /\ OnlyTask(t) /\ task[t].pc = "scan" /\ task'[t].pc = "idle" /\ lock' = Tail(lock)
          /\ scan' = NoScan /\ bindings' \in {bindings, scan.found}
      BY <2>3, ReleaseIs
    <3>3. scan.found \in Bindings
      BY <1>0 DEF CacheType, ScanStates
    <3>4. CacheType'
      BY <1>0, <3>1, <3>2, <3>3, NoScanIs DEF CacheType
    <3>5. LockInv' /\ LockType'
      BY <1>0, <3>2, LockReleased
    <3> QED BY <1>1, <1>2, <1>3, <3>1, <3>2, <3>4, <3>5 DEF OnlyTask
  <2>4. CASE discover(t)
    <3>1. UNCHANGED <<dbVars, remoteVars, storeVars, config, bindings, lock, task, changes>>
      BY <2>4 DEF discover
    <3>2. CacheType'
      BY <1>0, <2>4, <3>1, DiscoverIs DEF CacheType
    <3>3. LockInv' /\ TaskType'
      BY <1>0, <3>1, LockKept DEF TaskType
    <3> QED BY <1>1, <1>2, <1>3, <1>4, <3>1, <3>2, <3>3
  <2>5. CASE PageFails(t)
    <3>1. /\ UNCHANGED <<dbVars, remoteVars, storeVars, config, bindings, lock>> /\ Disturb
          /\ scan.at \in Index /\ scan' = NextConnector(scan.found)
      BY <2>5 DEF PageFails, Scanning
    <3>2. TaskType' /\ Unsure /\ changes' \in 0..MaxChanges
      BY <3>1, DisturbIs
    <3>3. scan.found \in Bindings
      BY <1>0 DEF CacheType, ScanStates
    <3>4. CacheType'
      BY <1>0, <3>1, <3>3, NextConnectorIs DEF CacheType
    <3>5. LockInv'
      BY <3>1, <3>2, LockKept DEF Unsure
    <3>6. DbType' /\ RemoteType'
      BY <1>0, <3>1 DEF DbType, RemoteType, dbVars, remoteVars
    <3> QED BY <1>1, <1>3, <1>4, <3>1, <3>2, <3>4, <3>5, <3>6
  <2> QED BY <1>8, <2>1, <2>2, <2>3, <2>4, <2>5 DEF TaskStep
<1>9. CASE UNCHANGED vars
  <2>1. UNCHANGED <<dbVars, remoteVars, storeVars, cacheVars, changes>> /\ UNCHANGED task
    BY <1>9 DEF vars
  <2>2. LockInv' /\ TaskType'
    BY <1>0, <1>4, <2>1, LockKept DEF TaskType
  <2> QED BY <1>1, <1>2, <1>3, <1>4, <2>1, <2>2
<1>10. ASSUME NEW t \in Tasks, Rescan(t) PROVE TypeOK' /\ LockInv'
  <2>1. UNCHANGED <<dbVars, remoteVars, storeVars, cacheVars, changes>>
    BY <1>10 DEF Rescan
  <2> QED BY <1>7, <1>10, <2>1, RescanIs
<1>11. ASSUME NEW t \in Tasks, NEW r \in Repos, webhook(t, r) \/ trigger(t, r)
       PROVE  TypeOK' /\ LockInv'
  BY <1>7, <1>11, HookIs
<1>12. Scans \subseteq Tasks /\ Hooks \subseteq Tasks
  BY DEF Tasks
<1> QED BY <1>5, <1>6, <1>8, <1>9, <1>10, <1>11, <1>12 DEF Next, Edits

\* At the start nothing is under way.
LEMMA DiscoveryInit == Init => TypeOK /\ LockInv /\ SureInv /\ MissRediscovers
<1> SUFFICES ASSUME Init PROVE TypeOK /\ LockInv /\ SureInv /\ MissRediscovers
  OBVIOUS
<1>1. DbType /\ RemoteType /\ StoreType /\ LockType /\ changes \in 0..MaxChanges
  <2>1. NoEntries \in [Names -> Entries]
    BY DEF NoEntries, Entries
  <2> QED BY <2>1 DEF Init, DbType, RemoteType, StoreType, LockType, Rows
<1>2. CacheType
  BY NoScanIs DEF Init, CacheType
<1>3. TaskType /\ \A t \in Tasks : task[t] = NoTask
  BY NoTaskIs DEF Init, TaskType
<1>4. \A t \in Tasks : task[t].pc = "idle" /\ ~ task[t].sure /\ task[t].answer = "none"
  BY <1>3, NoTaskIs
<1>5. Hooks \subseteq Tasks
  BY DEF Tasks
<1> QED BY <1>1, <1>2, <1>3, <1>4, <1>5, TypeParts DEF LockInv, SureInv, MissRediscovers

\* Rows, remotes, snapshot, cache, lock and tasks keep their types: a refresh
\* reads at most _MAX_PAGES pages of each connector (providers.py) and ends
\* past the last one.
THEOREM DiscoveryTyped == Spec => []TypeOK
BY DiscoveryInit, LockNext, PTL DEF Spec

-----------------------------------------------------------------------------
(* A hook that is sure.                                                    *)

\* No connector that is configured is passed over.
LEMMA NotPassed ==
    ASSUME NEW entries \in Loaded, NEW j \in 1..(Len(Connectors) + 1), NEW i \in Index, j <= i,
           entries[Connectors[i]] = "ok"
    PROVE  FirstBuilt(entries, j) <= i
<1> DEFINE at == FirstBuilt(entries, j)
<1>1. /\ at \in j..(Len(Connectors) + 1)
      /\ \A l \in j..(at - 1) : entries[Connectors[l]] \in {"none", "tokenless"}
  BY FirstBuiltIs
<1>2. Len(Connectors) \in Nat /\ i \in 1..Len(Connectors)
  BY Numbered
<1> HIDE DEF at
<1>3. i \notin j..(at - 1)
  BY <1>1
<1>4. at <= i
  BY <1>1, <1>2, <1>3
<1> QED BY <1>4 DEF at

\* While nobody edits, the document stays.
LEMMA SameDocument ==
    ASSUME UNCHANGED dbVars
    PROVE  scan_document' = scan_document
BY DEF scan_document, dbVars

\* While nobody edits, what a task can find stays.
LEMMA StillFound ==
    ASSUME UNCHANGED <<dbVars, remoteVars>>, NEW t \in Tasks, task'[t].repo = task[t].repo,
           NEW i, NEW k, Findable(i, k, task[t].repo)
    PROVE  Findable(i, k, task[t].repo)'
<1>1. UNCHANGED <<remote, dormant>> /\ scan_document' = scan_document
  BY SameDocument DEF remoteVars
<1>2. matches(Connectors[i], task[t].repo)'
  BY <1>1 DEF Findable, matches, selected, Hit
<1> QED BY <1>1, <1>2 DEF Findable

\* A refresh that would see the configuration still would.
LEMMA StaysSound ==
    ASSUME UNCHANGED <<dbVars, remoteVars>>, Sound,
           due \/ snap = scan_document => due' \/ snap' = scan_document
    PROVE  Sound'
<1>1. scan_document' = scan_document
  BY SameDocument
<1>2. Loads(scan_document)' /\ \A c \in Names : scan_document'[c] # "incomplete"
  BY <1>1 DEF Sound, Loads
<1>3. due' \/ snap' = scan_document'
  BY <1>1 DEF Sound
<1> QED BY <1>2, <1>3 DEF Sound

\* A sure hook is not harmed by what the others do.
LEMMA OthersDo ==
    ASSUME SureInv, NEW t \in Tasks, task[t].sure, task'[t] = task[t],
           UNCHANGED <<dbVars, remoteVars>>,
           due \/ snap = scan_document => due' \/ snap' = scan_document,
           config' = config \/ (due \/ snap = scan_document => config' = scan_document),
           task[t].pc = "scan" => scan' = scan
    PROVE  Promised(t)' /\ Current(t)' /\ OnTheWay(t)'
<1>1. Promised(t) /\ Current(t) /\ OnTheWay(t)
  BY DEF SureInv
<1>2. scan_document' = scan_document
  BY SameDocument
<1>3. Promised(t)'
  <2> SUFFICES ASSUME task'[t].pc # "idle"
               PROVE  Sound' /\ (\E i, k : Findable(i, k, task[t].repo))'
    BY DEF Promised
  <2>1. Sound /\ \E i, k : Findable(i, k, task[t].repo)
    BY <1>1 DEF Promised
  <2>2. Sound'
    BY <2>1, StaysSound
  <2>3. PICK i, k : Findable(i, k, task[t].repo)
    BY <2>1
  <2>4. Findable(i, k, task[t].repo)'
    BY <2>3, StillFound
  <2> QED BY <2>2, <2>4
<1>4. Current(t)'
  <2> SUFFICES ASSUME task'[t].pc = "lock" PROVE config' = scan_document'
    BY DEF Current
  <2>1. config = scan_document /\ (due \/ snap = scan_document)
    BY <1>1 DEF Current, Promised, Sound
  <2> QED BY <1>2, <2>1
<1>5. OnTheWay(t)'
  <2> SUFFICES ASSUME task'[t].pc = "scan" PROVE OnTheWay(t)'
    BY DEF OnTheWay
  <2>1. scan' = scan /\ task[t].pc = "scan"
    OBVIOUS
  <2>2. scan.entries = scan_document
    BY <1>1, <2>1 DEF OnTheWay
  <2>3. CASE scan.found[task[t].repo] # NoConnector
    BY <1>2, <2>1, <2>2, <2>3 DEF OnTheWay
  <2>4. CASE \E i, k : Findable(i, k, task[t].repo) /\ Ahead(i, k)
    <3>1. PICK i, k : Findable(i, k, task[t].repo) /\ Ahead(i, k)
      BY <2>4
    <3>2. Findable(i, k, task[t].repo)' /\ Ahead(i, k)'
      BY <2>1, <3>1, StillFound DEF Ahead
    <3> QED BY <1>2, <2>1, <2>2, <3>2 DEF OnTheWay
  <2> QED BY <1>1, <2>1, <2>3, <2>4 DEF OnTheWay
<1> QED BY <1>3, <1>4, <1>5

\* A refresh begins with everything ahead of it.
LEMMA BeginsAhead ==
    ASSUME TypeOK, SureInv, NEW t \in Tasks, task[t].sure, BeginScan(t)
    PROVE  Promised(t)' /\ Current(t)' /\ OnTheWay(t)'
<1>1. /\ UNCHANGED <<dbVars, remoteVars, storeVars>> /\ task[t].pc = "lock"
      /\ task' = [task EXCEPT ![t].pc = "scan"]
  BY DEF BeginScan
<1>2. task'[t].pc = "scan" /\ task'[t].repo = task[t].repo
  BY <1>1, TaskMoves, TypeParts
<1>3. /\ Sound /\ config = scan_document /\ \E i, k : Findable(i, k, task[t].repo)
  BY <1>1 DEF SureInv, Promised, Current
<1>4. scan_document' = scan_document
  BY <1>1, SameDocument
<1>5. PICK i, k : Findable(i, k, task[t].repo)
  BY <1>3
<1>6. Findable(i, k, task[t].repo)'
  BY <1>1, <1>2, <1>5, StillFound
<1>7. Sound'
  BY <1>1, <1>3, StaysSound DEF storeVars
<1>8. Ahead(i, k)'
  <2>1. /\ i \in Index /\ config[Connectors[i]] = "ok" /\ k \in 1..(MaxPages * PageSize)
        /\ config \in Loaded
    BY <1>3, <1>5, TypeParts DEF Findable, CacheType
  <2>2. 1 <= i /\ i \in Nat /\ 1 \in 1..(Len(Connectors) + 1)
    BY <2>1, Numbered
  <2>3. FirstBuilt(config, 1) <= i /\ FirstBuilt(config, 1) \in Nat
    <3>1. FirstBuilt(config, 1) \in 1..(Len(Connectors) + 1) /\ Len(Connectors) \in Nat
      BY <2>1, <2>2, FirstBuiltIs, Numbered
    <3>2. FirstBuilt(config, 1) <= i
      BY <2>1, <2>2, NotPassed
    <3> QED BY <3>1, <3>2
  <2>4. scan'.at = FirstBuilt(config, 1) /\ scan'.page = 1
    BY BeginIs
  <2>5. (scan'.page - 1) * PageSize < k
    <3>1. (1 - 1) * PageSize = 0 /\ 0 < k
      BY <2>1
    <3> QED BY <2>4, <3>1
  <2>6. scan'.at < i \/ scan'.at = i
    BY <2>2, <2>3, <2>4
  <2> QED BY <2>5, <2>6 DEF Ahead
<1>9. scan'.entries = scan_document'
  BY <1>3, <1>4, BeginIs
<1> QED BY <1>2, <1>6, <1>7, <1>8, <1>9 DEF Promised, Current, OnTheWay

\* A page read finds the repository or leaves it ahead.
LEMMA ReadsAhead ==
    ASSUME TypeOK, SureInv, NEW t \in Tasks, task[t].sure, discover(t)
    PROVE  Promised(t)' /\ Current(t)' /\ OnTheWay(t)'
<1> DEFINE c == Source
           page == ThisPage
           r == task[t].repo
<1>0. c = Connectors[scan.at] /\ page = Page(remote[c], scan.page)
  BY DEF Source, ThisPage
<1>1. UNCHANGED <<dbVars, remoteVars, storeVars, task>>
  BY DEF discover
<1>2. /\ c \in Names /\ scan.at \in Index /\ scan.page \in 1..MaxPages
      /\ task[t].pc = "scan"
      /\ scan'.entries = scan.entries
      /\ \A q \in Repos : scan'.found[q] \in {c, scan.found[q]}
      /\ \A q \in Repos : matches(c, q) /\ (\E i \in DOMAIN page : page[i] = q) =>
                              scan'.found[q] = c
      /\ \/ IsLast(c, scan.page)
            /\ scan'.at = FirstBuilt(scan.entries, scan.at + 1) /\ scan'.page = 1
         \/ ~ IsLast(c, scan.page) /\ scan'.at = scan.at /\ scan'.page = scan.page + 1
  BY DiscoverIs
<1> HIDE DEF c, page
<1>3. /\ Sound /\ scan.entries = scan_document /\ \E i, k : Findable(i, k, r)
      /\ \/ scan.found[r] # NoConnector
         \/ \E i, k : Findable(i, k, r) /\ Ahead(i, k)
  BY <1>2 DEF SureInv, Promised, OnTheWay
<1>4. scan_document' = scan_document /\ r \in Repos /\ RemoteType
      /\ scan.entries \in Loaded
  BY <1>1, SameDocument, TypeParts DEF TaskType, TaskStates, CacheType, ScanStates
<1>5. Promised(t)'
  <2>1. Sound'
    BY <1>1, <1>3, StaysSound DEF storeVars
  <2>2. PICK i, k : Findable(i, k, r)
    BY <1>3
  <2>3. Findable(i, k, task[t].repo)'
    BY <1>1, <2>2, StillFound
  <2> QED BY <2>1, <2>3 DEF Promised
<1>6. Current(t)'
  BY <1>1, <1>2 DEF Current
<1>7. ASSUME scan'.found[r] # NoConnector PROVE OnTheWay(t)'
  BY <1>1, <1>2, <1>3, <1>4, <1>7 DEF OnTheWay
<1>8. ASSUME NEW i, NEW k, Findable(i, k, r), Ahead(i, k)' PROVE OnTheWay(t)'
  <2>1. Findable(i, k, task[t].repo)'
    BY <1>1, <1>8, StillFound
  <2> QED BY <1>1, <1>2, <1>3, <1>4, <1>8, <2>1 DEF OnTheWay
<1>9. ASSUME scan.found[r] # NoConnector PROVE OnTheWay(t)'
  <2>1. scan'.found[r] # NoConnector
    <3>1. scan'.found[r] \in {c, scan.found[r]} /\ c # NoConnector
      BY <1>2, <1>4
    <3> QED BY <1>9, <3>1
  <2> QED BY <1>7, <2>1
<1>10. ASSUME NEW i, NEW k, Findable(i, k, r), Ahead(i, k) PROVE OnTheWay(t)'
  <2>1. /\ i \in Index /\ i \in Nat /\ scan.at \in Nat /\ scan.page \in Nat
        /\ scan.entries[Connectors[i]] = "ok" /\ matches(Connectors[i], r)
        /\ k \in 1..(MaxPages * PageSize) /\ k \in Nat /\ k > 0
        /\ k \in DOMAIN remote[Connectors[i]] /\ remote[Connectors[i]][k] = r
    <3>1. i \in Nat /\ scan.at \in Nat /\ scan.page \in Nat
      <4>1. i \in Index /\ scan.at \in Index /\ scan.page \in 1..MaxPages
        BY <1>2, <1>10 DEF Findable
      <4> QED BY ONLY <4>1, Numbered
    <3> QED BY <1>3, <1>10, <3>1 DEF Findable
  <2>2. CASE scan.at < i
    <3>1. CASE ~ IsLast(c, scan.page)
      <4>1. Ahead(i, k)'
        BY <1>2, <2>2, <3>1 DEF Ahead
      <4> QED BY <1>8, <1>10, <4>1
    <3>2. CASE IsLast(c, scan.page)
      <4>1. scan.at + 1 \in 1..(Len(Connectors) + 1) /\ scan.at + 1 <= i /\ Len(Connectors) \in Nat
        <5>1. i \in 1..Len(Connectors) /\ scan.at \in 1..Len(Connectors) /\ Len(Connectors) \in Nat
          BY <1>2, <2>1, Numbered
        <5> QED BY ONLY <2>2, <5>1
      <4>2. scan'.at = FirstBuilt(scan.entries, scan.at + 1) /\ scan'.page = 1
        BY <1>2, <3>2
      <4>3. FirstBuilt(scan.entries, scan.at + 1) <= i
        BY <1>4, <2>1, <4>1, NotPassed
      <4>4. FirstBuilt(scan.entries, scan.at + 1) \in Nat
        <5>1. FirstBuilt(scan.entries, scan.at + 1) \in (scan.at + 1)..(Len(Connectors) + 1)
          BY <1>4, <4>1, FirstBuiltIs
        <5> QED BY <2>1, <4>1, <5>1
      <4>5. (scan'.page - 1) * PageSize < k
        <5>1. (1 - 1) * PageSize = 0
          OBVIOUS
        <5> QED BY <2>1, <4>2, <5>1
      <4>6. scan'.at < i \/ scan'.at = i
        BY <2>1, <4>2, <4>3, <4>4
      <4>7. Ahead(i, k)'
        BY <4>5, <4>6 DEF Ahead
      <4> QED BY <1>8, <1>10, <4>7
    <3> QED BY <3>1, <3>2
  <2>3. CASE scan.at = i /\ (scan.page - 1) * PageSize < k
    <3>1. c = Connectors[i] /\ remote[c] \in Seq(Repos) /\ k \in DOMAIN remote[c]
          /\ remote[c][k] = r /\ matches(c, r)
      BY <1>0, <1>2, <1>4, <2>1, <2>3 DEF RemoteType
    <3>2. /\ scan.page * PageSize \in Nat /\ MaxPages * PageSize \in Nat
      BY <1>2, PageCounts
    <3>3. CASE k <= scan.page * PageSize
      <4>1. \E l \in DOMAIN page : page[l] = r
        <5>1. \E l \in DOMAIN Page(remote[c], scan.page) :
                  Page(remote[c], scan.page)[l] = remote[c][k]
          <6>1. /\ remote[c] \in Seq(Repos) /\ scan.page \in 1..MaxPages /\ k \in DOMAIN remote[c]
                /\ (scan.page - 1) * PageSize < k /\ k <= scan.page * PageSize
            BY <1>2, <2>3, <3>1, <3>3
          <6> QED BY ONLY <6>1, OnPage
        <5> QED BY <1>0, <3>1, <5>1
      <4>2. scan'.found[r] = c /\ c # NoConnector
        BY <1>2, <1>4, <3>1, <4>1
      <4> QED BY <1>7, <4>2
    <3>4. CASE scan.page * PageSize < k
      <4>1. k <= MaxPages * PageSize
        BY <2>1, <3>2
      <4>2. ~ IsLast(c, scan.page)
        BY <1>2, <1>4, <3>1, <3>4, <4>1, NotLast
      <4>3. scan'.at = i /\ scan'.page = scan.page + 1
        BY <1>2, <2>3, <4>2
      <4>4. (scan'.page - 1) * PageSize < k
        <5>1. scan'.page - 1 = scan.page
          BY <2>1, <4>3
        <5> QED BY <3>4, <5>1
      <4>5. Ahead(i, k)'
        BY <4>3, <4>4 DEF Ahead
      <4> QED BY <1>8, <1>10, <4>5
    <3> QED BY <2>1, <3>2, <3>3, <3>4
  <2> QED BY <1>10, <2>2, <2>3 DEF Ahead
<1>11. OnTheWay(t)'
  BY <1>3, <1>9, <1>10
<1> QED BY <1>5, <1>6, <1>11

\* What is sure stays so, for the reason it is.
LEMMA SureNext == TypeOK /\ LockInv /\ SureInv /\ [Next]_vars => SureInv'
<1> SUFFICES ASSUME TypeOK, LockInv, SureInv, [Next]_vars, NEW t \in Tasks, task'[t].sure
             PROVE  Promised(t)' /\ Current(t)' /\ OnTheWay(t)'
  BY DEF SureInv
<1> DEFINE Goal == Promised(t)' /\ Current(t)' /\ OnTheWay(t)'
<1>1. Unsure => Goal
  BY DEF Unsure
<1>2. ASSUME task'[t].pc = "idle" PROVE Goal
  BY <1>2 DEF Promised, Current, OnTheWay
<1>3. ASSUME task'[t] = task[t], UNCHANGED <<dbVars, remoteVars, storeVars, config, scan>>
      PROVE  Goal
  <2>1. due' = due /\ snap' = snap
    BY <1>3 DEF storeVars
  <2> QED BY <1>3, <2>1, OthersDo
<1>4. ASSUME Edits PROVE Goal
  BY <1>1, <1>4, EditIs
<1>5. ASSUME PollDue PROVE Goal
  <2>1. /\ due' /\ snap' = snap /\ UNCHANGED <<dbVars, remoteVars>>
        /\ UNCHANGED <<config, scan>> /\ UNCHANGED task
    BY <1>5 DEF PollDue, cacheVars
  <2> QED BY <2>1, OthersDo
<1>6. ASSUME NEW u \in Tasks, Rescan(u) PROVE Goal
  <2>1. UNCHANGED <<dbVars, remoteVars, storeVars, config, scan>>
    BY <1>6 DEF Rescan, cacheVars
  <2>2. u # t
    BY <1>6, RescanIs
  <2> QED BY <1>3, <1>6, <2>1, <2>2, RescanIs DEF OnlyTask
<1>7. ASSUME NEW u \in Tasks, NEW r \in Repos, webhook(u, r) \/ trigger(u, r) PROVE Goal
  <2>1. UNCHANGED <<dbVars, remoteVars, storeVars, config, scan>>
    BY <1>7, HookIs DEF cacheVars
  <2>2. CASE u # t
    <3>1. task'[t] = task[t]
      BY <1>7, <2>2, HookIs, ZenonT(40) DEF OnlyTask
    <3> QED BY <1>3, <2>1, <3>1
  <2>3. CASE u = t
    <3>1. task'[t].pc = "reload" /\ task'[t].repo = r /\ task'[t].sure = (Sound /\ Finders(r) # {})
      BY <1>7, <2>3, HookIs
    <3>2. Sound /\ Finders(r) # {}
      BY <3>1, Zenon
    <3>3. Sound'
      BY <2>1, <3>2, StaysSound DEF storeVars
    <3>4. PICK i, k : Findable(i, k, r)
      BY <3>2, FinderFinds
    <3>5. Findable(i, k, task[t].repo)'
      <4>1. UNCHANGED <<remote, dormant>> /\ scan_document' = scan_document
        BY <2>1, SameDocument DEF remoteVars
      <4>2. matches(Connectors[i], task[t].repo)'
        BY <3>1, <3>4, <4>1 DEF Findable, matches, selected, Hit
      <4> QED BY <3>1, <3>4, <4>1, <4>2 DEF Findable
    <3> QED BY <3>1, <3>3, <3>5 DEF Promised, Current, OnTheWay
  <2> QED BY <2>2, <2>3
<1>8. ASSUME NEW u \in Tasks, reload_config(u) PROVE Goal
  <2>1. /\ due' = FALSE /\ (due \/ snap = scan_document => snap' = scan_document)
        /\ UNCHANGED <<dbVars, remoteVars>> /\ UNCHANGED scan
        /\ config' = config \/ config' = snap'
    BY <1>8, ReloadIs, ZenonT(40)
  <2>2. CASE u # t
    <3>1. task'[t] = task[t]
      BY <1>8, <2>2, ReloadIs, ZenonT(40) DEF OnlyTask
    <3> QED BY <2>1, <3>1, OthersDo
  <2>3. CASE u = t /\ task'[t].pc = "lock"
    <3>1. /\ task[t].pc = "reload" /\ task'[t].repo = task[t].repo /\ task[t].sure
          /\ config' = snap'
      BY <1>8, <2>3, ReloadIs
    <3>2. Sound /\ \E i, k : Findable(i, k, task[t].repo)
      BY <3>1 DEF SureInv, Promised
    <3>3. Sound'
      BY <2>1, <3>2, StaysSound
    <3>4. PICK i, k : Findable(i, k, task[t].repo)
      BY <3>2
    <3>5. Findable(i, k, task[t].repo)'
      BY <2>1, <3>1, <3>4, StillFound
    <3>6. config' = scan_document'
      <4>1. scan_document' = scan_document
        BY <2>1, SameDocument
      <4> QED BY <2>1, <3>1, <3>2, <4>1 DEF Sound
    <3> QED BY <2>3, <3>3, <3>5, <3>6 DEF Promised, Current, OnTheWay
  <2> QED BY <1>2, <1>8, <2>2, <2>3, ReloadIs
<1>9. ASSUME NEW u \in Tasks, BeginScan(u) \/ discover(u) \/ BuildRaises(u) \/ SwapBindings(u)
      PROVE  Goal
  <2>1. /\ UNCHANGED <<dbVars, remoteVars, storeVars, config>>
    BY <1>9 DEF BeginScan, discover, BuildRaises, SwapBindings
  <2>2. Head(lock) = u /\ OnlyTask(u)
    <3>1. CASE BeginScan(u)
      BY <3>1, TaskMoves, TypeParts DEF BeginScan
    <3>2. CASE discover(u)
      BY <3>2, TypeParts DEF discover, Scanning, LockInv, OnlyTask, TaskType
    <3>3. CASE BuildRaises(u) \/ SwapBindings(u)
      BY <3>3, ReleaseIs DEF LockInv
    <3> QED BY <1>9, <3>1, <3>2, <3>3
  <2>3. CASE u # t
    <3>1. task'[t] = task[t] /\ task[t].pc # "scan"
      BY <2>2, <2>3 DEF OnlyTask, LockInv
    <3>2. due' = due /\ snap' = snap
      BY <2>1 DEF storeVars
    <3> QED BY <2>1, <3>1, <3>2, OthersDo
  <2>4. CASE u = t /\ BeginScan(t)
    <3>1. task[t].sure
      BY <2>4, TaskMoves, TypeParts DEF BeginScan
    <3> QED BY <2>4, <3>1, BeginsAhead
  <2>5. CASE u = t /\ discover(t)
    <3>1. task[t].sure
      BY <2>5 DEF discover
    <3> QED BY <2>5, <3>1, ReadsAhead
  <2>6. CASE u = t /\ (BuildRaises(t) \/ SwapBindings(t))
    BY <1>2, <2>6, ReleaseIs
  <2> QED BY <1>9, <2>3, <2>4, <2>5, <2>6
<1>10. ASSUME NEW u \in Tasks, PageFails(u) PROVE Goal
  BY <1>1, <1>10, DisturbIs DEF PageFails
<1>11. ASSUME UNCHANGED vars PROVE Goal
  <2>1. task'[t] = task[t] /\ UNCHANGED <<dbVars, remoteVars, storeVars, config, scan>>
    BY <1>11 DEF vars, cacheVars
  <2> QED BY <1>3, <2>1
<1>12. Scans \subseteq Tasks /\ Hooks \subseteq Tasks
  BY DEF Tasks
<1> HIDE DEF Goal
<1>13. Goal
  BY <1>4, <1>5, <1>6, <1>7, <1>8, <1>9, <1>10, <1>11, <1>12 DEF Next, Edits, TaskStep
<1> QED BY <1>13 DEF Goal

\* A hook that is sure is not told that its repository is out of scope.
LEMMA MissNext ==
    TypeOK /\ LockInv /\ SureInv /\ MissRediscovers /\ [Next]_vars => MissRediscovers'
<1> SUFFICES ASSUME TypeOK, LockInv, SureInv, MissRediscovers, [Next]_vars,
                    NEW t \in Hooks, task'[t].answer = "out_of_scope", task'[t].sure
             PROVE  FALSE
  BY DEF MissRediscovers
<1>0. t \in Tasks /\ t \notin Scans /\ Scans \subseteq Tasks /\ Hooks \subseteq Tasks
  BY DEF Tasks
<1>1. ASSUME task'[t].answer = task[t].answer, task'[t].sure = task[t].sure PROVE FALSE
  BY <1>1 DEF MissRediscovers
<1>2. ~ Unsure
  BY <1>0 DEF Unsure
<1>3. ~ Edits
  BY <1>2, EditIs
<1>4. ASSUME NEW u \in Tasks, Rescan(u) PROVE FALSE
  BY <1>0, <1>1, <1>4, RescanIs DEF OnlyTask
<1>5. ASSUME NEW u \in Tasks, NEW r \in Repos, webhook(u, r) \/ trigger(u, r) PROVE FALSE
  BY <1>0, <1>1, <1>5, HookIs DEF OnlyTask
<1>6. ASSUME NEW u \in Tasks, reload_config(u) PROVE FALSE
  BY <1>0, <1>1, <1>6, ReloadIs DEF OnlyTask
<1>7. ASSUME NEW u \in Tasks, BeginScan(u) PROVE FALSE
  BY <1>0, <1>1, <1>7, TaskMoves, TypeParts DEF BeginScan, OnlyTask
<1>8. ASSUME NEW u \in Tasks, BuildRaises(u) \/ SwapBindings(u) PROVE FALSE
  <2>1. CASE u # t
    BY <1>0, <1>1, <1>8, <2>1, ReleaseIs DEF OnlyTask
  <2>2. CASE u = t
    <3>1. /\ task[t].pc = "scan" /\ task[t].sure /\ scan.at \notin Index
          /\ Answer(t, scan.found[task[t].repo], task[t].ref) = "out_of_scope"
      BY <1>0, <1>8, <2>2, ReleaseIs
    <3>2. scan.found[task[t].repo] = NoConnector
      BY <1>0, <3>1 DEF Answer
    <3>3. PICK i, k : Findable(i, k, task[t].repo) /\ Ahead(i, k)
      BY <1>0, <3>1, <3>2 DEF SureInv, OnTheWay
    <3>4. scan.at \in 1..(Len(Connectors) + 1)
      BY TypeParts DEF CacheType, ScanStates
    <3>5. /\ i \in 1..Len(Connectors) /\ Len(Connectors) \in Nat
          /\ scan.at \notin 1..Len(Connectors)
      BY <3>1, <3>3, Numbered DEF Findable
    <3>6. scan.at < i \/ scan.at = i
      BY <3>3 DEF Ahead
    <3> QED BY <3>4, <3>5, <3>6
  <2> QED BY <2>1, <2>2
<1>9. ASSUME NEW u \in Tasks, PageFails(u) PROVE FALSE
  BY <1>2, <1>9, DisturbIs DEF PageFails
<1>10. CASE UNCHANGED task
  BY <1>1, <1>10
<1> QED BY <1>0, <1>3, <1>4, <1>5, <1>6, <1>7, <1>8, <1>9, <1>10
        DEF Next, Edits, TaskStep, PollDue, discover, vars

\* "A miss triggers a rediscovery rather than dropping the event"
\* (BindingCache.lookup): a hook is told "out of scope" only if that was so at
\* some time since it arrived, or discovery was disturbed.  Whichever refreshes
\* are under way, its own one reads every page of every connector.
THEOREM MissesRediscover == Spec => []MissRediscovers
BY DiscoveryInit, LockNext, SureNext, MissNext, PTL DEF Spec
=============================================================================
