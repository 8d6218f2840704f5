---------------------------- MODULE DomainsProofs ---------------------------
(***************************************************************************)
(* The business domains of the pages keep what they promise, for any       *)
(* sources, tables, domains, views and number of calls.                    *)
(*                                                                         *)
(* The invariant says of every reading that counts what it has found: the  *)
(* domains and views that are stored, but for the writes that are answered *)
(* later.  The lists of the page are then the stored ones but for those    *)
(* writes, so that nothing is missing when no call is under way; and since *)
(* a domain has at most one addition under way, what an addition writes    *)
(* holds the members that are stored, unless the page was overtaken.       *)
(***************************************************************************)
EXTENDS Pages, Sequences, TLAPS

DomainsStores ==
  [groups : [DomainGroup -> DomainsRows \cup {Nothing}], views : [DomainView -> DomainSource \cup {Nothing}], spent : SUBSET DomainView, writes : Nat]
DomainsShows == DomainsViews \cup {Nothing}
DomainsPages ==
  [source : DomainSource, session : Nat, request : Nat, loaded : BOOLEAN, groups : DomainsLists, views : SUBSET DomainView,
   shown : DomainsShows, version : Nat, newest : Nat, overtaken : BOOLEAN]


\* The calls under way.
DomainsUnder == {i \in DOMAIN bCalls : bCalls[i] # Nothing}
DomainsCreates == {"view", "save"}
DomainsOfGroup(c) == c.kind \in {"add", "group"}
DomainsOfView(c) == c.kind \in DomainsCreates \cup {"delete"}
DomainsDone(c) == c.stage = "done"
DomainsLast(c) == c.kind = "read" /\ DomainsDone(c) /\ Domains!IsLast(c)
\* A reading that counts, and that no answered write is newer than.
DomainsCounts(c) == DomainsLast(c) /\ bPage.newest <= c.stamp

\* The domain as it is stored, and as a list has it; a view likewise.
DomainsOwned(g, s) == bStore.groups[g] # Nothing /\ bStore.groups[g].source = s
DomainsSameGroup(g, list) == IF DomainsOwned(g, bPage.source) THEN list[g] = bStore.groups[g].members ELSE list[g] = Nothing
DomainsSameView(v, list) == bStore.views[v] = bPage.source <=> v \in list

DomainsTypesOK ==
  /\ bStore \in DomainsStores /\ bPage \in DomainsPages /\ bCalls \in Seq(DomainsCalls \cup {Nothing})
  /\ bPending \in SUBSET DomainGroup /\ bPanel \in BOOLEAN

\* What a call carries, and how old it is.
DomainsCallOK(c) ==
  /\ c.session <= bPage.session /\ c.request <= bPage.request /\ c.version <= bPage.version /\ c.stamp <= bStore.writes
  /\ c.session = bPage.session => c.source = bPage.source
  /\ c.kind = "add" => c.group \in bPending
  /\ c.kind = "add" \/ (c.kind = "group" /\ DomainsDone(c)) => c.group \in DomainGroup /\ DomainsOwned(c.group, c.source)
  /\ c.kind = "delete" \/ (c.kind \in DomainsCreates /\ DomainsDone(c)) =>
       c.view \in bStore.spent /\ bStore.views[c.view] \in {Nothing, c.source}
  /\ c.kind = "delete" /\ DomainsDone(c) => bStore.views[c.view] = Nothing
  /\ \A g \in DomainGroup : c.lists.groups[g] # Nothing => DomainsOwned(g, c.source)
  /\ \A v \in c.lists.views : v \in bStore.spent /\ bStore.views[v] \in {Nothing, c.source}
\* One addition to a domain at a time, built on what is stored unless the lists were behind.
DomainsAddOK(c) ==
  c.kind = "add" =>
    /\ DomainsDone(c) => bStore.groups[c.group].members = c.members
    /\ c.stage = "sent" /\ ~c.behind => bStore.groups[c.group].members \subseteq c.members
\* What the panel had is what the page shows, while nothing was patched.
DomainsHadOK(c) ==
  c.kind \in {"group", "view"} /\ Domains!Mine(c) /\ c.version = bPage.version => c.lists = Domains!Given
\* A domain the panel has made is in no list until its answer is.
DomainsFreshOK(c) ==
  c.kind = "group" /\ DomainsDone(c) /\ Domains!Mine(c) /\ c.version = bPage.version =>
    /\ bStore.groups[c.group].members = c.members
    /\ c.lists.groups[c.group] = Nothing
    /\ \A j \in DomainsUnder : bCalls[j].kind = "add" => bCalls[j].group # c.group
\* A view made is there, or a later deletion of it is still to be answered.
DomainsMadeOK(c) ==
  c.kind \in DomainsCreates /\ DomainsDone(c) /\ Domains!Mine(c) /\ bPage.newest <= c.stamp =>
    \/ bStore.views[c.view] = c.source
    \/ \E j \in DomainsUnder : /\ bCalls[j].kind = "delete" /\ DomainsDone(bCalls[j]) /\ bCalls[j].view = c.view
                               /\ bCalls[j].source = c.source /\ bCalls[j].stamp > c.stamp
\* Two calls about one thing.
DomainsPairOK(i, j) ==
  LET c == bCalls[i]  d == bCalls[j] IN
  /\ c.kind = "add" /\ d.kind = "add" /\ c.group = d.group => i = j
  /\ c.kind = "read" /\ d.kind = "read" /\ c.request = d.request => i = j
  /\ c.kind \in DomainsCreates /\ DomainsDone(c) /\ d.kind \in DomainsCreates /\ DomainsDone(d) /\ c.view = d.view => i = j
  /\ c.kind \in DomainsCreates /\ DomainsDone(c) /\ d.kind = "delete" /\ d.view = c.view => d.source = c.source
  /\ c.kind \in DomainsCreates /\ DomainsDone(c) /\ c.view \in d.lists.views => d.source = c.source
  /\ c.kind = "read" /\ DomainsDone(c) /\ d.kind = "group" /\ DomainsDone(d) /\ d.stamp > c.stamp => c.lists.groups[d.group] = Nothing
\* What a reading that counts has found is stored, but for writes answered later.
DomainsFoundOK(c) ==
  DomainsCounts(c) =>
    /\ \A g \in DomainGroup :
         \/ DomainsSameGroup(g, c.lists.groups)
         \/ \E j \in DomainsUnder : /\ DomainsOfGroup(bCalls[j]) /\ DomainsDone(bCalls[j]) /\ bCalls[j].group = g
                                    /\ bCalls[j].source = bPage.source /\ bCalls[j].stamp > c.stamp
    /\ \A v \in DomainView :
         \/ DomainsSameView(v, c.lists.views)
         \/ \E j \in DomainsUnder : /\ DomainsOfView(bCalls[j]) /\ DomainsDone(bCalls[j]) /\ bCalls[j].view = v
                                    /\ bCalls[j].source = bPage.source /\ bCalls[j].stamp > c.stamp
    /\ bPage.loaded => \A g \in DomainGroup : bPage.groups[g] # Nothing => c.lists.groups[g] # Nothing
    /\ \A j \in DomainsUnder :
         LET d == bCalls[j] IN
         /\ d.kind = "add" /\ d.source = bPage.source => c.lists.groups[d.group] # Nothing
         /\ d.kind \in {"group", "view"} /\ Domains!Mine(d) =>
              \A g \in DomainGroup : d.lists.groups[g] # Nothing => c.lists.groups[g] # Nothing
         /\ d.kind = "group" /\ DomainsDone(d) /\ d.source = bPage.source /\ d.stamp <= c.stamp => c.lists.groups[d.group] # Nothing
\* What the page lists is stored for its source.
DomainsListedOK ==
  bPage.loaded =>
    /\ \A g \in DomainGroup : bPage.groups[g] # Nothing => DomainsOwned(g, bPage.source)
    /\ \A v \in bPage.views : v \in bStore.spent /\ bStore.views[v] \in {Nothing, bPage.source}
    /\ \A i \in DomainsUnder : bCalls[i].kind \in DomainsCreates /\ DomainsDone(bCalls[i]) /\ bCalls[i].view \in bPage.views =>
         bCalls[i].source = bPage.source
\* The lists are those of the store, but for writes still to be answered.
DomainsCurrentOK ==
  bPage.loaded /\ ~bPage.overtaken =>
    /\ \A g \in DomainGroup : bPage.groups[g] # Nothing =>
         \/ bPage.groups[g] = bStore.groups[g].members
         \/ \E j \in DomainsUnder : bCalls[j].kind = "add" /\ DomainsDone(bCalls[j]) /\ bCalls[j].group = g
    /\ \A g \in DomainGroup : bPage.groups[g] = Nothing /\ DomainsOwned(g, bPage.source) =>
         \E j \in DomainsUnder : /\ bCalls[j].kind = "group" /\ DomainsDone(bCalls[j]) /\ bCalls[j].group = g
                                 /\ bCalls[j].source = bPage.source
    /\ \A v \in DomainView :
         \/ DomainsSameView(v, bPage.views)
         \/ \E j \in DomainsUnder : /\ DomainsOfView(bCalls[j]) /\ DomainsDone(bCalls[j]) /\ bCalls[j].view = v
                                    /\ bCalls[j].source = bPage.source
\* A domain shown as a view is the domain stored, but for an addition still to be answered.
DomainsShownOK ==
  bPage.shown # Nothing /\ ~bPage.shown.behind =>
    LET g == bPage.shown.group IN
    /\ DomainsOwned(g, bPage.source)
    /\ \/ bStore.groups[g].members = bPage.shown.roots
       \/ \E j \in DomainsUnder : bCalls[j].kind = "add" /\ DomainsDone(bCalls[j]) /\ bCalls[j].group = g
\* A view that is stored was made.
DomainsStoredOK == \A v \in DomainView : bStore.views[v] # Nothing => v \in bStore.spent

DomainsInv ==
  /\ DomainsTypesOK /\ DomainsStoredOK /\ DomainsListedOK /\ DomainsCurrentOK /\ DomainsShownOK
  /\ \A i \in DomainsUnder : /\ DomainsCallOK(bCalls[i]) /\ DomainsAddOK(bCalls[i]) /\ DomainsHadOK(bCalls[i]) /\ DomainsFreshOK(bCalls[i])
                             /\ DomainsMadeOK(bCalls[i]) /\ DomainsFoundOK(bCalls[i])
  /\ \A i, j \in DomainsUnder : DomainsPairOK(i, j)

\* The fields of a record of each of the large types.
LEMMA DomainsCallFields ==
  ASSUME NEW c \in DomainsCalls
  PROVE  /\ c.kind \in DomainsKinds /\ c.session \in Nat /\ c.source \in DomainSource /\ c.stage \in DomainsStages /\ c.stamp \in Nat
         /\ c.group \in DomainsGroupOrNone /\ c.view \in DomainsViewOrNone /\ c.members \in SUBSET DomainTable
         /\ c.lists.groups \in DomainsLists /\ c.lists.views \in SUBSET DomainView
         /\ c.version \in Nat /\ c.request \in Nat /\ c.behind \in BOOLEAN
BY DEF DomainsCalls, DomainsRead

LEMMA DomainsPageFields ==
  ASSUME bPage \in DomainsPages
  PROVE  /\ bPage.source \in DomainSource /\ bPage.session \in Nat /\ bPage.request \in Nat /\ bPage.loaded \in BOOLEAN
         /\ bPage.groups \in DomainsLists /\ bPage.views \in SUBSET DomainView /\ bPage.shown \in DomainsShows
         /\ bPage.version \in Nat
         /\ bPage.newest \in Nat /\ bPage.overtaken \in BOOLEAN
BY DEF DomainsPages

LEMMA DomainsStoreFields ==
  ASSUME bStore \in DomainsStores
  PROVE  /\ bStore.groups \in [DomainGroup -> DomainsRows \cup {Nothing}] /\ bStore.views \in [DomainView -> DomainSource \cup {Nothing}]
         /\ bStore.spent \in SUBSET DomainView /\ bStore.writes \in Nat
BY DEF DomainsStores

\* What a call is when it is made.
LEMMA DomainsNewIs ==
  ASSUME DomainsSuitable, bPage \in DomainsPages, NEW kind \in DomainsKinds
  PROVE  /\ Domains!New(kind) \in DomainsCalls
         /\ Domains!New(kind).kind = kind /\ Domains!New(kind).session = bPage.session
         /\ Domains!New(kind).source = bPage.source
         /\ Domains!New(kind).stage = "sent" /\ Domains!New(kind).stamp = 0 /\ Domains!New(kind).group = Nothing
         /\ Domains!New(kind).view = Nothing
         /\ Domains!New(kind).members = {} /\ Domains!New(kind).lists = Domains!Unread
         /\ Domains!New(kind).version = 0 /\ Domains!New(kind).request = 0
         /\ Domains!New(kind).behind = FALSE
<1>0. Domains!NoGroups \in DomainsLists
  <2>1. Nothing \in (SUBSET DomainTable) \cup {Nothing}
    OBVIOUS
  <2>2. [g \in DomainGroup |-> Nothing] \in [DomainGroup -> (SUBSET DomainTable) \cup {Nothing}]
    BY <2>1, Zenon
  <2> QED
    BY <2>2 DEF Domains!NoGroups, DomainsLists
<1>1. Domains!Unread \in DomainsRead /\ {} \in SUBSET DomainTable
  BY <1>0 DEF Domains!Unread, DomainsRead
<1>2. bPage.session \in Nat /\ bPage.source \in DomainSource
  BY DomainsPageFields
<1>3. "sent" \in DomainsStages /\ Nothing \in DomainsGroupOrNone /\ Nothing \in DomainsViewOrNone /\ 0 \in Nat /\ FALSE \in BOOLEAN
  BY DEF DomainsStages, DomainsGroupOrNone, DomainsViewOrNone
<1> QED
  BY <1>1, <1>2, <1>3 DEF Domains!New, DomainsCalls

\* A call as it is answered.
DomainsStaged(c, stage) == [c EXCEPT !.stage = stage]
DomainsStamped(c, stage, stamp) == [c EXCEPT !.stage = stage, !.stamp = stamp]
DomainsGrouped(c, stage, stamp, g) == [c EXCEPT !.stage = stage, !.stamp = stamp, !.group = g]
DomainsViewed(c, stage, stamp, v) == [c EXCEPT !.stage = stage, !.stamp = stamp, !.view = v]
DomainsFound(c, stage, stamp, lists) == [c EXCEPT !.stage = stage, !.stamp = stamp, !.lists = lists]

LEMMA DomainsStagedIs ==
  ASSUME NEW c \in DomainsCalls, NEW stage \in DomainsStages, NEW d, d = DomainsStaged(c, stage)
  PROVE  /\ d \in DomainsCalls /\ d.stage = stage
         /\ d.kind = c.kind /\ d.session = c.session /\ d.source = c.source /\ d.stamp = c.stamp
         /\ d.group = c.group /\ d.view = c.view /\ d.members = c.members /\ d.lists = c.lists
         /\ d.version = c.version /\ d.request = c.request /\ d.behind = c.behind
BY DEF DomainsCalls, DomainsStaged

LEMMA DomainsStampedIs ==
  ASSUME NEW c \in DomainsCalls, NEW stage \in DomainsStages, NEW stamp \in Nat, NEW d,
         d = DomainsStamped(c, stage, stamp)
  PROVE  /\ d \in DomainsCalls /\ d.stage = stage /\ d.stamp = stamp
         /\ d.kind = c.kind /\ d.session = c.session /\ d.source = c.source
         /\ d.group = c.group /\ d.view = c.view /\ d.members = c.members /\ d.lists = c.lists
         /\ d.version = c.version /\ d.request = c.request /\ d.behind = c.behind
BY DEF DomainsCalls, DomainsStamped

LEMMA DomainsGroupedIs ==
  ASSUME NEW c \in DomainsCalls, NEW stage \in DomainsStages, NEW stamp \in Nat, NEW g \in DomainGroup, NEW d,
         d = DomainsGrouped(c, stage, stamp, g)
  PROVE  /\ d \in DomainsCalls /\ d.stage = stage /\ d.stamp = stamp /\ d.group = g
         /\ d.kind = c.kind /\ d.session = c.session /\ d.source = c.source
         /\ d.view = c.view /\ d.members = c.members /\ d.lists = c.lists
         /\ d.version = c.version /\ d.request = c.request /\ d.behind = c.behind
BY DEF DomainsCalls, DomainsGrouped, DomainsGroupOrNone

LEMMA DomainsViewedIs ==
  ASSUME NEW c \in DomainsCalls, NEW stage \in DomainsStages, NEW stamp \in Nat, NEW v \in DomainView, NEW d,
         d = DomainsViewed(c, stage, stamp, v)
  PROVE  /\ d \in DomainsCalls /\ d.stage = stage /\ d.stamp = stamp /\ d.view = v
         /\ d.kind = c.kind /\ d.session = c.session /\ d.source = c.source
         /\ d.group = c.group /\ d.members = c.members /\ d.lists = c.lists
         /\ d.version = c.version /\ d.request = c.request /\ d.behind = c.behind
BY DEF DomainsCalls, DomainsViewed, DomainsViewOrNone

LEMMA DomainsReadIs ==
  ASSUME NEW c \in DomainsCalls, NEW stage \in DomainsStages, NEW stamp \in Nat, NEW lists \in DomainsRead, NEW d,
         d = DomainsFound(c, stage, stamp, lists)
  PROVE  /\ d \in DomainsCalls /\ d.stage = stage /\ d.stamp = stamp /\ d.lists = lists
         /\ d.kind = c.kind /\ d.session = c.session /\ d.source = c.source
         /\ d.group = c.group /\ d.view = c.view /\ d.members = c.members
         /\ d.version = c.version /\ d.request = c.request /\ d.behind = c.behind
BY DEF DomainsCalls, DomainsFound

\* The list of calls with one more, with one replaced, and with one answered.
LEMMA DomainsAsked ==
  ASSUME DomainsSuitable, DomainsTypesOK, NEW c \in DomainsCalls, Domains!Ask(c), NEW n, n = Len(bCalls) + 1
  PROVE  /\ bCalls' \in Seq(DomainsCalls \cup {Nothing}) /\ n \notin DomainsUnder /\ DomainsUnder' = DomainsUnder \cup {n} /\ bCalls'[n] = c
         /\ \A i \in DomainsUnder : bCalls'[i] = bCalls[i] /\ bCalls[i] \in DomainsCalls
<1>1. bCalls \in Seq(DomainsCalls \cup {Nothing}) /\ bCalls' = Append(bCalls, c) /\ c # Nothing
  BY DEF DomainsTypesOK, Domains!Ask, DomainsSuitable
<1>2. Len(bCalls) \in Nat /\ DOMAIN bCalls = 1 .. Len(bCalls)
  BY <1>1
<1>3. bCalls' \in Seq(DomainsCalls \cup {Nothing}) /\ DOMAIN bCalls' = 1 .. n /\ bCalls'[n] = c
  BY <1>1
<1>4. \A i \in 1 .. Len(bCalls) : bCalls'[i] = bCalls[i] /\ bCalls[i] \in DomainsCalls \cup {Nothing}
  BY <1>1
<1>5. \A i : i \in 1 .. n <=> i \in 1 .. Len(bCalls) \/ i = n
  BY <1>2
<1>6. n \notin 1 .. Len(bCalls)
  BY <1>2
<1> QED
  BY <1>1, <1>2, <1>3, <1>4, <1>5, <1>6 DEF DomainsUnder

LEMMA DomainsAnswered ==
  ASSUME DomainsSuitable, DomainsTypesOK, NEW i \in DomainsUnder, NEW c \in DomainsCalls, Domains!Answer(i, c)
  PROVE  /\ bCalls' \in Seq(DomainsCalls \cup {Nothing}) /\ DomainsUnder' = DomainsUnder /\ bCalls'[i] = c
         /\ \A j \in DomainsUnder : bCalls[j] \in DomainsCalls /\ (j # i => bCalls'[j] = bCalls[j])
<1>1. bCalls \in Seq(DomainsCalls \cup {Nothing}) /\ bCalls' = [bCalls EXCEPT ![i] = c] /\ c # Nothing /\ i \in DOMAIN bCalls
  BY DEF DomainsTypesOK, Domains!Answer, DomainsSuitable, DomainsUnder
<1>2. bCalls' \in Seq(DomainsCalls \cup {Nothing}) /\ DOMAIN bCalls' = DOMAIN bCalls
  BY <1>1
<1>3. \A j \in DOMAIN bCalls : bCalls[j] \in DomainsCalls \cup {Nothing}
  BY <1>1
<1>4. bCalls'[i] = c /\ \A j \in DOMAIN bCalls : j # i => bCalls'[j] = bCalls[j]
  BY <1>1
<1> QED
  BY <1>1, <1>2, <1>3, <1>4 DEF DomainsUnder

LEMMA DomainsSettled ==
  ASSUME DomainsSuitable, DomainsTypesOK, NEW i \in DomainsUnder, Domains!Answer(i, Nothing)
  PROVE  /\ bCalls' \in Seq(DomainsCalls \cup {Nothing}) /\ DomainsUnder' = DomainsUnder \ {i}
         /\ \A j \in DomainsUnder : bCalls[j] \in DomainsCalls /\ (j # i => bCalls'[j] = bCalls[j])
<1>1. bCalls \in Seq(DomainsCalls \cup {Nothing}) /\ bCalls' = [bCalls EXCEPT ![i] = Nothing] /\ i \in DOMAIN bCalls
  BY DEF DomainsTypesOK, Domains!Answer, DomainsUnder
<1>2. bCalls' \in Seq(DomainsCalls \cup {Nothing}) /\ DOMAIN bCalls' = DOMAIN bCalls
  BY <1>1
<1>3. \A j \in DOMAIN bCalls : bCalls[j] \in DomainsCalls \cup {Nothing}
  BY <1>1
<1>4. bCalls'[i] = Nothing /\ \A j \in DOMAIN bCalls : j # i => bCalls'[j] = bCalls[j]
  BY <1>1
<1> QED
  BY <1>1, <1>2, <1>3, <1>4 DEF DomainsUnder

\* A call is made while the page stays as it is.
DomainsAsks(c) ==
  /\ c.stage = "sent" /\ c.session = bPage.session /\ c.source = bPage.source /\ c.version <= bPage.version
  /\ c.stamp = 0 /\ c.request = 0 /\ c.kind # "read"
  /\ c.kind = "add" =>
       /\ c.group \in bPending' /\ c.group \notin bPending /\ c.group \in DomainGroup /\ bPage.loaded
       /\ bPage.groups[c.group] # Nothing /\ bPage.groups[c.group] \subseteq c.members /\ c.behind = bPage.overtaken
  /\ c.kind = "delete" => bPage.loaded /\ c.view \in bPage.views
  /\ c.lists = Domains!Given \/ (c.kind \notin {"group", "view"} /\ c.lists = Domains!Unread)

LEMMA DomainsAskKeeps ==
  ASSUME DomainsSuitable, DomainsInv, NEW c \in DomainsCalls, Domains!Ask(c), DomainsAsks(c), bStore' = bStore, bPage' = bPage,
         bPending \subseteq bPending', bPending' \in SUBSET DomainGroup, bPanel' \in BOOLEAN
  PROVE  DomainsInv' /\ Domains!KeepsMembers
<1> DEFINE n == Len(bCalls) + 1
<1>t. DomainsTypesOK /\ bPage \in DomainsPages /\ bStore \in DomainsStores
  BY DEF DomainsInv, DomainsTypesOK
<1>n. PICK k : k = n
  OBVIOUS
<1>a. /\ bCalls' \in Seq(DomainsCalls \cup {Nothing}) /\ k \notin DomainsUnder /\ DomainsUnder' = DomainsUnder \cup {k} /\ bCalls'[k] = c
      /\ \A i \in DomainsUnder : bCalls'[i] = bCalls[i] /\ bCalls[i] \in DomainsCalls
  BY <1>t, <1>n, DomainsAsked
<1> HIDE DEF n
<1>p. /\ bPage.session \in Nat /\ bPage.request \in Nat /\ bPage.version \in Nat /\ bPage.newest \in Nat
      /\ bStore.writes \in Nat /\ bPage.groups \in DomainsLists /\ bPage.views \in SUBSET DomainView
  BY <1>t, DomainsPageFields, DomainsStoreFields
<1>g. /\ Domains!Given.groups = IF bPage.loaded THEN bPage.groups ELSE Domains!NoGroups
      /\ Domains!Given.views = IF bPage.loaded THEN bPage.views ELSE {}
      /\ Domains!Unread.groups = Domains!NoGroups /\ Domains!Unread.views = {}
  BY DEF Domains!Given, Domains!Unread
<1>e. \A g \in DomainGroup : Domains!NoGroups[g] = Nothing
  BY DEF Domains!NoGroups
<1>c. \A g \in DomainGroup : c.lists.groups[g] # Nothing => bPage.loaded /\ bPage.groups[g] # Nothing
  BY <1>g, <1>e DEF DomainsAsks
<1>v. \A v \in c.lists.views : bPage.loaded /\ v \in bPage.views
  BY <1>g DEF DomainsAsks
<1>f. /\ c.stage = "sent" /\ c.session = bPage.session /\ c.source = bPage.source /\ c.version <= bPage.version
      /\ c.stamp = 0 /\ c.request = 0 /\ c.kind # "read"
  BY DEF DomainsAsks
<1>l. DomainsListedOK /\ DomainsCurrentOK /\ DomainsStoredOK /\ DomainsShownOK
  BY DEF DomainsInv
<1>1. DomainsTypesOK'
  BY <1>t, <1>a DEF DomainsTypesOK
<1>2. DomainsStoredOK'
  BY <1>l DEF DomainsStoredOK
<1>3. DomainsListedOK'
  BY <1>l, <1>a, <1>f DEF DomainsListedOK, DomainsOwned, DomainsDone
<1>4. DomainsCurrentOK'
  BY <1>l, <1>a DEF DomainsCurrentOK, DomainsOwned, DomainsDone, DomainsSameView, DomainsOfView
<1>5. DomainsShownOK'
  BY <1>l, <1>a DEF DomainsShownOK, DomainsOwned, DomainsDone
<1>6. \A i \in DomainsUnder : DomainsCallOK(bCalls[i])'
  BY <1>a DEF DomainsInv, DomainsCallOK, DomainsOwned, DomainsDone
<1>7. DomainsCallOK(c)'
  <2>1. /\ c.session <= bPage.session /\ c.request <= bPage.request /\ c.version <= bPage.version /\ c.stamp <= bStore.writes
        /\ c.session = bPage.session => c.source = bPage.source
        /\ ~DomainsDone(c)
    BY <1>p, <1>f DEF DomainsDone
  <2>2. c.kind = "add" => c.group \in bPending' /\ c.group \in DomainGroup /\ DomainsOwned(c.group, c.source)
    BY <1>f, <1>l DEF DomainsAsks, DomainsListedOK
  <2>3. c.kind = "delete" => c.view \in bStore.spent /\ bStore.views[c.view] \in {Nothing, c.source}
    BY <1>f, <1>l DEF DomainsAsks, DomainsListedOK
  <2>4. \A g \in DomainGroup : c.lists.groups[g] # Nothing => DomainsOwned(g, c.source)
    BY <1>f, <1>l, <1>c DEF DomainsListedOK
  <2>5. \A v \in c.lists.views : v \in bStore.spent /\ bStore.views[v] \in {Nothing, c.source}
    BY <1>f, <1>l, <1>v DEF DomainsListedOK
  <2> QED
    BY <2>1, <2>2, <2>3, <2>4, <2>5 DEF DomainsCallOK, DomainsOwned, DomainsDone
<1>8. \A i \in DomainsUnder : (DomainsAddOK(bCalls[i]) /\ DomainsHadOK(bCalls[i]))'
  BY <1>a DEF DomainsInv, DomainsAddOK, DomainsHadOK, DomainsDone, Domains!Mine, Domains!Given
<1>9. DomainsAddOK(c)'
  <2>1. ASSUME c.kind = "add", ~c.behind PROVE bStore.groups[c.group].members \subseteq c.members
    <3>1. ~\E j \in DomainsUnder : bCalls[j].kind = "add" /\ DomainsDone(bCalls[j]) /\ bCalls[j].group = c.group
      BY <2>1 DEF DomainsAsks, DomainsInv, DomainsCallOK
    <3>2. bPage.loaded /\ ~bPage.overtaken /\ bPage.groups[c.group] # Nothing /\ c.group \in DomainGroup
      BY <2>1 DEF DomainsAsks
    <3> QED
      BY <3>1, <3>2, <2>1, <1>l DEF DomainsCurrentOK, DomainsAsks
  <2> QED
    BY <2>1, <1>f DEF DomainsAddOK, DomainsDone
<1>10. DomainsHadOK(c)'
  BY DEF DomainsAsks, DomainsHadOK, Domains!Given, Domains!Mine
<1>11. \A i \in DomainsUnder : DomainsFreshOK(bCalls[i])'
  <2> SUFFICES ASSUME NEW i \in DomainsUnder, bCalls[i].kind = "group", DomainsDone(bCalls[i]), Domains!Mine(bCalls[i]), bCalls[i].version = bPage.version
               PROVE  /\ bStore.groups[bCalls[i].group].members = bCalls[i].members
                      /\ bCalls[i].lists.groups[bCalls[i].group] = Nothing
                      /\ \A j \in DomainsUnder' : bCalls'[j].kind = "add" => bCalls'[j].group # bCalls[i].group
    BY <1>a DEF DomainsFreshOK, DomainsDone, Domains!Mine
  <2>1. /\ bStore.groups[bCalls[i].group].members = bCalls[i].members
        /\ bCalls[i].lists.groups[bCalls[i].group] = Nothing
        /\ \A j \in DomainsUnder : bCalls[j].kind = "add" => bCalls[j].group # bCalls[i].group
    BY DEF DomainsInv, DomainsFreshOK
  <2>2. bCalls[i].lists = Domains!Given
    BY DEF DomainsInv, DomainsHadOK
  <2>3. c.kind = "add" => c.group # bCalls[i].group
    BY <2>1, <2>2, <1>g DEF DomainsAsks
  <2> QED
    BY <2>1, <2>3, <1>a
<1>12. \A i \in DomainsUnder : DomainsMadeOK(bCalls[i])'
  BY <1>a DEF DomainsInv, DomainsMadeOK, DomainsDone, Domains!Mine
<1>13. DomainsFreshOK(c)' /\ DomainsMadeOK(c)' /\ DomainsFoundOK(c)'
  BY <1>f DEF DomainsFreshOK, DomainsMadeOK, DomainsFoundOK, DomainsDone, DomainsCounts, DomainsLast
<1>14. \A i \in DomainsUnder : DomainsFoundOK(bCalls[i])'
  <2> SUFFICES ASSUME NEW i \in DomainsUnder, DomainsCounts(bCalls[i]) PROVE DomainsFoundOK(bCalls[i])'
    BY <1>a DEF DomainsFoundOK, DomainsCounts, DomainsLast, Domains!IsLast, Domains!Mine, DomainsDone
  <2>1. DomainsFoundOK(bCalls[i])
    BY DEF DomainsInv
  <2>2. bPage.loaded => \A g \in DomainGroup : bPage.groups[g] # Nothing => bCalls[i].lists.groups[g] # Nothing
    BY <2>1 DEF DomainsFoundOK
  <2>3. c.kind = "add" => bCalls[i].lists.groups[c.group] # Nothing
    BY <2>2 DEF DomainsAsks
  <2>4. \A g \in DomainGroup : c.lists.groups[g] # Nothing => bCalls[i].lists.groups[g] # Nothing
    BY <2>2, <1>c
  <2> QED
    BY <2>1, <2>3, <2>4, <1>a, <1>f DEF DomainsFoundOK, DomainsSameGroup, DomainsSameView, DomainsOwned,
       DomainsOfGroup, DomainsOfView, DomainsDone, DomainsCounts, DomainsLast, Domains!IsLast, Domains!Mine
<1>15. \A i, j \in DomainsUnder : DomainsPairOK(i, j)'
  BY <1>a DEF DomainsInv, DomainsPairOK, DomainsDone
<1>16. \A i \in DomainsUnder : DomainsPairOK(i, k)'
  <2> TAKE i \in DomainsUnder
  <2>1. bCalls[i].kind = "add" /\ c.kind = "add" => bCalls[i].group # c.group
    BY DEF DomainsInv, DomainsCallOK, DomainsAsks
  <2>2. bCalls[i].kind \in DomainsCreates /\ DomainsDone(bCalls[i]) /\ c.kind = "delete" /\ c.view = bCalls[i].view => c.source = bCalls[i].source
    BY <1>l, <1>f DEF DomainsListedOK, DomainsAsks
  <2>3. bCalls[i].kind \in DomainsCreates /\ DomainsDone(bCalls[i]) /\ bCalls[i].view \in c.lists.views => c.source = bCalls[i].source
    BY <1>l, <1>f, <1>v DEF DomainsListedOK
  <2> QED
    BY <2>1, <2>2, <2>3, <1>a, <1>f DEF DomainsPairOK, DomainsDone
<1>17. \A i \in DomainsUnder : DomainsPairOK(k, i)'
  <2> TAKE i \in DomainsUnder
  <2>1. bCalls[i].kind = "add" /\ c.kind = "add" => bCalls[i].group # c.group
    BY DEF DomainsInv, DomainsCallOK, DomainsAsks
  <2> QED
    BY <2>1, <1>a, <1>f DEF DomainsPairOK, DomainsDone
<1>18. DomainsPairOK(k, k)'
  BY <1>a, <1>f DEF DomainsPairOK, DomainsDone
<1>19. /\ \A i \in DomainsUnder' : /\ DomainsCallOK(bCalls[i])' /\ DomainsAddOK(bCalls[i])' /\ DomainsHadOK(bCalls[i])' /\ DomainsFreshOK(bCalls[i])'
                           /\ DomainsMadeOK(bCalls[i])' /\ DomainsFoundOK(bCalls[i])'
       /\ \A i, j \in DomainsUnder' : DomainsPairOK(i, j)'
  <2>1. \A i \in DomainsUnder : /\ DomainsCallOK(bCalls[i])' /\ DomainsAddOK(bCalls[i])' /\ DomainsHadOK(bCalls[i])' /\ DomainsFreshOK(bCalls[i])'
                                /\ DomainsMadeOK(bCalls[i])' /\ DomainsFoundOK(bCalls[i])'
    BY <1>6, <1>8, <1>11, <1>12, <1>14
  <2>2. /\ DomainsCallOK(bCalls[k])' /\ DomainsAddOK(bCalls[k])' /\ DomainsHadOK(bCalls[k])' /\ DomainsFreshOK(bCalls[k])'
        /\ DomainsMadeOK(bCalls[k])' /\ DomainsFoundOK(bCalls[k])'
    BY <1>a, <1>7, <1>9, <1>10, <1>13
  <2> QED
    BY <1>a, <2>1, <2>2, <1>15, <1>16, <1>17, <1>18
<1>20. Domains!KeepsMembers
  BY DEF Domains!KeepsMembers
<1> QED
  BY <1>1, <1>2, <1>3, <1>4, <1>5, <1>19, <1>20 DEF DomainsInv

\* The calls of the panel and of the canvas, each made from the page.
DomainsWithAddition(c, g, members, behind) == [c EXCEPT !.group = g, !.members = members, !.behind = behind]
DomainsWithLists(c, lists, version) == [c EXCEPT !.lists = lists, !.version = version]
DomainsWithMembers(c, members, lists, version) == [c EXCEPT !.members = members, !.lists = lists, !.version = version]

LEMMA DomainsAdditionIs ==
  ASSUME NEW c \in DomainsCalls, NEW g \in DomainGroup, NEW members \in SUBSET DomainTable,
         NEW behind \in BOOLEAN, NEW d,
         d = DomainsWithAddition(c, g, members, behind)
  PROVE  /\ d \in DomainsCalls /\ d.group = g /\ d.members = members /\ d.behind = behind
         /\ d.kind = c.kind /\ d.session = c.session /\ d.source = c.source /\ d.stage = c.stage /\ d.stamp = c.stamp
         /\ d.view = c.view /\ d.lists = c.lists /\ d.version = c.version /\ d.request = c.request
BY DEF DomainsCalls, DomainsWithAddition, DomainsGroupOrNone

LEMMA DomainsListedIs ==
  ASSUME NEW c \in DomainsCalls, NEW lists \in DomainsRead, NEW version \in Nat, NEW d,
         d = DomainsWithLists(c, lists, version)
  PROVE  /\ d \in DomainsCalls /\ d.lists = lists /\ d.version = version
         /\ d.kind = c.kind /\ d.session = c.session /\ d.source = c.source /\ d.stage = c.stage /\ d.stamp = c.stamp
         /\ d.group = c.group /\ d.view = c.view /\ d.members = c.members /\ d.request = c.request
         /\ d.behind = c.behind
BY DEF DomainsCalls, DomainsWithLists

LEMMA DomainsMembersIs ==
  ASSUME NEW c \in DomainsCalls, NEW members \in SUBSET DomainTable, NEW lists \in DomainsRead,
         NEW version \in Nat, NEW d,
         d = DomainsWithMembers(c, members, lists, version)
  PROVE  /\ d \in DomainsCalls /\ d.members = members /\ d.lists = lists /\ d.version = version
         /\ d.kind = c.kind /\ d.session = c.session /\ d.source = c.source /\ d.stage = c.stage /\ d.stamp = c.stamp
         /\ d.group = c.group /\ d.view = c.view /\ d.request = c.request /\ d.behind = c.behind
BY DEF DomainsCalls, DomainsWithMembers

LEMMA DomainsViewIs ==
  ASSUME NEW c \in DomainsCalls, NEW v \in DomainView, NEW d, d = [c EXCEPT !.view = v]
  PROVE  /\ d \in DomainsCalls /\ d.view = v
         /\ d.kind = c.kind /\ d.session = c.session /\ d.source = c.source /\ d.stage = c.stage /\ d.stamp = c.stamp
         /\ d.group = c.group /\ d.members = c.members /\ d.lists = c.lists /\ d.version = c.version
         /\ d.request = c.request /\ d.behind = c.behind
BY DEF DomainsCalls, DomainsViewOrNone

LEMMA DomainsAddKeeps ==
  ASSUME DomainsSuitable, DomainsInv, NEW g \in DomainGroup, NEW T \in SUBSET DomainTable, Domains!AddToDomain(g, T)
  PROVE  DomainsInv' /\ Domains!KeepsMembers
<1>t. bPage \in DomainsPages /\ bPending \in SUBSET DomainGroup /\ bPanel \in BOOLEAN
  BY DEF DomainsInv, DomainsTypesOK
<1>p. bPage.groups \in DomainsLists /\ bPage.overtaken \in BOOLEAN /\ bPage.version \in Nat
  BY <1>t, DomainsPageFields
<1>k. "add" \in DomainsKinds
  BY DEF DomainsKinds
<1>n. PICK c : c = Domains!New("add")
  OBVIOUS
<1>1. /\ c \in DomainsCalls /\ c.kind = "add" /\ c.session = bPage.session /\ c.source = bPage.source
      /\ c.stage = "sent" /\ c.stamp = 0 /\ c.lists = Domains!Unread /\ c.version = 0 /\ c.request = 0
  BY <1>t, <1>k, <1>n, DomainsNewIs
<1>m. bPage.groups[g] \subseteq Domains!Addition(g, T) /\ (bPage.groups[g] # Nothing => Domains!Addition(g, T) \in SUBSET DomainTable)
  BY <1>p DEF Domains!Addition, DomainsLists
<1>2. PICK m : m = Domains!Addition(g, T)
  OBVIOUS
<1>3. m \in SUBSET DomainTable /\ bPage.groups[g] \subseteq m /\ bPage.loaded /\ bPage.groups[g] # Nothing
  BY <1>m, <1>2 DEF Domains!AddToDomain, Domains!CanAdd
<1>b. PICK b \in BOOLEAN : b = bPage.overtaken
  BY <1>p
<1>4. PICK d : d = DomainsWithAddition(c, g, m, b)
  OBVIOUS
<1>5. /\ d \in DomainsCalls /\ d.group = g /\ d.members = m /\ d.behind = b
      /\ d.kind = c.kind /\ d.session = c.session /\ d.source = c.source /\ d.stage = c.stage /\ d.stamp = c.stamp
      /\ d.lists = c.lists /\ d.version = c.version /\ d.request = c.request
  BY <1>1, <1>3, <1>4, <1>b, DomainsAdditionIs
<1>6. /\ Domains!Ask(d) /\ bStore' = bStore /\ bPage' = bPage /\ bPanel' = bPanel /\ g \notin bPending /\ bPending' = bPending \cup {g}
  BY <1>n, <1>2, <1>4, <1>b DEF Domains!AddToDomain, DomainsWithAddition
<1>7. DomainsAsks(d)
  BY <1>1, <1>3, <1>5, <1>6, <1>p, <1>b DEF DomainsAsks
<1> QED
  BY <1>5, <1>6, <1>7, <1>t, DomainsAskKeeps

LEMMA DomainsGivenRead ==
  ASSUME bPage \in DomainsPages
  PROVE  Domains!Given \in DomainsRead
<1>1. bPage.groups \in DomainsLists /\ bPage.views \in SUBSET DomainView
  BY DomainsPageFields
<1>2. Domains!NoGroups \in DomainsLists
  <2>1. Nothing \in (SUBSET DomainTable) \cup {Nothing}
    OBVIOUS
  <2>2. [g \in DomainGroup |-> Nothing] \in [DomainGroup -> (SUBSET DomainTable) \cup {Nothing}]
    BY <2>1, Zenon
  <2> QED
    BY <2>2 DEF Domains!NoGroups, DomainsLists
<1> QED
  BY <1>1, <1>2 DEF Domains!Given, Domains!Unread, DomainsRead

LEMMA DomainsCreateKeeps ==
  ASSUME DomainsSuitable, DomainsInv, Domains!CreateView \/ \E t \in DomainTable : Domains!CreateGroup(t)
  PROVE  DomainsInv' /\ Domains!KeepsMembers
<1>t. bPage \in DomainsPages /\ bPending \in SUBSET DomainGroup /\ bPanel \in BOOLEAN
  BY DEF DomainsInv, DomainsTypesOK
<1>p. bPage.version \in Nat
  BY <1>t, DomainsPageFields
<1>v. PICK version \in Nat : version = bPage.version
  BY <1>p
<1>g. PICK given \in DomainsRead : given = Domains!Given
  BY <1>t, DomainsGivenRead
<1>1. ASSUME Domains!CreateView PROVE DomainsInv' /\ Domains!KeepsMembers
  <2>k. "view" \in DomainsKinds
    BY DEF DomainsKinds
  <2>n. PICK c : c = Domains!New("view")
    OBVIOUS
  <2>1. /\ c \in DomainsCalls /\ c.kind = "view" /\ c.session = bPage.session /\ c.source = bPage.source
        /\ c.stage = "sent" /\ c.stamp = 0 /\ c.request = 0
    BY <1>t, <2>k, <2>n, DomainsNewIs
  <2>2. PICK d : d = DomainsWithLists(c, given, version)
    OBVIOUS
  <2>3. /\ d \in DomainsCalls /\ d.lists = given /\ d.version = version
        /\ d.kind = c.kind /\ d.session = c.session /\ d.source = c.source /\ d.stage = c.stage /\ d.stamp = c.stamp
        /\ d.request = c.request
    BY <2>1, <2>2, DomainsListedIs
  <2>4. Domains!Ask(d) /\ bStore' = bStore /\ bPage' = bPage /\ bPanel' = TRUE /\ bPending' = bPending
    BY <2>n, <2>2, <1>g, <1>v, <1>1 DEF Domains!CreateView, DomainsWithLists
  <2>5. DomainsAsks(d)
    BY <2>1, <2>3, <1>g, <1>v DEF DomainsAsks
  <2> QED
    BY <2>3, <2>4, <2>5, <1>t, DomainsAskKeeps
<1>2. ASSUME NEW t \in DomainTable, Domains!CreateGroup(t) PROVE DomainsInv' /\ Domains!KeepsMembers
  <2>k. "group" \in DomainsKinds
    BY DEF DomainsKinds
  <2>n. PICK c : c = Domains!New("group")
    OBVIOUS
  <2>1. /\ c \in DomainsCalls /\ c.kind = "group" /\ c.session = bPage.session /\ c.source = bPage.source
        /\ c.stage = "sent" /\ c.stamp = 0 /\ c.request = 0
    BY <1>t, <2>k, <2>n, DomainsNewIs
  <2>m. PICK m \in SUBSET DomainTable : m = {t}
    OBVIOUS
  <2>2. PICK d : d = DomainsWithMembers(c, m, given, version)
    OBVIOUS
  <2>3. /\ d \in DomainsCalls /\ d.lists = given /\ d.version = version
        /\ d.kind = c.kind /\ d.session = c.session /\ d.source = c.source /\ d.stage = c.stage /\ d.stamp = c.stamp
        /\ d.request = c.request
    BY <2>1, <2>2, DomainsMembersIs
  <2>4. Domains!Ask(d) /\ bStore' = bStore /\ bPage' = bPage /\ bPanel' = TRUE /\ bPending' = bPending
    BY <2>n, <2>2, <2>m, <1>g, <1>v, <1>2 DEF Domains!CreateGroup, DomainsWithMembers
  <2>5. DomainsAsks(d)
    BY <2>1, <2>3, <1>g, <1>v DEF DomainsAsks
  <2> QED
    BY <2>3, <2>4, <2>5, <1>t, DomainsAskKeeps
<1> QED
  BY <1>1, <1>2

LEMMA DomainsCanvasAskKeeps ==
  ASSUME DomainsSuitable, DomainsInv, Domains!SaveView \/ \E v \in DomainView : Domains!DeleteView(v)
  PROVE  DomainsInv' /\ Domains!KeepsMembers
<1>t. bPage \in DomainsPages /\ bPending \in SUBSET DomainGroup /\ bPanel \in BOOLEAN
  BY DEF DomainsInv, DomainsTypesOK
<1>p. bPage.version \in Nat
  BY <1>t, DomainsPageFields
<1>1. ASSUME Domains!SaveView PROVE DomainsInv' /\ Domains!KeepsMembers
  <2>k. "save" \in DomainsKinds
    BY DEF DomainsKinds
  <2>n. PICK c : c = Domains!New("save")
    OBVIOUS
  <2>1. /\ c \in DomainsCalls /\ c.kind = "save" /\ c.session = bPage.session /\ c.source = bPage.source
        /\ c.stage = "sent" /\ c.stamp = 0 /\ c.request = 0 /\ c.lists = Domains!Unread /\ c.version = 0
    BY <1>t, <2>k, <2>n, DomainsNewIs
  <2>4. Domains!Ask(c) /\ bStore' = bStore /\ bPage' = bPage /\ bPanel' = bPanel /\ bPending' = bPending
    BY <2>n, <1>1 DEF Domains!SaveView
  <2>5. DomainsAsks(c)
    BY <2>1, <1>p DEF DomainsAsks
  <2> QED
    BY <2>1, <2>4, <2>5, <1>t, DomainsAskKeeps
<1>2. ASSUME NEW v \in DomainView, Domains!DeleteView(v) PROVE DomainsInv' /\ Domains!KeepsMembers
  <2>k. "delete" \in DomainsKinds
    BY DEF DomainsKinds
  <2>n. PICK c : c = Domains!New("delete")
    OBVIOUS
  <2>1. /\ c \in DomainsCalls /\ c.kind = "delete" /\ c.session = bPage.session /\ c.source = bPage.source
        /\ c.stage = "sent" /\ c.stamp = 0 /\ c.request = 0 /\ c.lists = Domains!Unread /\ c.version = 0
    BY <1>t, <2>k, <2>n, DomainsNewIs
  <2>2. PICK d : d = [c EXCEPT !.view = v]
    OBVIOUS
  <2>3. /\ d \in DomainsCalls /\ d.view = v /\ d.lists = c.lists /\ d.version = c.version
        /\ d.kind = c.kind /\ d.session = c.session /\ d.source = c.source /\ d.stage = c.stage /\ d.stamp = c.stamp
        /\ d.request = c.request
    BY <2>1, <2>2, DomainsViewIs
  <2>4. Domains!Ask(d) /\ bStore' = bStore /\ bPage' = bPage /\ bPanel' = bPanel /\ bPending' = bPending /\ bPage.loaded /\ v \in bPage.views
    BY <2>n, <2>2, <1>2 DEF Domains!DeleteView
  <2>5. DomainsAsks(d)
    BY <2>1, <2>3, <2>4, <1>p DEF DomainsAsks
  <2> QED
    BY <2>3, <2>4, <2>5, <1>t, DomainsAskKeeps
<1> QED
  BY <1>1, <1>2

\* A reading is asked for: no earlier reading counts from then on.
DomainsSamePage == /\ bPage'.session = bPage.session /\ bPage'.source = bPage.source /\ bPage'.loaded = bPage.loaded
                   /\ bPage'.groups = bPage.groups /\ bPage'.views = bPage.views /\ bPage'.shown = bPage.shown
                   /\ bPage'.overtaken = bPage.overtaken
DomainsNewPage == /\ bPage'.session = bPage.session + 1 /\ ~bPage'.loaded
                  /\ bPage'.shown # Nothing => bPage'.shown = bPage.shown /\ bPage'.source = bPage.source
DomainsReadsAgain(c) ==
  /\ c.kind = "read" /\ c.stage = "sent" /\ c.request = bPage'.request /\ c.session = bPage'.session
  /\ c.source = bPage'.source /\ c.stamp = 0 /\ c.version = 0 /\ c.lists = Domains!Unread
  /\ bPage'.request = bPage.request + 1 /\ bPage'.version = bPage.version /\ bPage'.newest = bPage.newest

LEMMA DomainsReadAskKeeps ==
  ASSUME DomainsSuitable, DomainsInv, NEW c \in DomainsCalls, Domains!Ask(c), DomainsReadsAgain(c), bPage' \in DomainsPages, DomainsSamePage \/ DomainsNewPage,
         bStore' = bStore, bPending' = bPending, bPanel' = bPanel
  PROVE  DomainsInv' /\ Domains!KeepsMembers
<1> DEFINE n == Len(bCalls) + 1
<1>t. DomainsTypesOK /\ bPage \in DomainsPages /\ bStore \in DomainsStores
  BY DEF DomainsInv, DomainsTypesOK
<1>n. PICK k : k = n
  OBVIOUS
<1>a. /\ bCalls' \in Seq(DomainsCalls \cup {Nothing}) /\ k \notin DomainsUnder /\ DomainsUnder' = DomainsUnder \cup {k} /\ bCalls'[k] = c
      /\ \A i \in DomainsUnder : bCalls'[i] = bCalls[i] /\ bCalls[i] \in DomainsCalls
  BY <1>t, <1>n, DomainsAsked
<1> HIDE DEF n
<1>p. /\ bPage.session \in Nat /\ bPage.request \in Nat /\ bPage.version \in Nat /\ bPage.newest \in Nat
      /\ bStore.writes \in Nat
  BY <1>t, DomainsPageFields, DomainsStoreFields
<1>f. /\ c.kind = "read" /\ c.stage = "sent" /\ c.request = bPage'.request /\ c.session = bPage'.session
      /\ c.source = bPage'.source /\ c.stamp = 0 /\ c.version = 0 /\ c.lists = Domains!Unread
      /\ bPage'.request = bPage.request + 1 /\ bPage'.version = bPage.version /\ bPage'.newest = bPage.newest
  BY DEF DomainsReadsAgain
<1>s. bPage'.session >= bPage.session /\ (DomainsSamePage \/ DomainsNewPage) /\ (DomainsSamePage => bPage'.session = bPage.session)
  BY <1>p DEF DomainsSamePage, DomainsNewPage
<1>i. \A i \in DomainsUnder : /\ bCalls[i].session \in Nat /\ bCalls[i].request \in Nat /\ bCalls[i].version \in Nat
                              /\ bCalls[i].session <= bPage.session /\ bCalls[i].request <= bPage.request
                              /\ bCalls[i].version <= bPage.version /\ DomainsCallOK(bCalls[i])
  BY <1>a, DomainsCallFields DEF DomainsInv, DomainsCallOK
<1>m. \A i \in DomainsUnder : /\ bCalls[i].session = bPage'.session => DomainsSamePage
                              /\ bCalls[i].session <= bPage'.session /\ bCalls[i].request <= bPage'.request
                              /\ bCalls[i].request # bPage'.request
  BY <1>p, <1>f, <1>i DEF DomainsSamePage, DomainsNewPage
<1>u. Domains!Unread.groups = Domains!NoGroups /\ Domains!Unread.views = {} /\ \A g \in DomainGroup : Domains!NoGroups[g] = Nothing
  BY DEF Domains!Unread, Domains!NoGroups
<1>l. DomainsListedOK /\ DomainsCurrentOK /\ DomainsStoredOK /\ DomainsShownOK
  BY DEF DomainsInv
<1>1. DomainsTypesOK'
  BY <1>t, <1>a DEF DomainsTypesOK
<1>2. DomainsStoredOK'
  BY <1>l DEF DomainsStoredOK
<1>3. DomainsListedOK'
  <2>1. CASE DomainsNewPage
    BY <2>1 DEF DomainsListedOK, DomainsNewPage
  <2>2. CASE DomainsSamePage
    BY <2>2, <1>l, <1>a, <1>f DEF DomainsListedOK, DomainsOwned, DomainsDone, DomainsSamePage
  <2> QED
    BY <2>1, <2>2, <1>s
<1>4. DomainsCurrentOK'
  <2>1. CASE DomainsNewPage
    BY <2>1 DEF DomainsCurrentOK, DomainsNewPage
  <2>2. CASE DomainsSamePage
    BY <2>2, <1>l, <1>a DEF DomainsCurrentOK, DomainsOwned, DomainsDone, DomainsSameView, DomainsOfView, DomainsSamePage
  <2> QED
    BY <2>1, <2>2, <1>s
<1>5. DomainsShownOK'
  BY <1>l, <1>a DEF DomainsShownOK, DomainsOwned, DomainsDone, DomainsSamePage, DomainsNewPage
<1>6. \A i \in DomainsUnder : DomainsCallOK(bCalls[i])'
  <2> SUFFICES ASSUME NEW i \in DomainsUnder PROVE DomainsCallOK(bCalls[i])'
    OBVIOUS
  <2>1. bCalls[i].session = bPage'.session => bCalls[i].source = bPage'.source
    BY <1>m, <1>i DEF DomainsCallOK, DomainsSamePage
  <2> QED
    BY <2>1, <1>a, <1>i, <1>m, <1>f DEF DomainsCallOK, DomainsOwned, DomainsDone
<1>7. DomainsCallOK(c)'
  <2>1. c.stamp <= bStore.writes /\ c.version <= bPage'.version /\ c.session <= bPage'.session /\ c.request <= bPage'.request
    BY <1>p, <1>f DEF DomainsSamePage, DomainsNewPage
  <2> QED
    BY <2>1, <1>f, <1>u DEF DomainsCallOK, DomainsOwned, DomainsDone
<1>8. \A i \in DomainsUnder : DomainsAddOK(bCalls[i])'
  BY <1>a DEF DomainsInv, DomainsAddOK, DomainsDone
<1>9. \A i \in DomainsUnder : DomainsHadOK(bCalls[i])'
  <2> SUFFICES ASSUME NEW i \in DomainsUnder, bCalls[i].kind \in {"group", "view"}, bCalls[i].session = bPage'.session,
                      bCalls[i].version = bPage.version
               PROVE  bCalls[i].lists = Domains!Given'
    BY <1>a, <1>f DEF DomainsHadOK, Domains!Mine
  <2>1. DomainsSamePage
    BY <1>m
  <2>2. bCalls[i].lists = Domains!Given
    BY <2>1 DEF DomainsInv, DomainsHadOK, Domains!Mine, DomainsSamePage
  <2> QED
    BY <2>1, <2>2 DEF Domains!Given, DomainsSamePage
<1>10. \A i \in DomainsUnder : (DomainsFreshOK(bCalls[i]) /\ DomainsMadeOK(bCalls[i]))'
  <2> SUFFICES ASSUME NEW i \in DomainsUnder PROVE (DomainsFreshOK(bCalls[i]) /\ DomainsMadeOK(bCalls[i]))'
    OBVIOUS
  <2>1. DomainsFreshOK(bCalls[i]) /\ DomainsMadeOK(bCalls[i]) /\ (bCalls[i].session = bPage'.session => bCalls[i].session = bPage.session)
    BY <1>m DEF DomainsInv, DomainsSamePage
  <2>2. DomainsFreshOK(bCalls[i])'
    BY <2>1, <1>a, <1>f DEF DomainsFreshOK, DomainsDone, Domains!Mine
  <2>3. DomainsMadeOK(bCalls[i])'
    BY <2>1, <1>a, <1>f DEF DomainsMadeOK, DomainsDone, Domains!Mine
  <2> QED
    BY <2>2, <2>3
<1>11. \A i \in DomainsUnder : DomainsFoundOK(bCalls[i])'
  BY <1>a, <1>m DEF DomainsFoundOK, DomainsCounts, DomainsLast, Domains!IsLast
<1>12. DomainsAddOK(c)' /\ DomainsHadOK(c)' /\ DomainsFreshOK(c)' /\ DomainsMadeOK(c)' /\ DomainsFoundOK(c)'
  BY <1>f DEF DomainsAddOK, DomainsHadOK, DomainsFreshOK, DomainsMadeOK, DomainsFoundOK, DomainsDone,
     DomainsCounts, DomainsLast
<1>13. \A i, j \in DomainsUnder : DomainsPairOK(i, j)'
  BY <1>a DEF DomainsInv, DomainsPairOK, DomainsDone
<1>14. \A i \in DomainsUnder : DomainsPairOK(i, k)' /\ DomainsPairOK(k, i)'
  BY <1>a, <1>f, <1>m, <1>u DEF DomainsPairOK, DomainsDone
<1>15. DomainsPairOK(k, k)'
  BY <1>a, <1>f DEF DomainsPairOK, DomainsDone
<1>16. /\ \A i \in DomainsUnder' : /\ DomainsCallOK(bCalls[i])' /\ DomainsAddOK(bCalls[i])' /\ DomainsHadOK(bCalls[i])' /\ DomainsFreshOK(bCalls[i])'
                           /\ DomainsMadeOK(bCalls[i])' /\ DomainsFoundOK(bCalls[i])'
       /\ \A i, j \in DomainsUnder' : DomainsPairOK(i, j)'
  <2>1. \A i \in DomainsUnder : /\ DomainsCallOK(bCalls[i])' /\ DomainsAddOK(bCalls[i])' /\ DomainsHadOK(bCalls[i])' /\ DomainsFreshOK(bCalls[i])'
                                /\ DomainsMadeOK(bCalls[i])' /\ DomainsFoundOK(bCalls[i])'
    BY <1>6, <1>8, <1>9, <1>10, <1>11
  <2>2. /\ DomainsCallOK(bCalls[k])' /\ DomainsAddOK(bCalls[k])' /\ DomainsHadOK(bCalls[k])' /\ DomainsFreshOK(bCalls[k])'
        /\ DomainsMadeOK(bCalls[k])' /\ DomainsFoundOK(bCalls[k])'
    BY <1>a, <1>7, <1>12
  <2> QED
    BY <1>a, <2>1, <2>2, <1>13, <1>14, <1>15
<1>17. Domains!KeepsMembers
  BY DEF Domains!KeepsMembers
<1> QED
  BY <1>1, <1>2, <1>3, <1>4, <1>5, <1>16, <1>17 DEF DomainsInv

\* The reading as it is asked for.
LEMMA DomainsReadingIs ==
  ASSUME DomainsSuitable, bPage \in DomainsPages, NEW request \in Nat
  PROVE  /\ Domains!Reading(request) \in DomainsCalls
         /\ Domains!Reading(request).kind = "read" /\ Domains!Reading(request).session = bPage.session
         /\ Domains!Reading(request).source = bPage.source /\ Domains!Reading(request).stage = "sent"
         /\ Domains!Reading(request).stamp = 0
         /\ Domains!Reading(request).lists = Domains!Unread /\ Domains!Reading(request).version = 0
         /\ Domains!Reading(request).request = request
<1>k. "read" \in DomainsKinds
  BY DEF DomainsKinds
<1>n. PICK c : c = Domains!New("read")
  OBVIOUS
<1>1. /\ c \in DomainsCalls /\ c.kind = "read" /\ c.session = bPage.session /\ c.source = bPage.source
      /\ c.stage = "sent" /\ c.stamp = 0 /\ c.lists = Domains!Unread /\ c.version = 0
  BY <1>k, <1>n, DomainsNewIs
<1>2. Domains!Reading(request) = [c EXCEPT !.request = request]
  BY <1>n DEF Domains!Reading
<1> QED
  BY <1>1, <1>2 DEF DomainsCalls

DomainsOfSession(c, session, s) == [c EXCEPT !.session = session, !.source = s]
LEMMA DomainsOfSessionIs ==
  ASSUME NEW c \in DomainsCalls, NEW session \in Nat, NEW s \in DomainSource, NEW d, d = DomainsOfSession(c, session, s)
  PROVE  /\ d \in DomainsCalls /\ d.session = session /\ d.source = s /\ d.kind = c.kind /\ d.stage = c.stage
         /\ d.stamp = c.stamp /\ d.lists = c.lists /\ d.version = c.version /\ d.request = c.request
BY DEF DomainsCalls, DomainsOfSession

DomainsOpened(p, s, session, request, shown) ==
  [p EXCEPT !.source = s, !.session = session, !.request = request, !.loaded = FALSE, !.shown = shown]
LEMMA DomainsOpenedIs ==
  ASSUME NEW p \in DomainsPages, NEW s \in DomainSource, NEW session \in Nat, NEW request \in Nat,
         NEW shown \in DomainsShows,
         NEW q, q = DomainsOpened(p, s, session, request, shown)
  PROVE  /\ q \in DomainsPages /\ q.source = s /\ q.session = session /\ q.request = request
         /\ ~q.loaded /\ q.shown = shown /\ q.version = p.version /\ q.newest = p.newest
BY DEF DomainsPages, DomainsOpened

LEMMA DomainsOpenKeeps ==
  ASSUME DomainsSuitable, DomainsInv, NEW s \in DomainSource, Domains!Open(s)
  PROVE  DomainsInv' /\ Domains!KeepsMembers
<1>t. bPage \in DomainsPages
  BY DEF DomainsInv, DomainsTypesOK
<1>p. bPage.session \in Nat /\ bPage.request \in Nat /\ bPage.shown \in DomainsShows /\ Nothing \in DomainsShows
  BY <1>t, DomainsPageFields DEF DomainsShows
<1>r. PICK request \in Nat : request = bPage.request + 1
  BY <1>p
<1>s. PICK session \in Nat : session = bPage.session + 1
  BY <1>p
<1>w. PICK shown \in DomainsShows : shown = IF s = bPage.source THEN bPage.shown ELSE Nothing
  BY <1>p
<1>1. PICK c : c = Domains!Reading(request)
  OBVIOUS
<1>2. /\ c \in DomainsCalls /\ c.kind = "read" /\ c.stage = "sent" /\ c.stamp = 0 /\ c.lists = Domains!Unread /\ c.version = 0
      /\ c.request = request
  BY <1>1, <1>t, DomainsReadingIs
<1>3. PICK d : d = DomainsOfSession(c, session, s)
  OBVIOUS
<1>4. /\ d \in DomainsCalls /\ d.session = session /\ d.source = s /\ d.kind = c.kind /\ d.stage = c.stage
      /\ d.stamp = c.stamp /\ d.lists = c.lists /\ d.version = c.version /\ d.request = c.request
  BY <1>2, <1>3, DomainsOfSessionIs
<1>5. PICK q : q = DomainsOpened(bPage, s, session, request, shown)
  OBVIOUS
<1>6. /\ q \in DomainsPages /\ q.source = s /\ q.session = session /\ q.request = request
      /\ ~q.loaded /\ q.shown = shown /\ q.version = bPage.version /\ q.newest = bPage.newest
  BY <1>5, <1>t, DomainsOpenedIs
<1>7. bPage' = q
  BY <1>5, <1>w, <1>r, <1>s DEF Domains!Open, DomainsOpened
<1>8. Domains!Ask(d) /\ bStore' = bStore /\ bPending' = bPending /\ bPanel' = bPanel
  BY <1>1, <1>3, <1>r, <1>s DEF Domains!Open, DomainsOfSession
<1>9. DomainsReadsAgain(d) /\ DomainsNewPage /\ bPage' \in DomainsPages
  BY <1>2, <1>4, <1>6, <1>7, <1>r, <1>s, <1>w DEF DomainsReadsAgain, DomainsNewPage
<1> QED
  BY <1>4, <1>8, <1>9, DomainsReadAskKeeps

LEMMA DomainsRefreshKeeps ==
  ASSUME DomainsSuitable, DomainsInv, Domains!Refresh
  PROVE  DomainsInv' /\ Domains!KeepsMembers
<1>t. bPage \in DomainsPages
  BY DEF DomainsInv, DomainsTypesOK
<1>p. bPage.request \in Nat
  BY <1>t, DomainsPageFields
<1>r. PICK request \in Nat : request = bPage.request + 1
  BY <1>p
<1>1. PICK c : c = Domains!Reading(request)
  OBVIOUS
<1>2. /\ c \in DomainsCalls /\ c.kind = "read" /\ c.stage = "sent" /\ c.stamp = 0 /\ c.lists = Domains!Unread /\ c.version = 0
      /\ c.request = request /\ c.session = bPage.session /\ c.source = bPage.source
  BY <1>1, <1>t, DomainsReadingIs
<1>3. bPage' = [bPage EXCEPT !.request = request]
  BY <1>r DEF Domains!Refresh
<1>4. bPage' \in DomainsPages /\ bPage'.request = request /\ bPage'.version = bPage.version /\ bPage'.newest = bPage.newest /\ DomainsSamePage
  BY <1>t, <1>3 DEF DomainsPages, DomainsSamePage
<1>5. Domains!Ask(c) /\ bStore' = bStore /\ bPending' = bPending /\ bPanel' = bPanel
  BY <1>1, <1>r DEF Domains!Refresh
<1>6. DomainsReadsAgain(c)
  BY <1>2, <1>4, <1>r DEF DomainsReadsAgain, DomainsSamePage
<1> QED
  BY <1>2, <1>4, <1>5, <1>6, DomainsReadAskKeeps

\* A domain is shown as a view, or none is.
LEMMA DomainsApplyKeeps ==
  ASSUME DomainsSuitable, DomainsInv, NEW g \in DomainGroup, Domains!Apply(g)
  PROVE  DomainsInv' /\ Domains!KeepsMembers
<1>t. DomainsTypesOK /\ bPage \in DomainsPages /\ bStore \in DomainsStores
  BY DEF DomainsInv, DomainsTypesOK
<1>p. bPage.groups \in DomainsLists /\ bPage.overtaken \in BOOLEAN /\ bPage.loaded /\ bPage.groups[g] # Nothing
  BY <1>t, DomainsPageFields DEF Domains!Apply
<1>v. [group |-> g, roots |-> bPage.groups[g], behind |-> bPage.overtaken] \in DomainsViews
  BY <1>p DEF DomainsViews, DomainsLists
<1>s. PICK shown \in DomainsShows :
        shown = IF bPage.shown = Nothing THEN [group |-> g, roots |-> bPage.groups[g], behind |-> bPage.overtaken] ELSE Nothing
  BY <1>v DEF DomainsShows
<1>1. bPage' = [bPage EXCEPT !.shown = shown]
  BY <1>s DEF Domains!Apply
<1>2. /\ bPage' \in DomainsPages /\ bPage'.shown = shown /\ bPage'.source = bPage.source /\ bPage'.session = bPage.session
      /\ bPage'.request = bPage.request /\ bPage'.loaded = bPage.loaded /\ bPage'.groups = bPage.groups
      /\ bPage'.views = bPage.views
      /\ bPage'.version = bPage.version /\ bPage'.newest = bPage.newest /\ bPage'.overtaken = bPage.overtaken
  BY <1>t, <1>1 DEF DomainsPages
<1>3. bStore' = bStore /\ bPending' = bPending /\ bPanel' = bPanel /\ bCalls' = bCalls
  BY DEF Domains!Apply
<1>4. DomainsUnder' = DomainsUnder
  BY <1>3 DEF DomainsUnder
<1>5. DomainsTypesOK'
  BY <1>t, <1>2, <1>3 DEF DomainsTypesOK
<1>6. DomainsStoredOK' /\ DomainsListedOK'
  BY <1>2, <1>3, <1>4 DEF DomainsInv, DomainsStoredOK, DomainsListedOK, DomainsOwned, DomainsDone
<1>7. DomainsCurrentOK'
  BY <1>2, <1>3, <1>4 DEF DomainsInv, DomainsCurrentOK, DomainsOwned, DomainsDone, DomainsSameView, DomainsOfView
<1>8. DomainsShownOK'
  <2> SUFFICES ASSUME shown # Nothing, ~shown.behind
               PROVE  /\ DomainsOwned(shown.group, bPage.source)
                      /\ \/ bStore.groups[shown.group].members = shown.roots
                         \/ \E j \in DomainsUnder : bCalls[j].kind = "add" /\ DomainsDone(bCalls[j]) /\ bCalls[j].group = shown.group
    BY <1>2, <1>3, <1>4 DEF DomainsShownOK, DomainsOwned, DomainsDone
  <2>1. shown.group = g /\ shown.roots = bPage.groups[g] /\ shown.behind = bPage.overtaken
    BY <1>s
  <2> QED
    BY <2>1, <1>p DEF DomainsInv, DomainsListedOK, DomainsCurrentOK
<1>9. \A i \in DomainsUnder : DomainsCallOK(bCalls[i])' /\ DomainsAddOK(bCalls[i])' /\ DomainsHadOK(bCalls[i])'
  BY <1>2, <1>3 DEF DomainsInv, DomainsCallOK, DomainsAddOK, DomainsHadOK, DomainsOwned, DomainsDone,
     Domains!Mine, Domains!Given
<1>10. \A i \in DomainsUnder : DomainsFreshOK(bCalls[i])' /\ DomainsMadeOK(bCalls[i])'
  BY <1>2, <1>3, <1>4 DEF DomainsInv, DomainsFreshOK, DomainsMadeOK, DomainsDone, Domains!Mine
<1>11. \A i \in DomainsUnder : DomainsFoundOK(bCalls[i])'
  BY <1>2, <1>3, <1>4 DEF DomainsInv, DomainsFoundOK, DomainsCounts, DomainsLast, Domains!IsLast, Domains!Mine,
     DomainsSameGroup, DomainsSameView, DomainsOwned, DomainsOfGroup, DomainsOfView, DomainsDone
<1>12. \A i, j \in DomainsUnder : DomainsPairOK(i, j)'
  BY <1>3 DEF DomainsInv, DomainsPairOK, DomainsDone
<1>13. Domains!KeepsMembers
  BY <1>3 DEF Domains!KeepsMembers
<1>14. /\ \A i \in DomainsUnder' : /\ DomainsCallOK(bCalls[i])' /\ DomainsAddOK(bCalls[i])' /\ DomainsHadOK(bCalls[i])' /\ DomainsFreshOK(bCalls[i])'
                           /\ DomainsMadeOK(bCalls[i])' /\ DomainsFoundOK(bCalls[i])'
       /\ \A i, j \in DomainsUnder' : DomainsPairOK(i, j)'
  BY <1>4, <1>9, <1>10, <1>11, <1>12
<1> QED
  BY <1>5, <1>6, <1>7, <1>8, <1>13, <1>14 DEF DomainsInv

\* What is true of every call, and of every two, makes up the rest of the invariant.
DomainsEachOK(i) == /\ DomainsCallOK(bCalls[i]) /\ DomainsAddOK(bCalls[i]) /\ DomainsHadOK(bCalls[i]) /\ DomainsFreshOK(bCalls[i])
                    /\ DomainsMadeOK(bCalls[i]) /\ DomainsFoundOK(bCalls[i])

LEMMA DomainsInvIs ==
  ASSUME DomainsTypesOK', DomainsStoredOK', DomainsListedOK', DomainsCurrentOK', DomainsShownOK',
         \A i \in DomainsUnder' : DomainsEachOK(i)', \A i, j \in DomainsUnder' : DomainsPairOK(i, j)'
  PROVE  DomainsInv'
BY DEF DomainsInv, DomainsEachOK

\* The service gives a call up.
LEMMA DomainsFailKeeps ==
  ASSUME DomainsSuitable, DomainsInv, NEW i \in DOMAIN bCalls, Domains!Fail(i)
  PROVE  DomainsInv' /\ Domains!KeepsMembers
<1>t. DomainsTypesOK /\ i \in DomainsUnder
  BY DEF DomainsInv, DomainsTypesOK, Domains!Fail, Domains!At, DomainsUnder
<1>c. bCalls[i] \in DomainsCalls /\ bCalls[i].stage = "sent"
  BY <1>t DEF DomainsTypesOK, DomainsUnder, Domains!Fail, Domains!At
<1>s. PICK stage \in DomainsStages : stage = "failed"
  BY DEF DomainsStages
<1>d. PICK d : d = DomainsStaged(bCalls[i], stage)
  OBVIOUS
<1>e. /\ d \in DomainsCalls /\ d.stage = "failed"
      /\ d.kind = bCalls[i].kind /\ d.session = bCalls[i].session /\ d.source = bCalls[i].source /\ d.stamp = bCalls[i].stamp
      /\ d.group = bCalls[i].group /\ d.view = bCalls[i].view /\ d.members = bCalls[i].members /\ d.lists = bCalls[i].lists
      /\ d.version = bCalls[i].version /\ d.request = bCalls[i].request /\ d.behind = bCalls[i].behind
  BY <1>c, <1>s, <1>d, DomainsStagedIs
<1>f. Domains!Answer(i, d) /\ bStore' = bStore /\ bPage' = bPage /\ bPending' = bPending /\ bPanel' = bPanel
  BY <1>s, <1>d DEF Domains!Fail, DomainsStaged
<1>a. /\ bCalls' \in Seq(DomainsCalls \cup {Nothing}) /\ DomainsUnder' = DomainsUnder /\ bCalls'[i] = d
      /\ \A j \in DomainsUnder : bCalls[j] \in DomainsCalls /\ (j # i => bCalls'[j] = bCalls[j])
  BY <1>t, <1>e, <1>f, DomainsAnswered
<1>g. \A j \in DomainsUnder : /\ bCalls'[j].kind = bCalls[j].kind /\ bCalls'[j].session = bCalls[j].session
                              /\ bCalls'[j].source = bCalls[j].source /\ bCalls'[j].stamp = bCalls[j].stamp
                              /\ bCalls'[j].group = bCalls[j].group /\ bCalls'[j].view = bCalls[j].view
                              /\ bCalls'[j].members = bCalls[j].members /\ bCalls'[j].lists = bCalls[j].lists
                              /\ bCalls'[j].version = bCalls[j].version /\ bCalls'[j].request = bCalls[j].request
                              /\ bCalls'[j].behind = bCalls[j].behind
                              /\ DomainsDone(bCalls[j])' = DomainsDone(bCalls[j])
                              /\ (bCalls'[j].stage = "sent" => bCalls[j].stage = "sent")
  BY <1>a, <1>c, <1>e DEF DomainsDone
<1>1. DomainsTypesOK'
  BY <1>t, <1>a, <1>f DEF DomainsTypesOK
<1>2. DomainsStoredOK' /\ DomainsListedOK'
  BY <1>a, <1>f, <1>g DEF DomainsInv, DomainsStoredOK, DomainsListedOK, DomainsOwned
<1>3. DomainsCurrentOK'
  BY <1>a, <1>f, <1>g DEF DomainsInv, DomainsCurrentOK, DomainsOwned, DomainsSameView, DomainsOfView
<1>4. DomainsShownOK'
  BY <1>a, <1>f, <1>g DEF DomainsInv, DomainsShownOK, DomainsOwned
<1>5. \A j \in DomainsUnder' : DomainsEachOK(j)'
  <2> SUFFICES ASSUME NEW j \in DomainsUnder PROVE DomainsEachOK(j)'
    BY <1>a
  <2>0. DomainsCallOK(bCalls[j]) /\ DomainsAddOK(bCalls[j]) /\ DomainsHadOK(bCalls[j]) /\ DomainsFreshOK(bCalls[j]) /\ DomainsMadeOK(bCalls[j]) /\ DomainsFoundOK(bCalls[j])
    BY DEF DomainsInv
  <2>1. DomainsCallOK(bCalls[j])' /\ DomainsAddOK(bCalls[j])'
    BY <2>0, <1>f, <1>g DEF DomainsCallOK, DomainsAddOK, DomainsOwned
  <2>2. DomainsHadOK(bCalls[j])'
    BY <2>0, <1>f, <1>g DEF DomainsHadOK, Domains!Mine, Domains!Given
  <2>3. DomainsFreshOK(bCalls[j])'
    BY <2>0, <1>a, <1>f, <1>g DEF DomainsFreshOK, Domains!Mine
  <2>4. DomainsMadeOK(bCalls[j])'
    BY <2>0, <1>a, <1>f, <1>g DEF DomainsMadeOK, Domains!Mine
  <2>5. DomainsFoundOK(bCalls[j])'
    BY <2>0, <1>a, <1>f, <1>g DEF DomainsFoundOK, DomainsCounts, DomainsLast, Domains!IsLast, Domains!Mine,
       DomainsSameGroup, DomainsSameView, DomainsOwned, DomainsOfGroup, DomainsOfView
  <2> QED
    BY <2>1, <2>2, <2>3, <2>4, <2>5 DEF DomainsEachOK
<1>6. \A j, k \in DomainsUnder' : DomainsPairOK(j, k)'
  BY <1>a, <1>g DEF DomainsInv, DomainsPairOK
<1>7. Domains!KeepsMembers
  BY <1>f DEF Domains!KeepsMembers
<1> QED
  BY <1>1, <1>2, <1>3, <1>4, <1>5, <1>6, <1>7, DomainsInvIs

\* A reading is answered with what is stored then.
LEMMA DomainsReadLists ==
  ASSUME DomainsSuitable, DomainsTypesOK, NEW s \in DomainSource
  PROVE  /\ [groups |-> Domains!Of(s), views |-> Domains!ViewsOf(s)] \in DomainsRead
         /\ \A g \in DomainGroup : /\ DomainsOwned(g, s) => Domains!Of(s)[g] = bStore.groups[g].members /\ Domains!Of(s)[g] # Nothing
                                   /\ ~DomainsOwned(g, s) => Domains!Of(s)[g] = Nothing
         /\ \A v \in DomainView : v \in Domains!ViewsOf(s) <=> bStore.views[v] = s
<1>1. bStore.groups \in [DomainGroup -> DomainsRows \cup {Nothing}] /\ bStore.views \in [DomainView -> DomainSource \cup {Nothing}]
  BY DomainsStoreFields DEF DomainsTypesOK
<1>2. \A g \in DomainGroup : bStore.groups[g] # Nothing => bStore.groups[g].members \in SUBSET DomainTable
  BY <1>1 DEF DomainsRows
<1>3. Domains!Of(s) \in DomainsLists
  BY <1>2 DEF Domains!Of, DomainsLists
<1>4. Domains!ViewsOf(s) \in SUBSET DomainView
  BY DEF Domains!ViewsOf
<1>5. \A g \in DomainGroup : /\ DomainsOwned(g, s) => Domains!Of(s)[g] = bStore.groups[g].members /\ Domains!Of(s)[g] # Nothing
                             /\ ~DomainsOwned(g, s) => Domains!Of(s)[g] = Nothing
  BY <1>2 DEF Domains!Of, DomainsOwned, DomainsSuitable
<1> QED
  BY <1>3, <1>4, <1>5 DEF DomainsRead, Domains!ViewsOf

LEMMA DomainsServeReadKeeps ==
  ASSUME DomainsSuitable, DomainsInv, NEW i \in DOMAIN bCalls, Domains!ServeRead(i)
  PROVE  DomainsInv' /\ Domains!KeepsMembers
<1>t. DomainsTypesOK /\ i \in DomainsUnder
  BY DEF DomainsInv, DomainsTypesOK, Domains!ServeRead, Domains!At, DomainsUnder
<1>c. bCalls[i] \in DomainsCalls /\ bCalls[i].stage = "sent" /\ bCalls[i].kind = "read"
  BY <1>t DEF DomainsTypesOK, DomainsUnder, Domains!ServeRead, Domains!At
<1>p. bStore.writes \in Nat /\ bCalls[i].source \in DomainSource /\ bStore.groups \in [DomainGroup -> DomainsRows \cup {Nothing}]
  BY <1>t, <1>c, DomainsCallFields, DomainsStoreFields DEF DomainsTypesOK
<1>s. PICK stage \in DomainsStages : stage = "done"
  BY DEF DomainsStages
<1>l. PICK lists \in DomainsRead : lists = [groups |-> Domains!Of(bCalls[i].source), views |-> Domains!ViewsOf(bCalls[i].source)]
  BY <1>t, <1>p, DomainsReadLists
<1>o. /\ \A g \in DomainGroup : /\ DomainsOwned(g, bCalls[i].source) => lists.groups[g] = bStore.groups[g].members /\ lists.groups[g] # Nothing
                                /\ ~DomainsOwned(g, bCalls[i].source) => lists.groups[g] = Nothing
      /\ \A v \in DomainView : v \in lists.views <=> bStore.views[v] = bCalls[i].source
      /\ lists.views \subseteq DomainView
  BY <1>t, <1>p, <1>l, DomainsReadLists DEF DomainsRead
<1>d. PICK d : d = DomainsFound(bCalls[i], stage, bStore.writes, lists)
  OBVIOUS
<1>e. /\ d \in DomainsCalls /\ d.stage = "done" /\ d.stamp = bStore.writes /\ d.lists = lists
      /\ d.kind = bCalls[i].kind /\ d.session = bCalls[i].session /\ d.source = bCalls[i].source
      /\ d.group = bCalls[i].group /\ d.view = bCalls[i].view /\ d.members = bCalls[i].members
      /\ d.version = bCalls[i].version /\ d.request = bCalls[i].request /\ d.behind = bCalls[i].behind
  BY <1>c, <1>p, <1>s, <1>d, DomainsReadIs
<1>f. Domains!Answer(i, d) /\ bStore' = bStore /\ bPage' = bPage /\ bPending' = bPending /\ bPanel' = bPanel
  BY <1>s, <1>d, <1>l DEF Domains!ServeRead, DomainsFound
<1>a. /\ bCalls' \in Seq(DomainsCalls \cup {Nothing}) /\ DomainsUnder' = DomainsUnder /\ bCalls'[i] = d
      /\ \A j \in DomainsUnder : bCalls[j] \in DomainsCalls /\ (j # i => bCalls'[j] = bCalls[j])
  BY <1>t, <1>e, <1>f, DomainsAnswered
<1>g. \A j \in DomainsUnder : /\ bCalls'[j].kind = bCalls[j].kind /\ bCalls'[j].session = bCalls[j].session
                              /\ bCalls'[j].source = bCalls[j].source
                              /\ bCalls'[j].group = bCalls[j].group /\ bCalls'[j].view = bCalls[j].view
                              /\ bCalls'[j].members = bCalls[j].members
                              /\ bCalls'[j].version = bCalls[j].version /\ bCalls'[j].request = bCalls[j].request
                              /\ bCalls'[j].behind = bCalls[j].behind
                              /\ (bCalls[j].kind # "read" => bCalls'[j] = bCalls[j])
  BY <1>a, <1>c, <1>e
<1>k. DomainsListedOK /\ DomainsStoredOK /\ DomainsCurrentOK /\ DomainsShownOK
  BY DEF DomainsInv
<1>1. DomainsTypesOK'
  BY <1>t, <1>a, <1>f DEF DomainsTypesOK
<1>2. DomainsStoredOK' /\ DomainsListedOK'
  BY <1>a, <1>f, <1>g, <1>k DEF DomainsStoredOK, DomainsListedOK, DomainsOwned, DomainsDone, DomainsCreates
<1>3. DomainsCurrentOK'
  <2>1. \A j \in DomainsUnder : /\ bCalls[j].kind = "add" /\ DomainsDone(bCalls[j]) => bCalls'[j] = bCalls[j]
                                /\ bCalls[j].kind = "group" /\ DomainsDone(bCalls[j]) => bCalls'[j] = bCalls[j]
                                /\ DomainsOfView(bCalls[j]) /\ DomainsDone(bCalls[j]) => bCalls'[j] = bCalls[j]
    BY <1>g DEF DomainsOfView, DomainsCreates
  <2> QED
    BY <2>1, <1>a, <1>f, <1>k DEF DomainsCurrentOK, DomainsOwned, DomainsSameView, DomainsDone, DomainsOfView
<1>4. DomainsShownOK'
  BY <1>a, <1>f, <1>g, <1>k DEF DomainsShownOK, DomainsOwned, DomainsDone
<1>5. ASSUME NEW j \in DomainsUnder, j # i PROVE DomainsEachOK(j)'
  <2>0. /\ DomainsCallOK(bCalls[j]) /\ DomainsAddOK(bCalls[j]) /\ DomainsHadOK(bCalls[j]) /\ DomainsFreshOK(bCalls[j]) /\ DomainsMadeOK(bCalls[j]) /\ DomainsFoundOK(bCalls[j])
        /\ bCalls'[j] = bCalls[j]
    BY <1>5, <1>a DEF DomainsInv
  <2>1. DomainsCallOK(bCalls[j])' /\ DomainsAddOK(bCalls[j])' /\ DomainsHadOK(bCalls[j])'
    BY <2>0, <1>f DEF DomainsCallOK, DomainsAddOK, DomainsHadOK, DomainsOwned, DomainsDone, Domains!Mine, Domains!Given
  <2>3. DomainsFreshOK(bCalls[j])'
    BY <2>0, <1>a, <1>f, <1>g DEF DomainsFreshOK, Domains!Mine, DomainsDone
  <2>4. DomainsMadeOK(bCalls[j])'
    BY <2>0, <1>a, <1>f, <1>g DEF DomainsMadeOK, Domains!Mine, DomainsDone
  <2>5. DomainsFoundOK(bCalls[j])'
    <3>1. \A k \in DomainsUnder : DomainsOfGroup(bCalls[k]) \/ DomainsOfView(bCalls[k]) => bCalls'[k] = bCalls[k]
      BY <1>g DEF DomainsOfGroup, DomainsOfView, DomainsCreates
    <3>2. \A k \in DomainsUnder : bCalls[k].kind \in {"add", "group", "view"} => bCalls'[k] = bCalls[k]
      BY <1>g
    <3> QED
      BY <3>1, <3>2, <2>0, <1>a, <1>f, <1>g DEF DomainsFoundOK, DomainsCounts, DomainsLast, Domains!IsLast,
         Domains!Mine, DomainsSameGroup, DomainsSameView, DomainsOwned, DomainsOfGroup, DomainsOfView,
         DomainsDone
  <2> QED
    BY <2>1, <2>3, <2>4, <2>5 DEF DomainsEachOK
<1>6. DomainsEachOK(i)'
  <2>0. DomainsCallOK(bCalls[i])
    BY <1>t DEF DomainsInv
  <2>1. DomainsCallOK(d)'
    <3>1. \A v \in lists.views : v \in bStore.spent /\ bStore.views[v] = bCalls[i].source
      BY <1>o, <1>p, <1>k DEF DomainsStoredOK, DomainsSuitable
    <3>2. \A g \in DomainGroup : lists.groups[g] # Nothing => DomainsOwned(g, bCalls[i].source)
      BY <1>o
    <3>3. d.session <= bPage.session /\ d.request <= bPage.request /\ d.version <= bPage.version /\ d.stamp <= bStore.writes
      BY <2>0, <1>e, <1>p DEF DomainsCallOK
    <3>4. d.session = bPage.session => d.source = bPage.source
      BY <2>0, <1>e DEF DomainsCallOK
    <3>5. d.kind = "read"
      BY <1>c, <1>e
    <3>6. \A g \in DomainGroup : d.lists.groups[g] # Nothing => DomainsOwned(g, d.source)'
      BY <3>2, <1>e, <1>f DEF DomainsOwned
    <3>7. \A v \in d.lists.views : v \in bStore.spent /\ bStore.views[v] \in {Nothing, d.source}
      BY <3>1, <1>e
    <3> QED
      BY <3>3, <3>4, <3>5, <3>6, <3>7, <1>f DEF DomainsCallOK, DomainsCreates
  <2>2. DomainsAddOK(d)' /\ DomainsHadOK(d)' /\ DomainsFreshOK(d)' /\ DomainsMadeOK(d)'
    BY <1>c, <1>e DEF DomainsAddOK, DomainsHadOK, DomainsFreshOK, DomainsMadeOK, DomainsCreates
  <2>3. DomainsFoundOK(d)'
    <3> SUFFICES ASSUME d.session = bPage.session PROVE DomainsFoundOK(d)'
      BY <1>f DEF DomainsFoundOK, DomainsCounts, DomainsLast, Domains!IsLast, Domains!Mine
    <3>1. bPage.source = bCalls[i].source
      BY <2>0, <1>e DEF DomainsCallOK
    <3>2. \A g \in DomainGroup : DomainsSameGroup(g, lists.groups)
      BY <1>o, <3>1 DEF DomainsSameGroup
    <3>3. \A v \in DomainView : DomainsSameView(v, lists.views)
      BY <1>o, <3>1 DEF DomainsSameView
    <3>4. bPage.loaded => \A g \in DomainGroup : bPage.groups[g] # Nothing => lists.groups[g] # Nothing
      BY <1>o, <1>k, <3>1 DEF DomainsListedOK
    <3>5. \A j \in DomainsUnder : bCalls[j].kind = "add" /\ bCalls[j].source = bPage.source => lists.groups[bCalls[j].group] # Nothing
      BY <1>o, <3>1 DEF DomainsInv, DomainsCallOK
    <3>6. \A j \in DomainsUnder : bCalls[j].session = bPage.session => bCalls[j].source = bPage.source
      BY DEF DomainsInv, DomainsCallOK
    <3>7. \A j \in DomainsUnder : bCalls[j].source = bPage.source =>
            \A g \in DomainGroup : bCalls[j].lists.groups[g] # Nothing => lists.groups[g] # Nothing
      BY <1>o, <3>1 DEF DomainsInv, DomainsCallOK
    <3>8. \A j \in DomainsUnder : bCalls[j].kind = "group" /\ DomainsDone(bCalls[j]) /\ bCalls[j].source = bPage.source
                            => lists.groups[bCalls[j].group] # Nothing
      BY <1>o, <3>1 DEF DomainsInv, DomainsCallOK
    <3>9. \A j \in DomainsUnder : bCalls[j].kind \in {"add", "group", "view"} => bCalls'[j] = bCalls[j]
      BY <1>g
    <3>10. /\ \A g \in DomainGroup : DomainsSameGroup(g, d.lists.groups)'
           /\ \A v \in DomainView : DomainsSameView(v, d.lists.views)'
      BY <3>2, <3>3, <1>e, <1>f DEF DomainsSameGroup, DomainsSameView, DomainsOwned
    <3>11. bPage'.loaded => \A g \in DomainGroup : bPage'.groups[g] # Nothing => d.lists.groups[g] # Nothing
      BY <3>4, <1>e, <1>f
    <3>12. \A j \in DomainsUnder' :
             /\ bCalls'[j].kind = "add" /\ bCalls'[j].source = bPage'.source => d.lists.groups[bCalls'[j].group] # Nothing
             /\ bCalls'[j].kind \in {"group", "view"} /\ Domains!Mine(bCalls[j])' =>
                  \A g \in DomainGroup : bCalls'[j].lists.groups[g] # Nothing => d.lists.groups[g] # Nothing
             /\ bCalls'[j].kind = "group" /\ DomainsDone(bCalls[j])' /\ bCalls'[j].source = bPage'.source =>
                  d.lists.groups[bCalls'[j].group] # Nothing
      <4> SUFFICES ASSUME NEW j \in DomainsUnder, bCalls'[j].kind \in {"add", "group", "view"}
                   PROVE  /\ bCalls[j].kind = "add" /\ bCalls[j].source = bPage.source => d.lists.groups[bCalls[j].group] # Nothing
                          /\ bCalls[j].session = bPage.session =>
                               \A g \in DomainGroup : bCalls[j].lists.groups[g] # Nothing => d.lists.groups[g] # Nothing
                          /\ bCalls[j].kind = "group" /\ DomainsDone(bCalls[j]) /\ bCalls[j].source = bPage.source =>
                               d.lists.groups[bCalls[j].group] # Nothing
        <5>1. \A j \in DomainsUnder : bCalls'[j].kind \in {"add", "group", "view"} => bCalls'[j] = bCalls[j]
          BY <3>9, <1>g
        <5> QED
          BY <5>1, <1>a, <1>f DEF DomainsDone, Domains!Mine
      <4>1. d.lists = lists
        BY <1>e
      <4>2. bCalls[j].kind = "add" /\ bCalls[j].source = bPage.source => lists.groups[bCalls[j].group] # Nothing
        BY <3>5
      <4>3. bCalls[j].session = bPage.session =>
              \A g \in DomainGroup : bCalls[j].lists.groups[g] # Nothing => lists.groups[g] # Nothing
        BY <3>6, <3>7
      <4>4. bCalls[j].kind = "group" /\ DomainsDone(bCalls[j]) /\ bCalls[j].source = bPage.source => lists.groups[bCalls[j].group] # Nothing
        BY <3>8
      <4> QED
        BY <4>1, <4>2, <4>3, <4>4
    <3> QED
      BY <3>10, <3>11, <3>12 DEF DomainsFoundOK
  <2> QED
    BY <2>1, <2>2, <2>3, <1>a DEF DomainsEachOK
<1>7. \A j, k \in DomainsUnder' : DomainsPairOK(j, k)'
  <2> SUFFICES ASSUME NEW j \in DomainsUnder, NEW k \in DomainsUnder PROVE DomainsPairOK(j, k)'
    BY <1>a
  <2>0. DomainsPairOK(j, k) /\ DomainsCallOK(bCalls[j]) /\ DomainsCallOK(bCalls[k])
    BY DEF DomainsInv
  <2>1. CASE j # i /\ k # i
    BY <2>0, <2>1, <1>a DEF DomainsPairOK, DomainsDone
  <2>2. CASE j = i
    <3>1. bCalls[k].kind = "group" => bCalls[k].stamp <= bStore.writes /\ bCalls[k].stamp \in Nat /\ k # i
      BY <2>0, <1>a, <1>c, DomainsCallFields DEF DomainsCallOK
    <3>2. bCalls[k].kind = "group" => ~(bCalls[k].stamp > bStore.writes) /\ bCalls'[k] = bCalls[k]
      BY <3>1, <1>a, <1>p
    <3> QED
      BY <2>0, <2>2, <3>2, <1>a, <1>c, <1>e, <1>g DEF DomainsPairOK, DomainsDone, DomainsCreates
  <2>3. CASE k = i /\ j # i
    <3>1. ASSUME bCalls[j].kind \in DomainsCreates, DomainsDone(bCalls[j]), bCalls[j].view \in lists.views PROVE bCalls[i].source = bCalls[j].source
      BY <3>1, <2>0, <1>o, <1>p DEF DomainsCallOK, DomainsSuitable
    <3> QED
      BY <2>0, <2>3, <3>1, <1>a, <1>c, <1>e DEF DomainsPairOK, DomainsDone, DomainsCreates
  <2> QED
    BY <2>1, <2>2, <2>3
<1>8. Domains!KeepsMembers
  BY <1>f DEF Domains!KeepsMembers
<1> QED
  BY <1>1, <1>2, <1>3, <1>4, <1>5, <1>6, <1>7, <1>8, <1>a, DomainsInvIs

\* A write, and what it leaves as it was.
LEMMA DomainsWritten ==
  ASSUME DomainsSuitable, DomainsTypesOK, NEW groups, NEW views, Domains!Write(groups, views),
         groups \in [DomainGroup -> DomainsRows \cup {Nothing}], views \in [DomainView -> DomainSource \cup {Nothing}]
  PROVE  /\ bStore' \in DomainsStores /\ bStore'.groups = groups /\ bStore'.views = views
         /\ bStore'.writes = bStore.writes + 1 /\ bStore.spent \subseteq bStore'.spent /\ DomainsStoredOK'
         /\ Domains!Stamp = bStore.writes + 1 /\ Domains!Stamp \in Nat
<1>1. bStore.writes \in Nat /\ bStore.spent \in SUBSET DomainView
  BY DomainsStoreFields DEF DomainsTypesOK
<1>2. /\ bStore'.groups = groups /\ bStore'.views = views /\ bStore'.writes = bStore.writes + 1
      /\ bStore'.spent = bStore.spent \cup {v \in DomainView : views[v] # Nothing}
  BY DEF Domains!Write
<1>3. bStore' \in DomainsStores
  BY <1>1 DEF Domains!Write, DomainsStores
<1> QED
  BY <1>1, <1>2, <1>3 DEF DomainsStoredOK, Domains!Stamp

\* An addition is saved: the row of its domain is replaced.
LEMMA DomainsServeAddKeeps ==
  ASSUME DomainsSuitable, DomainsInv, NEW i \in DOMAIN bCalls, Domains!ServeAdd(i)
  PROVE  DomainsInv' /\ Domains!KeepsMembers
<1>t. DomainsTypesOK /\ i \in DomainsUnder
  BY DEF DomainsInv, DomainsTypesOK, Domains!ServeAdd, Domains!At, DomainsUnder
<1>c. bCalls[i] \in DomainsCalls /\ bCalls[i].stage = "sent" /\ bCalls[i].kind = "add"
  BY <1>t DEF DomainsTypesOK, DomainsUnder, Domains!ServeAdd, Domains!At
<1>p. /\ bStore.writes \in Nat /\ bCalls[i].source \in DomainSource /\ bCalls[i].members \in SUBSET DomainTable
      /\ bStore.groups \in [DomainGroup -> DomainsRows \cup {Nothing}] /\ bStore.views \in [DomainView -> DomainSource \cup {Nothing}]
  BY <1>t, <1>c, DomainsCallFields, DomainsStoreFields DEF DomainsTypesOK
<1>o. /\ DomainsCallOK(bCalls[i]) /\ DomainsAddOK(bCalls[i]) /\ bCalls[i].group \in DomainGroup /\ DomainsOwned(bCalls[i].group, bCalls[i].source)
      /\ bCalls[i].group \in bPending
  BY <1>t, <1>c DEF DomainsInv, DomainsCallOK
<1>r. PICK row : row = [source |-> bCalls[i].source, members |-> bCalls[i].members]
  OBVIOUS
<1>w. row \in DomainsRows /\ row # Nothing /\ row.source = bCalls[i].source /\ row.members = bCalls[i].members
  BY <1>p, <1>r DEF DomainsRows, DomainsSuitable
<1>q. PICK groups : groups = [bStore.groups EXCEPT ![bCalls[i].group] = row]
  OBVIOUS
<1>x. /\ groups \in [DomainGroup -> DomainsRows \cup {Nothing}] /\ groups[bCalls[i].group] = row
      /\ \A g \in DomainGroup : g # bCalls[i].group => groups[g] = bStore.groups[g]
  BY <1>p, <1>w, <1>q, <1>o
<1>y. Domains!Write(groups, bStore.views)
  BY <1>r, <1>q DEF Domains!ServeAdd
<1>z. /\ bStore' \in DomainsStores /\ bStore'.groups = groups /\ bStore'.views = bStore.views
      /\ bStore'.writes = bStore.writes + 1 /\ bStore.spent \subseteq bStore'.spent /\ DomainsStoredOK'
      /\ Domains!Stamp = bStore.writes + 1 /\ Domains!Stamp \in Nat
  BY <1>t, <1>p, <1>x, <1>y, DomainsWritten
<1>s. PICK stage \in DomainsStages : stage = "done"
  BY DEF DomainsStages
<1>d. PICK d : d = DomainsStamped(bCalls[i], stage, Domains!Stamp)
  OBVIOUS
<1>e. /\ d \in DomainsCalls /\ d.stage = "done" /\ d.stamp = bStore.writes + 1 /\ d.lists = bCalls[i].lists
      /\ d.kind = "add" /\ d.session = bCalls[i].session /\ d.source = bCalls[i].source
      /\ d.group = bCalls[i].group /\ d.view = bCalls[i].view /\ d.members = bCalls[i].members
      /\ d.version = bCalls[i].version /\ d.request = bCalls[i].request /\ d.behind = bCalls[i].behind
  BY <1>c, <1>z, <1>s, <1>d, DomainsStampedIs
<1>f. Domains!Answer(i, d) /\ bPage' = bPage /\ bPending' = bPending /\ bPanel' = bPanel
  BY <1>s, <1>d DEF Domains!ServeAdd, DomainsStamped
<1>a. /\ bCalls' \in Seq(DomainsCalls \cup {Nothing}) /\ DomainsUnder' = DomainsUnder /\ bCalls'[i] = d
      /\ \A j \in DomainsUnder : bCalls[j] \in DomainsCalls /\ (j # i => bCalls'[j] = bCalls[j])
  BY <1>t, <1>e, <1>f, DomainsAnswered
<1>u. \A g \in DomainGroup, s \in DomainSource : DomainsOwned(g, s)' <=> DomainsOwned(g, s)
  BY <1>o, <1>w, <1>x, <1>z DEF DomainsOwned
<1>h. \A g \in DomainGroup : g # bCalls[i].group => bStore'.groups[g] = bStore.groups[g]
  BY <1>x, <1>z
<1>m. bStore'.groups[bCalls[i].group].members = bCalls[i].members
  BY <1>w, <1>x, <1>z
<1>v. \A j \in DomainsUnder : /\ bCalls[j].source \in DomainSource /\ bCalls[j].lists.views \subseteq DomainView /\ bCalls[j].stamp \in Nat
                              /\ bCalls[j].stamp <= bStore.writes
  BY <1>a, DomainsCallFields DEF DomainsInv, DomainsCallOK
<1>b. bPage.source \in DomainSource /\ bPage.groups \in DomainsLists /\ bPage.views \in SUBSET DomainView /\ bPage.shown \in DomainsShows
  BY <1>t, DomainsPageFields DEF DomainsTypesOK
<1>k. DomainsListedOK /\ DomainsStoredOK /\ DomainsCurrentOK /\ DomainsShownOK
  BY DEF DomainsInv
<1>n. \A j \in DomainsUnder : DomainsDone(bCalls[j]) => bCalls'[j] = bCalls[j]
  BY <1>a, <1>c DEF DomainsDone
<1>1. DomainsTypesOK'
  BY <1>t, <1>a, <1>f, <1>z DEF DomainsTypesOK
<1>2. DomainsListedOK'
  BY <1>a, <1>e, <1>f, <1>k, <1>u, <1>b, <1>z DEF DomainsListedOK, DomainsDone, DomainsCreates
<1>3. DomainsCurrentOK'
  <2> SUFFICES ASSUME bPage.loaded, ~bPage.overtaken PROVE DomainsCurrentOK'
    BY <1>f DEF DomainsCurrentOK
  <2>1. ASSUME NEW g \in DomainGroup, bPage.groups[g] # Nothing
        PROVE  (\/ bPage.groups[g] = bStore.groups[g].members
                \/ \E j \in DomainsUnder : bCalls[j].kind = "add" /\ DomainsDone(bCalls[j]) /\ bCalls[j].group = g)'
    <3>1. CASE g = bCalls[i].group
      BY <3>1, <1>t, <1>a, <1>e DEF DomainsDone
    <3>2. CASE g # bCalls[i].group
      BY <3>2, <2>1, <1>f, <1>h, <1>k, <1>n, <1>a DEF DomainsCurrentOK, DomainsDone
    <3> QED
      BY <3>1, <3>2
  <2>2. ASSUME NEW g \in DomainGroup, bPage.groups[g] = Nothing, DomainsOwned(g, bPage.source)'
        PROVE  (\E j \in DomainsUnder : /\ bCalls[j].kind = "group" /\ DomainsDone(bCalls[j]) /\ bCalls[j].group = g
                                        /\ bCalls[j].source = bPage.source)'
    BY <2>2, <1>u, <1>b, <1>f, <1>k, <1>n, <1>a DEF DomainsCurrentOK, DomainsDone
  <2>3. ASSUME NEW v \in DomainView
        PROVE  (\/ DomainsSameView(v, bPage.views)
                \/ \E j \in DomainsUnder : /\ DomainsOfView(bCalls[j]) /\ DomainsDone(bCalls[j]) /\ bCalls[j].view = v
                                           /\ bCalls[j].source = bPage.source)'
    BY <1>z, <1>f, <1>k, <1>n, <1>a DEF DomainsCurrentOK, DomainsDone, DomainsSameView, DomainsOfView
  <2> QED
    BY <2>1, <2>2, <2>3, <1>f DEF DomainsCurrentOK
<1>4. DomainsShownOK'
  <2> SUFFICES ASSUME bPage.shown # Nothing, ~bPage.shown.behind
               PROVE  (LET g == bPage.shown.group IN
                       /\ DomainsOwned(g, bPage.source)
                       /\ \/ bStore.groups[g].members = bPage.shown.roots
                          \/ \E j \in DomainsUnder : bCalls[j].kind = "add" /\ DomainsDone(bCalls[j]) /\ bCalls[j].group = g)'
    BY <1>f DEF DomainsShownOK
  <2>1. bPage.shown.group \in DomainGroup
    BY <1>b DEF DomainsShows, DomainsViews
  <2>2. DomainsOwned(bPage.shown.group, bPage.source)'
    BY <2>1, <1>u, <1>b, <1>f, <1>k DEF DomainsShownOK, DomainsOwned
  <2>3. CASE bPage.shown.group = bCalls[i].group
    BY <2>2, <2>3, <1>t, <1>a, <1>e, <1>f DEF DomainsDone
  <2>4. CASE bPage.shown.group # bCalls[i].group
    BY <2>2, <2>4, <2>1, <1>f, <1>h, <1>k, <1>n, <1>a DEF DomainsShownOK, DomainsDone
  <2> QED
    BY <2>3, <2>4
<1>5. ASSUME NEW j \in DomainsUnder, j # i PROVE DomainsEachOK(j)'
  <2>0. /\ DomainsCallOK(bCalls[j]) /\ DomainsAddOK(bCalls[j]) /\ DomainsHadOK(bCalls[j]) /\ DomainsFreshOK(bCalls[j]) /\ DomainsMadeOK(bCalls[j]) /\ DomainsFoundOK(bCalls[j])
        /\ bCalls'[j] = bCalls[j]
    BY <1>5, <1>a DEF DomainsInv
  <2>1. DomainsCallOK(bCalls[j])'
    <3>1. bCalls[j].stamp <= bStore'.writes
      BY <1>v, <1>z, <1>p
    <3> QED
      BY <3>1, <2>0, <1>f, <1>u, <1>v, <1>z DEF DomainsCallOK, DomainsDone
  <2>2. DomainsAddOK(bCalls[j])'
    <3>1. bCalls[j].kind = "add" => bCalls[j].group # bCalls[i].group /\ bCalls[j].group \in DomainGroup
      BY <2>0, <1>t, <1>c, <1>5 DEF DomainsInv, DomainsPairOK, DomainsCallOK
    <3> QED
      BY <3>1, <2>0, <1>h DEF DomainsAddOK, DomainsDone
  <2>3. DomainsHadOK(bCalls[j])'
    BY <2>0, <1>f DEF DomainsHadOK, Domains!Mine, Domains!Given
  <2>4. DomainsFreshOK(bCalls[j])'
    <3> SUFFICES ASSUME bCalls[j].kind = "group", DomainsDone(bCalls[j]), Domains!Mine(bCalls[j]), bCalls[j].version = bPage.version
                 PROVE  DomainsFreshOK(bCalls[j])'
      BY <2>0, <1>f DEF DomainsFreshOK, DomainsDone, Domains!Mine
    <3>1. bCalls[j].group # bCalls[i].group /\ bCalls[j].group \in DomainGroup
      BY <2>0, <1>t, <1>c DEF DomainsFreshOK, DomainsCallOK
    <3> QED
      BY <3>1, <2>0, <1>a, <1>e, <1>f, <1>h DEF DomainsFreshOK, Domains!Mine, DomainsDone
  <2>5. DomainsMadeOK(bCalls[j])'
    BY <2>0, <1>a, <1>f, <1>z, <1>n DEF DomainsMadeOK, Domains!Mine, DomainsDone
  <2>6. DomainsFoundOK(bCalls[j])'
    <3> SUFFICES ASSUME DomainsCounts(bCalls[j]) PROVE DomainsFoundOK(bCalls[j])'
      BY <2>0, <1>f DEF DomainsFoundOK, DomainsCounts, DomainsLast, Domains!IsLast, Domains!Mine, DomainsDone
    <3>1. ASSUME NEW g \in DomainGroup
          PROVE  (\/ DomainsSameGroup(g, bCalls[j].lists.groups)
                  \/ \E k \in DomainsUnder : /\ DomainsOfGroup(bCalls[k]) /\ DomainsDone(bCalls[k]) /\ bCalls[k].group = g
                                             /\ bCalls[k].source = bPage.source /\ bCalls[k].stamp > bCalls[j].stamp)'
      <4>1. \/ DomainsSameGroup(g, bCalls[j].lists.groups)
            \/ \E k \in DomainsUnder : /\ DomainsOfGroup(bCalls[k]) /\ DomainsDone(bCalls[k]) /\ bCalls[k].group = g
                                       /\ bCalls[k].source = bPage.source /\ bCalls[k].stamp > bCalls[j].stamp
        BY <2>0 DEF DomainsFoundOK
      <4>2. ASSUME NEW k \in DomainsUnder, DomainsOfGroup(bCalls[k]), DomainsDone(bCalls[k]), bCalls[k].group = g,
                   bCalls[k].source = bPage.source, bCalls[k].stamp > bCalls[j].stamp
            PROVE  (\E l \in DomainsUnder : /\ DomainsOfGroup(bCalls[l]) /\ DomainsDone(bCalls[l]) /\ bCalls[l].group = g
                                            /\ bCalls[l].source = bPage.source /\ bCalls[l].stamp > bCalls[j].stamp)'
        BY <4>2, <2>0, <1>n, <1>a, <1>f DEF DomainsOfGroup, DomainsDone
      <4>3. ASSUME g = bCalls[i].group, bCalls[i].source = bPage.source
            PROVE  (\E l \in DomainsUnder : /\ DomainsOfGroup(bCalls[l]) /\ DomainsDone(bCalls[l]) /\ bCalls[l].group = g
                                            /\ bCalls[l].source = bPage.source /\ bCalls[l].stamp > bCalls[j].stamp)'
        <5>1. d.stamp > bCalls[j].stamp
          BY <1>v, <1>e, <1>p
        <5> QED
          BY <4>3, <5>1, <2>0, <1>t, <1>a, <1>e, <1>f DEF DomainsOfGroup, DomainsDone
      <4>4. ASSUME DomainsSameGroup(g, bCalls[j].lists.groups), g # bCalls[i].group \/ bCalls[i].source # bPage.source
            PROVE  DomainsSameGroup(g, bCalls[j].lists.groups)'
        <5>1. CASE g # bCalls[i].group
          BY <4>4, <5>1, <1>h, <1>u, <1>b, <2>0, <1>f DEF DomainsSameGroup
        <5>2. CASE g = bCalls[i].group /\ bCalls[i].source # bPage.source
          <6>1. ~DomainsOwned(g, bPage.source)
            BY <5>2, <1>o DEF DomainsOwned
          <6> QED
            BY <6>1, <4>4, <1>u, <1>b, <2>0, <1>f DEF DomainsSameGroup
        <5> QED
          BY <4>4, <5>1, <5>2
      <4> QED
        BY <4>1, <4>2, <4>3, <4>4
    <3>2. ASSUME NEW v \in DomainView
          PROVE  (\/ DomainsSameView(v, bCalls[j].lists.views)
                  \/ \E k \in DomainsUnder : /\ DomainsOfView(bCalls[k]) /\ DomainsDone(bCalls[k]) /\ bCalls[k].view = v
                                             /\ bCalls[k].source = bPage.source /\ bCalls[k].stamp > bCalls[j].stamp)'
      BY <2>0, <1>n, <1>a, <1>f, <1>z DEF DomainsFoundOK, DomainsSameView, DomainsOfView, DomainsDone
    <3>3. \A k \in DomainsUnder : /\ bCalls'[k].kind = bCalls[k].kind /\ bCalls'[k].source = bCalls[k].source
                                  /\ bCalls'[k].group = bCalls[k].group /\ bCalls'[k].lists = bCalls[k].lists
                                  /\ bCalls'[k].session = bCalls[k].session
                                  /\ (bCalls[k].kind = "group" => bCalls'[k] = bCalls[k])
      BY <1>a, <1>c, <1>e
    <3>4. (bPage.loaded => \A g \in DomainGroup : bPage.groups[g] # Nothing => bCalls[j].lists.groups[g] # Nothing)'
      BY <2>0, <1>f DEF DomainsFoundOK
    <3>5. ASSUME NEW k \in DomainsUnder
          PROVE  (LET e == bCalls[k]  c == bCalls[j] IN
                  /\ e.kind = "add" /\ e.source = bPage.source => c.lists.groups[e.group] # Nothing
                  /\ e.kind \in {"group", "view"} /\ Domains!Mine(e) =>
                       \A g \in DomainGroup : e.lists.groups[g] # Nothing => c.lists.groups[g] # Nothing
                  /\ e.kind = "group" /\ DomainsDone(e) /\ e.source = bPage.source /\ e.stamp <= c.stamp =>
                       c.lists.groups[e.group] # Nothing)'
      BY <2>0, <1>f, <3>3 DEF DomainsFoundOK, Domains!Mine, DomainsDone
    <3> QED
      BY <3>1, <3>2, <3>4, <3>5, <1>a DEF DomainsFoundOK
  <2> QED
    BY <2>1, <2>2, <2>3, <2>4, <2>5, <2>6 DEF DomainsEachOK
<1>6. DomainsEachOK(i)'
  <2>1. DomainsCallOK(d)'
    <3>1. d.stamp <= bStore'.writes
      BY <1>e, <1>z, <1>p
    <3>2. d.session <= bPage.session /\ d.request <= bPage.request /\ d.version <= bPage.version
      BY <1>o, <1>e DEF DomainsCallOK
    <3>3. d.session = bPage.session => d.source = bPage.source
      BY <1>o, <1>e DEF DomainsCallOK
    <3>4. \A g \in DomainGroup : d.lists.groups[g] # Nothing => DomainsOwned(g, d.source)'
      BY <1>o, <1>e, <1>u, <1>p DEF DomainsCallOK
    <3>5. \A v \in d.lists.views : v \in bStore'.spent /\ bStore'.views[v] \in {Nothing, d.source}
      BY <1>o, <1>e, <1>z DEF DomainsCallOK
    <3>6. d.kind = "add" /\ d.group \in bPending' /\ d.group \in DomainGroup /\ DomainsOwned(d.group, d.source)'
      BY <1>o, <1>e, <1>f, <1>u, <1>p
    <3> QED
      BY <3>1, <3>2, <3>3, <3>4, <3>5, <3>6, <1>f DEF DomainsCallOK, DomainsCreates
  <2>2. DomainsAddOK(d)'
    BY <1>e, <1>m DEF DomainsAddOK
  <2>3. DomainsHadOK(d)' /\ DomainsFreshOK(d)' /\ DomainsMadeOK(d)' /\ DomainsFoundOK(d)'
    BY <1>e DEF DomainsHadOK, DomainsFreshOK, DomainsMadeOK, DomainsFoundOK, DomainsCounts, DomainsLast, DomainsCreates
  <2> QED
    BY <2>1, <2>2, <2>3, <1>a DEF DomainsEachOK
<1>7. \A j, k \in DomainsUnder' : DomainsPairOK(j, k)'
  <2>1. \A k \in DomainsUnder : /\ bCalls'[k].kind = bCalls[k].kind /\ bCalls'[k].source = bCalls[k].source
                                /\ bCalls'[k].group = bCalls[k].group /\ bCalls'[k].lists = bCalls[k].lists
                                /\ bCalls'[k].view = bCalls[k].view /\ bCalls'[k].request = bCalls[k].request
                                /\ (bCalls[k].kind # "add" => bCalls'[k] = bCalls[k])
    BY <1>a, <1>c, <1>e
  <2> QED
    BY <2>1, <1>a DEF DomainsInv, DomainsPairOK, DomainsDone, DomainsCreates
<1>8. Domains!KeepsMembers
  <2> SUFFICES ASSUME NEW g \in DomainGroup, bStore.groups[g] # Nothing
               PROVE  \/ bStore.groups[g].members \subseteq bStore'.groups[g].members
                      \/ \E j \in DOMAIN bCalls : Domains!At(j, "sent") /\ bCalls[j].kind = "add" /\ bCalls[j].group = g /\ bCalls[j].behind
    BY DEF Domains!KeepsMembers
  <2>1. CASE g # bCalls[i].group
    BY <2>1, <1>h
  <2>2. CASE g = bCalls[i].group /\ bCalls[i].behind
    BY <2>2, <1>c DEF Domains!ServeAdd
  <2>3. CASE g = bCalls[i].group /\ ~bCalls[i].behind
    BY <2>3, <1>c, <1>o, <1>m DEF DomainsAddOK
  <2> QED
    BY <2>1, <2>2, <2>3
<1> QED
  BY <1>1, <1>2, <1>3, <1>4, <1>5, <1>6, <1>7, <1>8, <1>a, <1>z, DomainsInvIs

\* A domain the panel asked for is made, in a row that was free.
LEMMA DomainsServeGroupKeeps ==
  ASSUME DomainsSuitable, DomainsInv, NEW i \in DOMAIN bCalls, Domains!ServeGroup(i)
  PROVE  DomainsInv' /\ Domains!KeepsMembers
<1>t. DomainsTypesOK /\ i \in DomainsUnder
  BY DEF DomainsInv, DomainsTypesOK, Domains!ServeGroup, Domains!At, DomainsUnder
<1>c. bCalls[i] \in DomainsCalls /\ bCalls[i].stage = "sent" /\ bCalls[i].kind = "group"
  BY <1>t DEF DomainsTypesOK, DomainsUnder, Domains!ServeGroup, Domains!At
<1>p. /\ bStore.writes \in Nat /\ bCalls[i].source \in DomainSource /\ bCalls[i].members \in SUBSET DomainTable
      /\ bStore.groups \in [DomainGroup -> DomainsRows \cup {Nothing}] /\ bStore.views \in [DomainView -> DomainSource \cup {Nothing}]
  BY <1>t, <1>c, DomainsCallFields, DomainsStoreFields DEF DomainsTypesOK
<1>o. DomainsCallOK(bCalls[i])
  BY <1>t DEF DomainsInv
<1>r. PICK row : row = [source |-> bCalls[i].source, members |-> bCalls[i].members]
  OBVIOUS
<1>w. row \in DomainsRows /\ row # Nothing /\ row.source = bCalls[i].source /\ row.members = bCalls[i].members
  BY <1>p, <1>r DEF DomainsRows, DomainsSuitable
<1>h0. PICK h \in DomainGroup :
         /\ bStore.groups[h] = Nothing
         /\ Domains!Write([bStore.groups EXCEPT ![h] = row], bStore.views)
         /\ Domains!Answer(i, [bCalls[i] EXCEPT !.stage = "done", !.stamp = Domains!Stamp, !.group = h])
  BY <1>r DEF Domains!ServeGroup
<1>q. PICK groups : groups = [bStore.groups EXCEPT ![h] = row]
  OBVIOUS
<1>x. /\ groups \in [DomainGroup -> DomainsRows \cup {Nothing}] /\ groups[h] = row
      /\ \A g \in DomainGroup : g # h => groups[g] = bStore.groups[g]
  BY <1>p, <1>w, <1>q
<1>y. Domains!Write(groups, bStore.views)
  BY <1>h0, <1>q
<1>z. /\ bStore' \in DomainsStores /\ bStore'.groups = groups /\ bStore'.views = bStore.views
      /\ bStore'.writes = bStore.writes + 1 /\ bStore.spent \subseteq bStore'.spent /\ DomainsStoredOK'
      /\ Domains!Stamp = bStore.writes + 1 /\ Domains!Stamp \in Nat
  BY <1>t, <1>p, <1>x, <1>y, DomainsWritten
<1>s. PICK stage \in DomainsStages : stage = "done"
  BY DEF DomainsStages
<1>d. PICK d : d = DomainsGrouped(bCalls[i], stage, Domains!Stamp, h)
  OBVIOUS
<1>e. /\ d \in DomainsCalls /\ d.stage = "done" /\ d.stamp = bStore.writes + 1 /\ d.lists = bCalls[i].lists
      /\ d.kind = "group" /\ d.session = bCalls[i].session /\ d.source = bCalls[i].source
      /\ d.group = h /\ d.view = bCalls[i].view /\ d.members = bCalls[i].members
      /\ d.version = bCalls[i].version /\ d.request = bCalls[i].request /\ d.behind = bCalls[i].behind
  BY <1>c, <1>z, <1>s, <1>d, DomainsGroupedIs
<1>f. Domains!Answer(i, d) /\ bPage' = bPage /\ bPending' = bPending /\ bPanel' = bPanel
  BY <1>s, <1>d, <1>h0 DEF Domains!ServeGroup, DomainsGrouped
<1>a. /\ bCalls' \in Seq(DomainsCalls \cup {Nothing}) /\ DomainsUnder' = DomainsUnder /\ bCalls'[i] = d
      /\ \A j \in DomainsUnder : bCalls[j] \in DomainsCalls /\ (j # i => bCalls'[j] = bCalls[j])
  BY <1>t, <1>e, <1>f, DomainsAnswered
<1>u. \A g \in DomainGroup, s \in DomainSource : /\ DomainsOwned(g, s) => g # h
                                                 /\ g # h => (DomainsOwned(g, s)' <=> DomainsOwned(g, s))
                                                 /\ DomainsOwned(h, s)' <=> s = bCalls[i].source
  BY <1>h0, <1>w, <1>x, <1>z DEF DomainsOwned
<1>h. \A g \in DomainGroup : g # h => bStore'.groups[g] = bStore.groups[g]
  BY <1>x, <1>z
<1>m. bStore'.groups[h].members = bCalls[i].members
  BY <1>w, <1>x, <1>z
<1>v. \A j \in DomainsUnder : /\ bCalls[j].source \in DomainSource /\ bCalls[j].lists.views \subseteq DomainView /\ bCalls[j].stamp \in Nat
                              /\ bCalls[j].stamp <= bStore.writes
  BY <1>a, DomainsCallFields DEF DomainsInv, DomainsCallOK
<1>b. bPage.source \in DomainSource /\ bPage.groups \in DomainsLists /\ bPage.views \in SUBSET DomainView /\ bPage.shown \in DomainsShows
  BY <1>t, DomainsPageFields DEF DomainsTypesOK
<1>k. DomainsListedOK /\ DomainsStoredOK /\ DomainsCurrentOK /\ DomainsShownOK
  BY DEF DomainsInv
<1>n. \A j \in DomainsUnder : DomainsDone(bCalls[j]) \/ bCalls[j].kind # "group" => bCalls'[j] = bCalls[j]
  BY <1>a, <1>c DEF DomainsDone
\* Nothing that lists domains has this one.
<1>l. \A j \in DomainsUnder : bCalls[j].lists.groups[h] = Nothing
  BY <1>u, <1>v DEF DomainsInv, DomainsCallOK
<1>1. DomainsTypesOK'
  BY <1>t, <1>a, <1>f, <1>z DEF DomainsTypesOK
<1>2. DomainsListedOK'
  BY <1>a, <1>c, <1>e, <1>f, <1>k, <1>u, <1>b, <1>z DEF DomainsListedOK, DomainsDone, DomainsCreates
<1>3. DomainsCurrentOK'
  <2> SUFFICES ASSUME bPage.loaded, ~bPage.overtaken PROVE DomainsCurrentOK'
    BY <1>f DEF DomainsCurrentOK
  <2>1. ASSUME NEW g \in DomainGroup, bPage.groups[g] # Nothing
        PROVE  (\/ bPage.groups[g] = bStore.groups[g].members
                \/ \E j \in DomainsUnder : bCalls[j].kind = "add" /\ DomainsDone(bCalls[j]) /\ bCalls[j].group = g)'
    <3>1. g # h
      BY <2>1, <1>k, <1>u, <1>b DEF DomainsListedOK
    <3> QED
      BY <3>1, <2>1, <1>f, <1>h, <1>k, <1>n, <1>a DEF DomainsCurrentOK, DomainsDone
  <2>2. ASSUME NEW g \in DomainGroup, bPage.groups[g] = Nothing, DomainsOwned(g, bPage.source)'
        PROVE  (\E j \in DomainsUnder : /\ bCalls[j].kind = "group" /\ DomainsDone(bCalls[j]) /\ bCalls[j].group = g
                                        /\ bCalls[j].source = bPage.source)'
    <3>1. CASE g = h
      BY <3>1, <2>2, <1>t, <1>a, <1>e, <1>f, <1>u, <1>b DEF DomainsDone
    <3>2. CASE g # h
      BY <3>2, <2>2, <1>u, <1>b, <1>f, <1>k, <1>n, <1>a DEF DomainsCurrentOK, DomainsDone
    <3> QED
      BY <3>1, <3>2
  <2>3. ASSUME NEW v \in DomainView
        PROVE  (\/ DomainsSameView(v, bPage.views)
                \/ \E j \in DomainsUnder : /\ DomainsOfView(bCalls[j]) /\ DomainsDone(bCalls[j]) /\ bCalls[j].view = v
                                           /\ bCalls[j].source = bPage.source)'
    BY <1>z, <1>f, <1>k, <1>n, <1>a DEF DomainsCurrentOK, DomainsDone, DomainsSameView, DomainsOfView
  <2> QED
    BY <2>1, <2>2, <2>3, <1>f DEF DomainsCurrentOK
<1>4. DomainsShownOK'
  <2> SUFFICES ASSUME bPage.shown # Nothing, ~bPage.shown.behind
               PROVE  (LET g == bPage.shown.group IN
                       /\ DomainsOwned(g, bPage.source)
                       /\ \/ bStore.groups[g].members = bPage.shown.roots
                          \/ \E j \in DomainsUnder : bCalls[j].kind = "add" /\ DomainsDone(bCalls[j]) /\ bCalls[j].group = g)'
    BY <1>f DEF DomainsShownOK
  <2>1. bPage.shown.group \in DomainGroup
    BY <1>b DEF DomainsShows, DomainsViews
  <2>2. bPage.shown.group # h /\ DomainsOwned(bPage.shown.group, bPage.source)'
    BY <2>1, <1>u, <1>b, <1>f, <1>k DEF DomainsShownOK
  <2> QED
    BY <2>2, <2>1, <1>f, <1>h, <1>k, <1>n, <1>a DEF DomainsShownOK, DomainsDone
<1>5. ASSUME NEW j \in DomainsUnder, j # i PROVE DomainsEachOK(j)'
  <2>0. /\ DomainsCallOK(bCalls[j]) /\ DomainsAddOK(bCalls[j]) /\ DomainsHadOK(bCalls[j]) /\ DomainsFreshOK(bCalls[j]) /\ DomainsMadeOK(bCalls[j]) /\ DomainsFoundOK(bCalls[j])
        /\ bCalls'[j] = bCalls[j]
    BY <1>5, <1>a DEF DomainsInv
  <2>1. DomainsCallOK(bCalls[j])'
    <3>1. bCalls[j].stamp <= bStore'.writes
      BY <1>v, <1>z, <1>p
    <3>2. \A g \in DomainGroup : DomainsOwned(g, bCalls[j].source) => DomainsOwned(g, bCalls[j].source)'
      BY <2>0, <1>u, <1>v
    <3> QED
      BY <3>1, <3>2, <2>0, <1>f, <1>v, <1>z DEF DomainsCallOK, DomainsDone
  <2>2. DomainsAddOK(bCalls[j])'
    <3>1. bCalls[j].kind = "add" => bCalls[j].group # h /\ bCalls[j].group \in DomainGroup
      BY <2>0, <1>u, <1>v DEF DomainsCallOK
    <3> QED
      BY <3>1, <2>0, <1>h DEF DomainsAddOK, DomainsDone
  <2>3. DomainsHadOK(bCalls[j])'
    BY <2>0, <1>f DEF DomainsHadOK, Domains!Mine, Domains!Given
  <2>4. DomainsFreshOK(bCalls[j])'
    <3> SUFFICES ASSUME bCalls[j].kind = "group", DomainsDone(bCalls[j]), Domains!Mine(bCalls[j]), bCalls[j].version = bPage.version
                 PROVE  DomainsFreshOK(bCalls[j])'
      BY <2>0, <1>f DEF DomainsFreshOK, DomainsDone, Domains!Mine
    <3>1. bCalls[j].group # h /\ bCalls[j].group \in DomainGroup
      BY <2>0, <1>u, <1>v DEF DomainsCallOK
    <3> QED
      BY <3>1, <2>0, <1>a, <1>e, <1>f, <1>h DEF DomainsFreshOK, Domains!Mine, DomainsDone
  <2>5. DomainsMadeOK(bCalls[j])'
    BY <2>0, <1>a, <1>f, <1>z, <1>n DEF DomainsMadeOK, Domains!Mine, DomainsDone
  <2>6. DomainsFoundOK(bCalls[j])'
    <3> SUFFICES ASSUME DomainsCounts(bCalls[j]) PROVE DomainsFoundOK(bCalls[j])'
      BY <2>0, <1>f DEF DomainsFoundOK, DomainsCounts, DomainsLast, Domains!IsLast, Domains!Mine, DomainsDone
    <3>0. d.stamp > bCalls[j].stamp /\ ~(d.stamp <= bCalls[j].stamp)
      BY <1>v, <1>e, <1>p
    <3>1. ASSUME NEW g \in DomainGroup
          PROVE  (\/ DomainsSameGroup(g, bCalls[j].lists.groups)
                  \/ \E k \in DomainsUnder : /\ DomainsOfGroup(bCalls[k]) /\ DomainsDone(bCalls[k]) /\ bCalls[k].group = g
                                             /\ bCalls[k].source = bPage.source /\ bCalls[k].stamp > bCalls[j].stamp)'
      <4>1. \/ DomainsSameGroup(g, bCalls[j].lists.groups)
            \/ \E k \in DomainsUnder : /\ DomainsOfGroup(bCalls[k]) /\ DomainsDone(bCalls[k]) /\ bCalls[k].group = g
                                       /\ bCalls[k].source = bPage.source /\ bCalls[k].stamp > bCalls[j].stamp
        BY <2>0 DEF DomainsFoundOK
      <4>2. ASSUME NEW k \in DomainsUnder, DomainsOfGroup(bCalls[k]), DomainsDone(bCalls[k]), bCalls[k].group = g,
                   bCalls[k].source = bPage.source, bCalls[k].stamp > bCalls[j].stamp
            PROVE  (\E l \in DomainsUnder : /\ DomainsOfGroup(bCalls[l]) /\ DomainsDone(bCalls[l]) /\ bCalls[l].group = g
                                            /\ bCalls[l].source = bPage.source /\ bCalls[l].stamp > bCalls[j].stamp)'
        BY <4>2, <2>0, <1>n, <1>a, <1>f DEF DomainsOfGroup, DomainsDone
      <4>3. ASSUME g = h, bCalls[i].source = bPage.source
            PROVE  (\E l \in DomainsUnder : /\ DomainsOfGroup(bCalls[l]) /\ DomainsDone(bCalls[l]) /\ bCalls[l].group = g
                                            /\ bCalls[l].source = bPage.source /\ bCalls[l].stamp > bCalls[j].stamp)'
        BY <4>3, <3>0, <2>0, <1>t, <1>a, <1>e, <1>f DEF DomainsOfGroup, DomainsDone
      <4>4. ASSUME g = h, bCalls[i].source # bPage.source PROVE DomainsSameGroup(g, bCalls[j].lists.groups)'
        BY <4>4, <1>l, <1>u, <1>b, <2>0, <1>f DEF DomainsSameGroup
      <4>5. ASSUME g # h, DomainsSameGroup(g, bCalls[j].lists.groups) PROVE DomainsSameGroup(g, bCalls[j].lists.groups)'
        BY <4>5, <1>h, <1>u, <1>b, <2>0, <1>f DEF DomainsSameGroup
      <4> QED
        BY <4>1, <4>2, <4>3, <4>4, <4>5
    <3>2. ASSUME NEW v \in DomainView
          PROVE  (\/ DomainsSameView(v, bCalls[j].lists.views)
                  \/ \E k \in DomainsUnder : /\ DomainsOfView(bCalls[k]) /\ DomainsDone(bCalls[k]) /\ bCalls[k].view = v
                                             /\ bCalls[k].source = bPage.source /\ bCalls[k].stamp > bCalls[j].stamp)'
      BY <2>0, <1>n, <1>a, <1>f, <1>z DEF DomainsFoundOK, DomainsSameView, DomainsOfView, DomainsDone
    <3>3. \A k \in DomainsUnder : /\ bCalls'[k].kind = bCalls[k].kind /\ bCalls'[k].source = bCalls[k].source
                                  /\ (k # i => bCalls'[k] = bCalls[k]) /\ bCalls'[k].lists = bCalls[k].lists
                                  /\ bCalls'[k].session = bCalls[k].session
      BY <1>a, <1>c, <1>e
    <3>4. (bPage.loaded => \A g \in DomainGroup : bPage.groups[g] # Nothing => bCalls[j].lists.groups[g] # Nothing)'
      BY <2>0, <1>f DEF DomainsFoundOK
    <3>5. ASSUME NEW k \in DomainsUnder
          PROVE  (LET e == bCalls[k]  c == bCalls[j] IN
                  /\ e.kind = "add" /\ e.source = bPage.source => c.lists.groups[e.group] # Nothing
                  /\ e.kind \in {"group", "view"} /\ Domains!Mine(e) =>
                       \A g \in DomainGroup : e.lists.groups[g] # Nothing => c.lists.groups[g] # Nothing
                  /\ e.kind = "group" /\ DomainsDone(e) /\ e.source = bPage.source /\ e.stamp <= c.stamp =>
                       c.lists.groups[e.group] # Nothing)'
      <4>1. CASE k # i
        BY <4>1, <2>0, <1>f, <3>3 DEF DomainsFoundOK, Domains!Mine, DomainsDone
      <4>2. CASE k = i
        BY <4>2, <2>0, <3>0, <1>f, <1>a, <1>e, <1>c, <1>t DEF DomainsFoundOK, Domains!Mine, DomainsDone
      <4> QED
        BY <4>1, <4>2
    <3> QED
      BY <3>1, <3>2, <3>4, <3>5, <1>a DEF DomainsFoundOK
  <2> QED
    BY <2>1, <2>2, <2>3, <2>4, <2>5, <2>6 DEF DomainsEachOK
<1>6. DomainsEachOK(i)'
  <2>1. DomainsCallOK(d)'
    <3>1. d.stamp <= bStore'.writes
      BY <1>e, <1>z, <1>p
    <3>2. d.session <= bPage.session /\ d.request <= bPage.request /\ d.version <= bPage.version
      BY <1>o, <1>e DEF DomainsCallOK
    <3>3. d.session = bPage.session => d.source = bPage.source
      BY <1>o, <1>e DEF DomainsCallOK
    <3>4. \A g \in DomainGroup : d.lists.groups[g] # Nothing => DomainsOwned(g, d.source)'
      BY <1>o, <1>e, <1>u, <1>p DEF DomainsCallOK
    <3>5. \A v \in d.lists.views : v \in bStore'.spent /\ bStore'.views[v] \in {Nothing, d.source}
      BY <1>o, <1>e, <1>z DEF DomainsCallOK
    <3>6. d.kind = "group" /\ d.group \in DomainGroup /\ DomainsOwned(d.group, d.source)'
      BY <1>e, <1>u, <1>p
    <3> QED
      BY <3>1, <3>2, <3>3, <3>4, <3>5, <3>6, <1>f DEF DomainsCallOK, DomainsCreates
  <2>2. DomainsAddOK(d)' /\ DomainsMadeOK(d)' /\ DomainsFoundOK(d)'
    BY <1>e DEF DomainsAddOK, DomainsMadeOK, DomainsFoundOK, DomainsCounts, DomainsLast, DomainsCreates
  <2>3. DomainsHadOK(d)'
    BY <1>t, <1>c, <1>e, <1>f DEF DomainsInv, DomainsHadOK, Domains!Mine, Domains!Given
  <2>4. DomainsFreshOK(d)'
    <3>1. d.lists.groups[d.group] = Nothing
      BY <1>l, <1>t, <1>e
    <3>2. \A j \in DomainsUnder : bCalls[j].kind = "add" => bCalls[j].group # h
      BY <1>u, <1>v DEF DomainsInv, DomainsCallOK
    <3>3. \A j \in DomainsUnder' : bCalls'[j].kind = "add" => bCalls'[j].group # h
      BY <3>2, <1>a, <1>e
    <3> QED
      BY <3>1, <3>3, <1>e, <1>m DEF DomainsFreshOK
  <2> QED
    BY <2>1, <2>2, <2>3, <2>4, <1>a DEF DomainsEachOK
<1>7. \A j, k \in DomainsUnder' : DomainsPairOK(j, k)'
  <2> SUFFICES ASSUME NEW j \in DomainsUnder, NEW k \in DomainsUnder PROVE DomainsPairOK(j, k)'
    BY <1>a
  <2>0. DomainsPairOK(j, k)
    BY DEF DomainsInv
  <2>1. CASE k # i /\ j # i
    BY <2>0, <2>1, <1>a DEF DomainsPairOK, DomainsDone
  <2>2. CASE k = i
    BY <2>0, <2>2, <1>a, <1>c, <1>e, <1>l DEF DomainsPairOK, DomainsDone, DomainsCreates
  <2>3. CASE j = i /\ k # i
    BY <2>0, <2>3, <1>a, <1>c, <1>e DEF DomainsPairOK, DomainsDone, DomainsCreates
  <2> QED
    BY <2>1, <2>2, <2>3
<1>8. Domains!KeepsMembers
  BY <1>h, <1>h0 DEF Domains!KeepsMembers
<1> QED
  BY <1>1, <1>2, <1>3, <1>4, <1>5, <1>6, <1>7, <1>8, <1>a, <1>z, DomainsInvIs

\* A view is made, of the panel or of the canvas, under a name never used before.
LEMMA DomainsServeViewKeeps ==
  ASSUME DomainsSuitable, DomainsInv, NEW i \in DOMAIN bCalls, Domains!ServeView(i)
  PROVE  DomainsInv' /\ Domains!KeepsMembers
<1>t. DomainsTypesOK /\ i \in DomainsUnder
  BY DEF DomainsInv, DomainsTypesOK, Domains!ServeView, Domains!At, DomainsUnder
<1>c. bCalls[i] \in DomainsCalls /\ bCalls[i].stage = "sent" /\ bCalls[i].kind \in DomainsCreates
  BY <1>t DEF DomainsTypesOK, DomainsUnder, Domains!ServeView, Domains!At, DomainsCreates
<1>p. /\ bStore.writes \in Nat /\ bCalls[i].source \in DomainSource /\ bCalls[i].source # Nothing
      /\ bStore.groups \in [DomainGroup -> DomainsRows \cup {Nothing}] /\ bStore.views \in [DomainView -> DomainSource \cup {Nothing}]
  BY <1>t, <1>c, DomainsCallFields, DomainsStoreFields DEF DomainsTypesOK, DomainsSuitable
<1>o. DomainsCallOK(bCalls[i])
  BY <1>t DEF DomainsInv
<1>h0. PICK h \in DomainView :
         /\ h \notin bStore.spent
         /\ Domains!Write(bStore.groups, [bStore.views EXCEPT ![h] = bCalls[i].source])
         /\ Domains!Answer(i, [bCalls[i] EXCEPT !.stage = "done", !.stamp = Domains!Stamp, !.view = h])
  BY DEF Domains!ServeView
<1>q. PICK views : views = [bStore.views EXCEPT ![h] = bCalls[i].source]
  OBVIOUS
<1>x. /\ views \in [DomainView -> DomainSource \cup {Nothing}] /\ views[h] = bCalls[i].source
      /\ \A v \in DomainView : v # h => views[v] = bStore.views[v]
  BY <1>p, <1>q
<1>y. Domains!Write(bStore.groups, views)
  BY <1>h0, <1>q
<1>z. /\ bStore' \in DomainsStores /\ bStore'.groups = bStore.groups /\ bStore'.views = views
      /\ bStore'.writes = bStore.writes + 1 /\ bStore.spent \subseteq bStore'.spent /\ DomainsStoredOK'
      /\ Domains!Stamp = bStore.writes + 1 /\ Domains!Stamp \in Nat
  BY <1>t, <1>p, <1>x, <1>y, DomainsWritten
<1>s. PICK stage \in DomainsStages : stage = "done"
  BY DEF DomainsStages
<1>d. PICK d : d = DomainsViewed(bCalls[i], stage, Domains!Stamp, h)
  OBVIOUS
<1>e. /\ d \in DomainsCalls /\ d.stage = "done" /\ d.stamp = bStore.writes + 1 /\ d.lists = bCalls[i].lists
      /\ d.kind = bCalls[i].kind /\ d.session = bCalls[i].session /\ d.source = bCalls[i].source
      /\ d.group = bCalls[i].group /\ d.view = h /\ d.members = bCalls[i].members
      /\ d.version = bCalls[i].version /\ d.request = bCalls[i].request /\ d.behind = bCalls[i].behind
  BY <1>c, <1>z, <1>s, <1>d, DomainsViewedIs
<1>f. Domains!Answer(i, d) /\ bPage' = bPage /\ bPending' = bPending /\ bPanel' = bPanel
  BY <1>s, <1>d, <1>h0 DEF Domains!ServeView, DomainsViewed
<1>a. /\ bCalls' \in Seq(DomainsCalls \cup {Nothing}) /\ DomainsUnder' = DomainsUnder /\ bCalls'[i] = d
      /\ \A j \in DomainsUnder : bCalls[j] \in DomainsCalls /\ (j # i => bCalls'[j] = bCalls[j])
  BY <1>t, <1>e, <1>f, DomainsAnswered
<1>v. \A j \in DomainsUnder : /\ bCalls[j].source \in DomainSource /\ bCalls[j].lists.views \subseteq DomainView /\ bCalls[j].stamp \in Nat
                              /\ bCalls[j].stamp <= bStore.writes /\ bCalls[j].view \in DomainView \cup {Nothing}
  BY <1>a, DomainsCallFields DEF DomainsInv, DomainsCallOK, DomainsViewOrNone
<1>b. bPage.source \in DomainSource /\ bPage.groups \in DomainsLists /\ bPage.views \in SUBSET DomainView
  BY <1>t, DomainsPageFields DEF DomainsTypesOK
<1>k. DomainsListedOK /\ DomainsStoredOK /\ DomainsCurrentOK /\ DomainsShownOK
  BY DEF DomainsInv
<1>n. \A j \in DomainsUnder : DomainsDone(bCalls[j]) \/ bCalls[j].kind \notin DomainsCreates => bCalls'[j] = bCalls[j]
  BY <1>a, <1>c DEF DomainsDone
<1>u. \A g, s : DomainsOwned(g, s)' <=> DomainsOwned(g, s)
  BY <1>z DEF DomainsOwned
\* The view is new to all that name one.
<1>l. /\ bStore.views[h] = Nothing
      /\ \A j \in DomainsUnder : h \notin bCalls[j].lists.views
      /\ \A j \in DomainsUnder : bCalls[j].kind = "delete" \/ (bCalls[j].kind \in DomainsCreates /\ DomainsDone(bCalls[j])) =>
           bCalls[j].view # h /\ bCalls[j].view \in DomainView
  <2>1. bStore.views[h] = Nothing
    BY <1>h0, <1>k DEF DomainsStoredOK
  <2>2. \A j \in DomainsUnder : h \notin bCalls[j].lists.views
    BY <1>h0 DEF DomainsInv, DomainsCallOK
  <2>3. bStore.spent \subseteq DomainView
    BY <1>t, DomainsStoreFields DEF DomainsTypesOK
  <2> QED
    BY <1>h0, <2>1, <2>2, <2>3 DEF DomainsInv, DomainsCallOK
<1>h. bPage.loaded => h \notin bPage.views
  BY <1>h0, <1>k DEF DomainsListedOK
<1>1. DomainsTypesOK'
  BY <1>t, <1>a, <1>f, <1>z DEF DomainsTypesOK
<1>2. DomainsListedOK'
  <2> SUFFICES ASSUME bPage.loaded PROVE DomainsListedOK'
    BY <1>f DEF DomainsListedOK
  <2>1. \A g \in DomainGroup : bPage.groups[g] # Nothing => DomainsOwned(g, bPage.source)
    BY <1>k DEF DomainsListedOK
  <2>2. \A v \in bPage.views : v \in bStore'.spent /\ bStore'.views[v] \in {Nothing, bPage.source}
    BY <1>k, <1>h, <1>x, <1>z, <1>b DEF DomainsListedOK
  <2>3. \A j \in DomainsUnder' : bCalls'[j].kind \in DomainsCreates /\ DomainsDone(bCalls[j])' /\ bCalls'[j].view \in bPage.views =>
          bCalls'[j].source = bPage.source
    BY <1>k, <1>h, <1>a, <1>e DEF DomainsListedOK, DomainsDone
  <2> QED
    BY <2>1, <2>2, <2>3, <1>f, <1>u DEF DomainsListedOK
<1>3. DomainsCurrentOK'
  <2> SUFFICES ASSUME bPage.loaded, ~bPage.overtaken PROVE DomainsCurrentOK'
    BY <1>f DEF DomainsCurrentOK
  <2>1. ASSUME NEW g \in DomainGroup, bPage.groups[g] # Nothing
        PROVE  (\/ bPage.groups[g] = bStore.groups[g].members
                \/ \E j \in DomainsUnder : bCalls[j].kind = "add" /\ DomainsDone(bCalls[j]) /\ bCalls[j].group = g)'
    BY <2>1, <1>f, <1>z, <1>k, <1>n, <1>a DEF DomainsCurrentOK, DomainsDone
  <2>2. ASSUME NEW g \in DomainGroup, bPage.groups[g] = Nothing, DomainsOwned(g, bPage.source)'
        PROVE  (\E j \in DomainsUnder : /\ bCalls[j].kind = "group" /\ DomainsDone(bCalls[j]) /\ bCalls[j].group = g
                                        /\ bCalls[j].source = bPage.source)'
    BY <2>2, <1>u, <1>f, <1>k, <1>n, <1>a DEF DomainsCurrentOK, DomainsDone
  <2>3. ASSUME NEW v \in DomainView
        PROVE  (\/ DomainsSameView(v, bPage.views)
                \/ \E j \in DomainsUnder : /\ DomainsOfView(bCalls[j]) /\ DomainsDone(bCalls[j]) /\ bCalls[j].view = v
                                           /\ bCalls[j].source = bPage.source)'
    <3>1. CASE v # h
      BY <3>1, <1>x, <1>z, <1>f, <1>k, <1>n, <1>a DEF DomainsCurrentOK, DomainsDone, DomainsSameView, DomainsOfView
    <3>2. CASE v = h /\ bCalls[i].source = bPage.source
      BY <3>2, <1>t, <1>a, <1>e, <1>c, <1>f DEF DomainsDone, DomainsOfView
    <3>3. CASE v = h /\ bCalls[i].source # bPage.source
      BY <3>3, <1>x, <1>z, <1>h, <1>f DEF DomainsSameView
    <3> QED
      BY <3>1, <3>2, <3>3
  <2> QED
    BY <2>1, <2>2, <2>3, <1>f DEF DomainsCurrentOK
<1>4. DomainsShownOK'
  BY <1>f, <1>k, <1>n, <1>a, <1>z, <1>u DEF DomainsShownOK, DomainsDone
<1>5. ASSUME NEW j \in DomainsUnder, j # i PROVE DomainsEachOK(j)'
  <2>0. /\ DomainsCallOK(bCalls[j]) /\ DomainsAddOK(bCalls[j]) /\ DomainsHadOK(bCalls[j]) /\ DomainsFreshOK(bCalls[j]) /\ DomainsMadeOK(bCalls[j]) /\ DomainsFoundOK(bCalls[j])
        /\ bCalls'[j] = bCalls[j]
    BY <1>5, <1>a DEF DomainsInv
  <2>1. DomainsCallOK(bCalls[j])'
    <3>1. bCalls[j].stamp <= bStore'.writes
      BY <1>v, <1>z, <1>p
    <3>2. \A v \in bCalls[j].lists.views : v \in bStore'.spent /\ bStore'.views[v] \in {Nothing, bCalls[j].source}
      BY <2>0, <1>l, <1>v, <1>x, <1>z DEF DomainsCallOK
    <3>3. bCalls[j].kind = "delete" \/ (bCalls[j].kind \in DomainsCreates /\ DomainsDone(bCalls[j])) =>
            /\ bCalls[j].view \in bStore'.spent /\ bStore'.views[bCalls[j].view] \in {Nothing, bCalls[j].source}
            /\ bStore'.views[bCalls[j].view] = bStore.views[bCalls[j].view]
      BY <2>0, <1>l, <1>x, <1>z DEF DomainsCallOK
    <3> QED
      BY <3>1, <3>2, <3>3, <2>0, <1>f, <1>u DEF DomainsCallOK, DomainsDone
  <2>2. DomainsAddOK(bCalls[j])'
    BY <2>0, <1>z DEF DomainsAddOK, DomainsDone
  <2>3. DomainsHadOK(bCalls[j])'
    BY <2>0, <1>f DEF DomainsHadOK, Domains!Mine, Domains!Given
  <2>4. DomainsFreshOK(bCalls[j])'
    BY <2>0, <1>a, <1>e, <1>c, <1>f, <1>z, <1>n DEF DomainsFreshOK, Domains!Mine, DomainsDone, DomainsCreates
  <2>5. DomainsMadeOK(bCalls[j])'
    BY <2>0, <1>a, <1>f, <1>l, <1>x, <1>z, <1>n DEF DomainsMadeOK, Domains!Mine, DomainsDone
  <2>6. DomainsFoundOK(bCalls[j])'
    <3> SUFFICES ASSUME DomainsCounts(bCalls[j]) PROVE DomainsFoundOK(bCalls[j])'
      BY <2>0, <1>f DEF DomainsFoundOK, DomainsCounts, DomainsLast, Domains!IsLast, Domains!Mine, DomainsDone
    <3>0. d.stamp > bCalls[j].stamp
      BY <1>v, <1>e, <1>p
    <3>1. ASSUME NEW g \in DomainGroup
          PROVE  (\/ DomainsSameGroup(g, bCalls[j].lists.groups)
                  \/ \E k \in DomainsUnder : /\ DomainsOfGroup(bCalls[k]) /\ DomainsDone(bCalls[k]) /\ bCalls[k].group = g
                                             /\ bCalls[k].source = bPage.source /\ bCalls[k].stamp > bCalls[j].stamp)'
      BY <2>0, <1>n, <1>a, <1>f, <1>z, <1>u DEF DomainsFoundOK, DomainsSameGroup, DomainsOfGroup, DomainsDone
    <3>2. ASSUME NEW v \in DomainView
          PROVE  (\/ DomainsSameView(v, bCalls[j].lists.views)
                  \/ \E k \in DomainsUnder : /\ DomainsOfView(bCalls[k]) /\ DomainsDone(bCalls[k]) /\ bCalls[k].view = v
                                             /\ bCalls[k].source = bPage.source /\ bCalls[k].stamp > bCalls[j].stamp)'
      <4>1. CASE v # h
        BY <4>1, <1>x, <1>z, <1>f, <1>n, <1>a, <2>0 DEF DomainsFoundOK, DomainsDone, DomainsSameView, DomainsOfView
      <4>2. CASE v = h /\ bCalls[i].source = bPage.source
        BY <4>2, <3>0, <2>0, <1>t, <1>a, <1>e, <1>c, <1>f DEF DomainsDone, DomainsOfView
      <4>3. CASE v = h /\ bCalls[i].source # bPage.source
        BY <4>3, <2>0, <1>x, <1>z, <1>l, <1>f DEF DomainsSameView
      <4> QED
        BY <4>1, <4>2, <4>3
    <3>3. \A k \in DomainsUnder : /\ bCalls'[k].kind = bCalls[k].kind /\ bCalls'[k].source = bCalls[k].source
                                  /\ bCalls'[k].group = bCalls[k].group /\ bCalls'[k].lists = bCalls[k].lists
                                  /\ bCalls'[k].session = bCalls[k].session
                                  /\ (bCalls[k].kind = "group" => bCalls'[k] = bCalls[k])
      BY <1>a, <1>c, <1>e DEF DomainsCreates
    <3>4. (bPage.loaded => \A g \in DomainGroup : bPage.groups[g] # Nothing => bCalls[j].lists.groups[g] # Nothing)'
      BY <2>0, <1>f DEF DomainsFoundOK
    <3>5. ASSUME NEW k \in DomainsUnder
          PROVE  (LET e == bCalls[k]  c == bCalls[j] IN
                  /\ e.kind = "add" /\ e.source = bPage.source => c.lists.groups[e.group] # Nothing
                  /\ e.kind \in {"group", "view"} /\ Domains!Mine(e) =>
                       \A g \in DomainGroup : e.lists.groups[g] # Nothing => c.lists.groups[g] # Nothing
                  /\ e.kind = "group" /\ DomainsDone(e) /\ e.source = bPage.source /\ e.stamp <= c.stamp =>
                       c.lists.groups[e.group] # Nothing)'
      BY <2>0, <1>f, <3>3 DEF DomainsFoundOK, Domains!Mine, DomainsDone
    <3> QED
      BY <3>1, <3>2, <3>4, <3>5, <1>a DEF DomainsFoundOK
  <2> QED
    BY <2>1, <2>2, <2>3, <2>4, <2>5, <2>6 DEF DomainsEachOK
<1>6. DomainsEachOK(i)'
  <2>1. DomainsCallOK(d)'
    <3>1. d.stamp <= bStore'.writes
      BY <1>e, <1>z, <1>p
    <3>2. d.session <= bPage.session /\ d.request <= bPage.request /\ d.version <= bPage.version
      BY <1>o, <1>e DEF DomainsCallOK
    <3>3. d.session = bPage.session => d.source = bPage.source
      BY <1>o, <1>e DEF DomainsCallOK
    <3>4. \A g \in DomainGroup : d.lists.groups[g] # Nothing => DomainsOwned(g, d.source)'
      BY <1>o, <1>e, <1>u DEF DomainsCallOK
    <3>5. \A v \in d.lists.views : v \in bStore'.spent /\ bStore'.views[v] \in {Nothing, d.source}
      BY <1>o, <1>e, <1>l, <1>v, <1>x, <1>z, <1>t DEF DomainsCallOK
    <3>6. d.kind \in DomainsCreates /\ d.view \in bStore'.spent /\ bStore'.views[d.view] = d.source
      BY <1>e, <1>c, <1>x, <1>z, <1>p DEF DomainsStoredOK
    <3> QED
      BY <3>1, <3>2, <3>3, <3>4, <3>5, <3>6, <1>f DEF DomainsCallOK, DomainsCreates
  <2>2. DomainsAddOK(d)' /\ DomainsFreshOK(d)' /\ DomainsFoundOK(d)'
    BY <1>e, <1>c DEF DomainsAddOK, DomainsFreshOK, DomainsFoundOK, DomainsCounts, DomainsLast, DomainsCreates
  <2>3. DomainsHadOK(d)'
    BY <1>t, <1>c, <1>e, <1>f DEF DomainsInv, DomainsHadOK, Domains!Mine, Domains!Given
  <2>4. DomainsMadeOK(d)'
    BY <1>e, <1>x, <1>z DEF DomainsMadeOK
  <2> QED
    BY <2>1, <2>2, <2>3, <2>4, <1>a DEF DomainsEachOK
<1>7. \A j, k \in DomainsUnder' : DomainsPairOK(j, k)'
  <2> SUFFICES ASSUME NEW j \in DomainsUnder, NEW k \in DomainsUnder PROVE DomainsPairOK(j, k)'
    BY <1>a
  <2>0. DomainsPairOK(j, k)
    BY DEF DomainsInv
  <2>1. CASE k # i /\ j # i
    BY <2>0, <2>1, <1>a DEF DomainsPairOK, DomainsDone
  <2>2. CASE k = i /\ j # i
    BY <2>0, <2>2, <1>a, <1>c, <1>e, <1>l DEF DomainsPairOK, DomainsDone, DomainsCreates
  <2>3. CASE j = i
    BY <2>0, <2>3, <1>a, <1>c, <1>e, <1>l DEF DomainsPairOK, DomainsDone, DomainsCreates
  <2> QED
    BY <2>1, <2>2, <2>3
<1>8. Domains!KeepsMembers
  BY <1>z DEF Domains!KeepsMembers
<1> QED
  BY <1>1, <1>2, <1>3, <1>4, <1>5, <1>6, <1>7, <1>8, <1>a, <1>z, DomainsInvIs

\* A view is deleted.
LEMMA DomainsServeDeleteKeeps ==
  ASSUME DomainsSuitable, DomainsInv, NEW i \in DOMAIN bCalls, Domains!ServeDelete(i)
  PROVE  DomainsInv' /\ Domains!KeepsMembers
<1>t. DomainsTypesOK /\ i \in DomainsUnder
  BY DEF DomainsInv, DomainsTypesOK, Domains!ServeDelete, Domains!At, DomainsUnder
<1>c. bCalls[i] \in DomainsCalls /\ bCalls[i].stage = "sent" /\ bCalls[i].kind = "delete"
  BY <1>t DEF DomainsTypesOK, DomainsUnder, Domains!ServeDelete, Domains!At
<1>p. /\ bStore.writes \in Nat /\ bCalls[i].source \in DomainSource /\ bCalls[i].source # Nothing
      /\ bStore.groups \in [DomainGroup -> DomainsRows \cup {Nothing}] /\ bStore.views \in [DomainView -> DomainSource \cup {Nothing}]
  BY <1>t, <1>c, DomainsCallFields, DomainsStoreFields DEF DomainsTypesOK, DomainsSuitable
<1>h. PICK h : h = bCalls[i].view
  OBVIOUS
<1>o. DomainsCallOK(bCalls[i]) /\ h \in DomainView /\ bStore.views[h] \in {Nothing, bCalls[i].source}
  BY <1>t, <1>c, <1>h, DomainsStoreFields DEF DomainsInv, DomainsCallOK, DomainsTypesOK
<1>q. PICK views : views = [bStore.views EXCEPT ![h] = Nothing]
  OBVIOUS
<1>x. /\ views \in [DomainView -> DomainSource \cup {Nothing}] /\ views[h] = Nothing
      /\ \A v \in DomainView : v # h => views[v] = bStore.views[v]
  BY <1>p, <1>q, <1>o
<1>y. Domains!Write(bStore.groups, views)
  BY <1>h, <1>q DEF Domains!ServeDelete
<1>z. /\ bStore' \in DomainsStores /\ bStore'.groups = bStore.groups /\ bStore'.views = views
      /\ bStore'.writes = bStore.writes + 1 /\ bStore.spent \subseteq bStore'.spent /\ DomainsStoredOK'
      /\ Domains!Stamp = bStore.writes + 1 /\ Domains!Stamp \in Nat
  BY <1>t, <1>p, <1>x, <1>y, DomainsWritten
<1>s. PICK stage \in DomainsStages : stage = "done"
  BY DEF DomainsStages
<1>d. PICK d : d = DomainsStamped(bCalls[i], stage, Domains!Stamp)
  OBVIOUS
<1>e. /\ d \in DomainsCalls /\ d.stage = "done" /\ d.stamp = bStore.writes + 1 /\ d.lists = bCalls[i].lists
      /\ d.kind = "delete" /\ d.session = bCalls[i].session /\ d.source = bCalls[i].source
      /\ d.group = bCalls[i].group /\ d.view = h /\ d.members = bCalls[i].members
      /\ d.version = bCalls[i].version /\ d.request = bCalls[i].request /\ d.behind = bCalls[i].behind
  BY <1>c, <1>z, <1>s, <1>d, <1>h, DomainsStampedIs
<1>f. Domains!Answer(i, d) /\ bPage' = bPage /\ bPending' = bPending /\ bPanel' = bPanel
  BY <1>s, <1>d DEF Domains!ServeDelete, DomainsStamped
<1>a. /\ bCalls' \in Seq(DomainsCalls \cup {Nothing}) /\ DomainsUnder' = DomainsUnder /\ bCalls'[i] = d
      /\ \A j \in DomainsUnder : bCalls[j] \in DomainsCalls /\ (j # i => bCalls'[j] = bCalls[j])
  BY <1>t, <1>e, <1>f, DomainsAnswered
<1>v. \A j \in DomainsUnder : /\ bCalls[j].source \in DomainSource /\ bCalls[j].lists.views \subseteq DomainView /\ bCalls[j].stamp \in Nat
                              /\ bCalls[j].stamp <= bStore.writes
  BY <1>a, DomainsCallFields DEF DomainsInv, DomainsCallOK
<1>b. bPage.source \in DomainSource /\ bPage.source # Nothing /\ bPage.groups \in DomainsLists /\ bPage.views \in SUBSET DomainView
  BY <1>t, DomainsPageFields DEF DomainsTypesOK, DomainsSuitable
<1>k. DomainsListedOK /\ DomainsStoredOK /\ DomainsCurrentOK /\ DomainsShownOK
  BY DEF DomainsInv
<1>n. \A j \in DomainsUnder : DomainsDone(bCalls[j]) \/ bCalls[j].kind # "delete" => bCalls'[j] = bCalls[j]
  BY <1>a, <1>c DEF DomainsDone
<1>u. \A g, s : DomainsOwned(g, s)' <=> DomainsOwned(g, s)
  BY <1>z DEF DomainsOwned
<1>l. \A v, s : v \in DomainView /\ bStore.views[v] \in {Nothing, s} => bStore'.views[v] \in {Nothing, s}
  BY <1>x, <1>z
<1>w. bStore.spent \subseteq DomainView
  BY <1>t, DomainsStoreFields DEF DomainsTypesOK
<1>1. DomainsTypesOK'
  BY <1>t, <1>a, <1>f, <1>z DEF DomainsTypesOK
<1>2. DomainsListedOK'
  <2> SUFFICES ASSUME bPage.loaded PROVE DomainsListedOK'
    BY <1>f DEF DomainsListedOK
  <2>1. \A g \in DomainGroup : bPage.groups[g] # Nothing => DomainsOwned(g, bPage.source)
    BY <1>k DEF DomainsListedOK
  <2>2. \A v \in bPage.views : v \in bStore'.spent /\ bStore'.views[v] \in {Nothing, bPage.source}
    BY <1>k, <1>l, <1>z, <1>b DEF DomainsListedOK
  <2>3. \A j \in DomainsUnder' : bCalls'[j].kind \in DomainsCreates /\ DomainsDone(bCalls[j])' /\ bCalls'[j].view \in bPage.views =>
          bCalls'[j].source = bPage.source
    BY <1>k, <1>a, <1>e DEF DomainsListedOK, DomainsDone, DomainsCreates
  <2> QED
    BY <2>1, <2>2, <2>3, <1>f, <1>u DEF DomainsListedOK
<1>3. DomainsCurrentOK'
  <2> SUFFICES ASSUME bPage.loaded, ~bPage.overtaken PROVE DomainsCurrentOK'
    BY <1>f DEF DomainsCurrentOK
  <2>1. ASSUME NEW g \in DomainGroup, bPage.groups[g] # Nothing
        PROVE  (\/ bPage.groups[g] = bStore.groups[g].members
                \/ \E j \in DomainsUnder : bCalls[j].kind = "add" /\ DomainsDone(bCalls[j]) /\ bCalls[j].group = g)'
    BY <2>1, <1>f, <1>z, <1>k, <1>n, <1>a DEF DomainsCurrentOK, DomainsDone
  <2>2. ASSUME NEW g \in DomainGroup, bPage.groups[g] = Nothing, DomainsOwned(g, bPage.source)'
        PROVE  (\E j \in DomainsUnder : /\ bCalls[j].kind = "group" /\ DomainsDone(bCalls[j]) /\ bCalls[j].group = g
                                        /\ bCalls[j].source = bPage.source)'
    BY <2>2, <1>u, <1>f, <1>k, <1>n, <1>a DEF DomainsCurrentOK, DomainsDone
  <2>3. ASSUME NEW v \in DomainView
        PROVE  (\/ DomainsSameView(v, bPage.views)
                \/ \E j \in DomainsUnder : /\ DomainsOfView(bCalls[j]) /\ DomainsDone(bCalls[j]) /\ bCalls[j].view = v
                                           /\ bCalls[j].source = bPage.source)'
    <3>1. CASE v # h \/ bStore.views[h] = Nothing
      BY <3>1, <1>x, <1>z, <1>f, <1>k, <1>n, <1>a DEF DomainsCurrentOK, DomainsDone, DomainsSameView, DomainsOfView
    <3>2. CASE v = h /\ bCalls[i].source = bPage.source
      BY <3>2, <1>t, <1>a, <1>e, <1>c, <1>f DEF DomainsDone, DomainsOfView
    <3>3. CASE v = h /\ bCalls[i].source # bPage.source
      BY <3>3, <1>x, <1>z, <1>f, <1>o, <1>b, <1>k, <1>n, <1>a DEF DomainsCurrentOK, DomainsDone, DomainsSameView,
         DomainsOfView
    <3> QED
      BY <3>1, <3>2, <3>3
  <2> QED
    BY <2>1, <2>2, <2>3, <1>f DEF DomainsCurrentOK
<1>4. DomainsShownOK'
  BY <1>f, <1>k, <1>n, <1>a, <1>z, <1>u DEF DomainsShownOK, DomainsDone
<1>5. ASSUME NEW j \in DomainsUnder, j # i PROVE DomainsEachOK(j)'
  <2>0. /\ DomainsCallOK(bCalls[j]) /\ DomainsAddOK(bCalls[j]) /\ DomainsHadOK(bCalls[j]) /\ DomainsFreshOK(bCalls[j]) /\ DomainsMadeOK(bCalls[j]) /\ DomainsFoundOK(bCalls[j])
        /\ bCalls'[j] = bCalls[j]
    BY <1>5, <1>a DEF DomainsInv
  <2>s. d.stamp > bCalls[j].stamp
    BY <1>v, <1>e, <1>p
  <2>1. DomainsCallOK(bCalls[j])'
    <3>1. bCalls[j].stamp <= bStore'.writes
      BY <1>v, <1>z, <1>p
    <3>2. \A v \in bCalls[j].lists.views : v \in bStore'.spent /\ bStore'.views[v] \in {Nothing, bCalls[j].source}
      BY <2>0, <1>l, <1>v, <1>z DEF DomainsCallOK
    <3>3. bCalls[j].kind = "delete" \/ (bCalls[j].kind \in DomainsCreates /\ DomainsDone(bCalls[j])) =>
            /\ bCalls[j].view \in bStore'.spent /\ bStore'.views[bCalls[j].view] \in {Nothing, bCalls[j].source}
            /\ (bStore.views[bCalls[j].view] = Nothing => bStore'.views[bCalls[j].view] = Nothing)
      BY <2>0, <1>l, <1>x, <1>z, <1>w DEF DomainsCallOK
    <3> QED
      BY <3>1, <3>2, <3>3, <2>0, <1>f, <1>u DEF DomainsCallOK, DomainsDone
  <2>2. DomainsAddOK(bCalls[j])'
    BY <2>0, <1>z DEF DomainsAddOK, DomainsDone
  <2>3. DomainsHadOK(bCalls[j])'
    BY <2>0, <1>f DEF DomainsHadOK, Domains!Mine, Domains!Given
  <2>4. DomainsFreshOK(bCalls[j])'
    BY <2>0, <1>a, <1>e, <1>c, <1>f, <1>z, <1>n DEF DomainsFreshOK, Domains!Mine, DomainsDone
  <2>5. DomainsMadeOK(bCalls[j])'
    <3> SUFFICES ASSUME bCalls[j].kind \in DomainsCreates, DomainsDone(bCalls[j]), Domains!Mine(bCalls[j]), bPage.newest <= bCalls[j].stamp
                 PROVE  DomainsMadeOK(bCalls[j])'
      BY <2>0, <1>f DEF DomainsMadeOK, Domains!Mine, DomainsDone
    <3>1. CASE bCalls[j].view = h
      <4>1. bCalls[i].source = bCalls[j].source
        BY <3>1, <1>t, <1>c, <1>h DEF DomainsInv, DomainsPairOK
      <4> QED
        BY <3>1, <4>1, <2>s, <2>0, <1>t, <1>a, <1>e DEF DomainsMadeOK, DomainsDone
    <3>2. CASE bCalls[j].view # h
      <4>1. bCalls[j].view \in DomainView
        BY <2>0, <1>w DEF DomainsCallOK
      <4> QED
        BY <3>2, <4>1, <2>0, <1>a, <1>f, <1>x, <1>z, <1>n DEF DomainsMadeOK, DomainsDone
    <3> QED
      BY <3>1, <3>2
  <2>6. DomainsFoundOK(bCalls[j])'
    <3> SUFFICES ASSUME DomainsCounts(bCalls[j]) PROVE DomainsFoundOK(bCalls[j])'
      BY <2>0, <1>f DEF DomainsFoundOK, DomainsCounts, DomainsLast, Domains!IsLast, Domains!Mine, DomainsDone
    <3>1. ASSUME NEW g \in DomainGroup
          PROVE  (\/ DomainsSameGroup(g, bCalls[j].lists.groups)
                  \/ \E k \in DomainsUnder : /\ DomainsOfGroup(bCalls[k]) /\ DomainsDone(bCalls[k]) /\ bCalls[k].group = g
                                             /\ bCalls[k].source = bPage.source /\ bCalls[k].stamp > bCalls[j].stamp)'
      BY <2>0, <1>n, <1>a, <1>f, <1>z, <1>u DEF DomainsFoundOK, DomainsSameGroup, DomainsOfGroup, DomainsDone
    <3>2. ASSUME NEW v \in DomainView
          PROVE  (\/ DomainsSameView(v, bCalls[j].lists.views)
                  \/ \E k \in DomainsUnder : /\ DomainsOfView(bCalls[k]) /\ DomainsDone(bCalls[k]) /\ bCalls[k].view = v
                                             /\ bCalls[k].source = bPage.source /\ bCalls[k].stamp > bCalls[j].stamp)'
      <4>1. CASE v # h
        BY <4>1, <1>x, <1>z, <1>f, <1>n, <1>a, <2>0 DEF DomainsFoundOK, DomainsDone, DomainsSameView, DomainsOfView
      <4>2. CASE v = h /\ bCalls[i].source = bPage.source
        BY <4>2, <2>s, <2>0, <1>t, <1>a, <1>e, <1>c, <1>f DEF DomainsDone, DomainsOfView
      <4>3. CASE v = h /\ bCalls[i].source # bPage.source
        BY <4>3, <2>0, <1>x, <1>z, <1>f, <1>o, <1>b, <1>n, <1>a DEF DomainsFoundOK, DomainsDone, DomainsSameView,
           DomainsOfView
      <4> QED
        BY <4>1, <4>2, <4>3
    <3>3. \A k \in DomainsUnder : /\ bCalls'[k].kind = bCalls[k].kind /\ bCalls'[k].source = bCalls[k].source
                                  /\ bCalls'[k].group = bCalls[k].group /\ bCalls'[k].lists = bCalls[k].lists
                                  /\ bCalls'[k].session = bCalls[k].session
                                  /\ (bCalls[k].kind = "group" => bCalls'[k] = bCalls[k])
      BY <1>a, <1>c, <1>e
    <3>4. (bPage.loaded => \A g \in DomainGroup : bPage.groups[g] # Nothing => bCalls[j].lists.groups[g] # Nothing)'
      BY <2>0, <1>f DEF DomainsFoundOK
    <3>5. ASSUME NEW k \in DomainsUnder
          PROVE  (LET e == bCalls[k]  c == bCalls[j] IN
                  /\ e.kind = "add" /\ e.source = bPage.source => c.lists.groups[e.group] # Nothing
                  /\ e.kind \in {"group", "view"} /\ Domains!Mine(e) =>
                       \A g \in DomainGroup : e.lists.groups[g] # Nothing => c.lists.groups[g] # Nothing
                  /\ e.kind = "group" /\ DomainsDone(e) /\ e.source = bPage.source /\ e.stamp <= c.stamp =>
                       c.lists.groups[e.group] # Nothing)'
      BY <2>0, <1>f, <3>3 DEF DomainsFoundOK, Domains!Mine, DomainsDone
    <3> QED
      BY <3>1, <3>2, <3>4, <3>5, <1>a DEF DomainsFoundOK
  <2> QED
    BY <2>1, <2>2, <2>3, <2>4, <2>5, <2>6 DEF DomainsEachOK
<1>6. DomainsEachOK(i)'
  <2>1. DomainsCallOK(d)'
    <3>1. d.stamp <= bStore'.writes
      BY <1>e, <1>z, <1>p
    <3>2. d.session <= bPage.session /\ d.request <= bPage.request /\ d.version <= bPage.version
      BY <1>o, <1>e DEF DomainsCallOK
    <3>3. d.session = bPage.session => d.source = bPage.source
      BY <1>o, <1>e DEF DomainsCallOK
    <3>4. \A g \in DomainGroup : d.lists.groups[g] # Nothing => DomainsOwned(g, d.source)'
      BY <1>o, <1>e, <1>u DEF DomainsCallOK
    <3>5. \A v \in d.lists.views : v \in bStore'.spent /\ bStore'.views[v] \in {Nothing, d.source}
      BY <1>o, <1>e, <1>l, <1>v, <1>z, <1>t DEF DomainsCallOK
    <3>6. d.kind = "delete" /\ d.view \in bStore'.spent /\ bStore'.views[d.view] = Nothing
      BY <1>o, <1>e, <1>c, <1>h, <1>x, <1>z DEF DomainsCallOK
    <3> QED
      BY <3>1, <3>2, <3>3, <3>4, <3>5, <3>6, <1>f DEF DomainsCallOK, DomainsCreates
  <2>2. DomainsAddOK(d)' /\ DomainsHadOK(d)' /\ DomainsFreshOK(d)' /\ DomainsMadeOK(d)' /\ DomainsFoundOK(d)'
    BY <1>e DEF DomainsAddOK, DomainsHadOK, DomainsFreshOK, DomainsMadeOK, DomainsFoundOK, DomainsCounts,
       DomainsLast, DomainsCreates
  <2> QED
    BY <2>1, <2>2, <1>a DEF DomainsEachOK
<1>7. \A j, k \in DomainsUnder' : DomainsPairOK(j, k)'
  <2>1. \A k \in DomainsUnder : /\ bCalls'[k].kind = bCalls[k].kind /\ bCalls'[k].source = bCalls[k].source
                                /\ bCalls'[k].group = bCalls[k].group /\ bCalls'[k].lists = bCalls[k].lists
                                /\ bCalls'[k].view = bCalls[k].view /\ bCalls'[k].request = bCalls[k].request
                                /\ (bCalls[k].kind # "delete" => bCalls'[k] = bCalls[k])
    BY <1>a, <1>c, <1>e, <1>h
  <2> QED
    BY <2>1, <1>a DEF DomainsInv, DomainsPairOK, DomainsDone, DomainsCreates
<1>8. Domains!KeepsMembers
  BY <1>z DEF Domains!KeepsMembers
<1> QED
  BY <1>1, <1>2, <1>3, <1>4, <1>5, <1>6, <1>7, <1>8, <1>a, <1>z, DomainsInvIs

\* A call is answered: what the page becomes is still what the other calls build on.
DomainsAnswers(i) ==
  /\ bPage'.source = bPage.source /\ bPage'.session = bPage.session /\ bPage'.request = bPage.request
  /\ bPage'.newest >= bPage.newest
  /\ \/ bPage'.version = bPage.version /\ Domains!Given' = Domains!Given
     \/ bPage'.version = bPage.version + 1
  /\ DomainsDone(bCalls[i]) /\ bCalls[i].kind # "read" /\ bCalls[i].source = bPage.source => bPage'.newest >= bCalls[i].stamp
  /\ \A j \in DomainsUnder \ {i} : DomainsCounts(bCalls[j]) /\ bPage'.newest <= bCalls[j].stamp /\ bPage'.loaded =>
       \A g \in DomainGroup : bPage'.groups[g] # Nothing => bCalls[j].lists.groups[g] # Nothing

LEMMA DomainsAnswerKeeps ==
  ASSUME DomainsSuitable, DomainsInv, NEW i \in DomainsUnder, Domains!Answer(i, Nothing), DomainsAnswers(i), bStore' = bStore, bPage' \in DomainsPages,
         bPending' \in SUBSET DomainGroup, bPanel' \in BOOLEAN, DomainsListedOK', DomainsCurrentOK', DomainsShownOK',
         \A j \in DomainsUnder \ {i} : bCalls[j].kind = "add" => bCalls[j].group \in bPending'
  PROVE  DomainsInv' /\ Domains!KeepsMembers
<1>t. DomainsTypesOK
  BY DEF DomainsInv
<1>a. /\ bCalls' \in Seq(DomainsCalls \cup {Nothing}) /\ DomainsUnder' = DomainsUnder \ {i}
      /\ \A j \in DomainsUnder : bCalls[j] \in DomainsCalls /\ (j # i => bCalls'[j] = bCalls[j])
  BY <1>t, DomainsSettled
<1>f. /\ bPage'.source = bPage.source /\ bPage'.session = bPage.session /\ bPage'.request = bPage.request
      /\ bPage'.newest >= bPage.newest
      /\ bPage'.version = bPage.version \/ bPage'.version = bPage.version + 1
      /\ bPage'.version = bPage.version => Domains!Given' = Domains!Given
  <2>1. bPage.version \in Nat
    BY <1>t, DomainsPageFields DEF DomainsTypesOK
  <2> QED
    BY <2>1 DEF DomainsAnswers
<1>p. bPage.version \in Nat /\ bPage.newest \in Nat /\ bPage'.newest \in Nat
  BY <1>t, DomainsPageFields DEF DomainsTypesOK, DomainsPages
<1>v. \A j \in DomainsUnder : /\ bCalls[j].stamp \in Nat /\ bCalls[j].version \in Nat
                              /\ bCalls[j].version <= bPage.version /\ bCalls[j].version <= bPage'.version
                              /\ (bCalls[j].version = bPage'.version => bPage'.version = bPage.version)
                              /\ (bPage'.newest <= bCalls[j].stamp => bPage.newest <= bCalls[j].stamp)
  <2> TAKE j \in DomainsUnder
  <2>1. bCalls[j].stamp \in Nat /\ bCalls[j].version \in Nat /\ bCalls[j].version <= bPage.version
    BY <1>a, DomainsCallFields DEF DomainsInv, DomainsCallOK
  <2> QED
    BY <2>1, <1>f, <1>p
\* What is answered was not what a reading that still counts was waiting for.
<1>n. \A j \in DomainsUnder : bPage'.newest <= bCalls[j].stamp =>
        ~(DomainsDone(bCalls[i]) /\ bCalls[i].kind # "read" /\ bCalls[i].source = bPage.source /\ bCalls[i].stamp > bCalls[j].stamp)
  BY <1>p, <1>v DEF DomainsAnswers
<1>1. DomainsTypesOK'
  BY <1>t, <1>a DEF DomainsTypesOK
<1>2. DomainsStoredOK'
  BY DEF DomainsInv, DomainsStoredOK
<1>3. ASSUME NEW j \in DomainsUnder' PROVE DomainsEachOK(j)'
  <2>0. /\ DomainsCallOK(bCalls[j]) /\ DomainsAddOK(bCalls[j]) /\ DomainsHadOK(bCalls[j]) /\ DomainsFreshOK(bCalls[j]) /\ DomainsMadeOK(bCalls[j]) /\ DomainsFoundOK(bCalls[j])
        /\ j \in DomainsUnder /\ j # i /\ bCalls'[j] = bCalls[j]
    BY <1>3, <1>a DEF DomainsInv
  <2>1. DomainsCallOK(bCalls[j])'
    BY <2>0, <1>f, <1>v DEF DomainsCallOK, DomainsOwned, DomainsDone
  <2>2. DomainsAddOK(bCalls[j])'
    BY <2>0 DEF DomainsAddOK, DomainsDone
  <2>3. DomainsHadOK(bCalls[j])'
    BY <2>0, <1>f, <1>v DEF DomainsHadOK, Domains!Mine
  <2>4. DomainsFreshOK(bCalls[j])'
    BY <2>0, <1>a, <1>f, <1>v DEF DomainsFreshOK, Domains!Mine, DomainsDone
  <2>5. DomainsMadeOK(bCalls[j])'
    <3> SUFFICES ASSUME bCalls[j].kind \in DomainsCreates, DomainsDone(bCalls[j]), Domains!Mine(bCalls[j]), bPage'.newest <= bCalls[j].stamp,
                        bStore.views[bCalls[j].view] # bCalls[j].source
                 PROVE  DomainsMadeOK(bCalls[j])'
      BY <2>0, <1>f DEF DomainsMadeOK, Domains!Mine, DomainsDone
    <3>1. PICK k \in DomainsUnder : /\ bCalls[k].kind = "delete" /\ DomainsDone(bCalls[k]) /\ bCalls[k].view = bCalls[j].view
                                    /\ bCalls[k].source = bCalls[j].source /\ bCalls[k].stamp > bCalls[j].stamp
      BY <2>0, <1>v DEF DomainsMadeOK
    <3>2. bCalls[j].source = bPage.source
      BY <2>0 DEF DomainsCallOK, Domains!Mine
    <3>3. k # i
      BY <3>1, <3>2, <2>0, <1>n
    <3> QED
      BY <3>1, <3>3, <2>0, <1>a DEF DomainsMadeOK, DomainsDone
  <2>6. DomainsFoundOK(bCalls[j])'
    <3> SUFFICES ASSUME DomainsLast(bCalls[j]), bPage'.newest <= bCalls[j].stamp PROVE DomainsFoundOK(bCalls[j])'
      BY <2>0, <1>f DEF DomainsFoundOK, DomainsCounts, DomainsLast, Domains!IsLast, Domains!Mine, DomainsDone
    <3>0. DomainsCounts(bCalls[j])
      BY <2>0, <1>v DEF DomainsCounts
    <3>1. ASSUME NEW g \in DomainGroup
          PROVE  (\/ DomainsSameGroup(g, bCalls[j].lists.groups)
                  \/ \E k \in DomainsUnder : /\ DomainsOfGroup(bCalls[k]) /\ DomainsDone(bCalls[k]) /\ bCalls[k].group = g
                                             /\ bCalls[k].source = bPage.source /\ bCalls[k].stamp > bCalls[j].stamp)'
      <4>1. ASSUME NEW k \in DomainsUnder, DomainsOfGroup(bCalls[k]), DomainsDone(bCalls[k]), bCalls[k].group = g,
                   bCalls[k].source = bPage.source, bCalls[k].stamp > bCalls[j].stamp
            PROVE  (\E l \in DomainsUnder : /\ DomainsOfGroup(bCalls[l]) /\ DomainsDone(bCalls[l]) /\ bCalls[l].group = g
                                            /\ bCalls[l].source = bPage.source /\ bCalls[l].stamp > bCalls[j].stamp)'
        <5>1. k # i
          BY <4>1, <2>0, <1>n DEF DomainsOfGroup
        <5> QED
          BY <4>1, <5>1, <2>0, <1>a, <1>f DEF DomainsOfGroup, DomainsDone
      <4>2. DomainsSameGroup(g, bCalls[j].lists.groups) => DomainsSameGroup(g, bCalls[j].lists.groups)'
        BY <2>0, <1>f DEF DomainsSameGroup, DomainsOwned
      <4> QED
        BY <4>1, <4>2, <3>0, <2>0 DEF DomainsFoundOK
    <3>2. ASSUME NEW v \in DomainView
          PROVE  (\/ DomainsSameView(v, bCalls[j].lists.views)
                  \/ \E k \in DomainsUnder : /\ DomainsOfView(bCalls[k]) /\ DomainsDone(bCalls[k]) /\ bCalls[k].view = v
                                             /\ bCalls[k].source = bPage.source /\ bCalls[k].stamp > bCalls[j].stamp)'
      <4>1. ASSUME NEW k \in DomainsUnder, DomainsOfView(bCalls[k]), DomainsDone(bCalls[k]), bCalls[k].view = v,
                   bCalls[k].source = bPage.source, bCalls[k].stamp > bCalls[j].stamp
            PROVE  (\E l \in DomainsUnder : /\ DomainsOfView(bCalls[l]) /\ DomainsDone(bCalls[l]) /\ bCalls[l].view = v
                                            /\ bCalls[l].source = bPage.source /\ bCalls[l].stamp > bCalls[j].stamp)'
        <5>1. k # i
          BY <4>1, <2>0, <1>n DEF DomainsOfView, DomainsCreates
        <5> QED
          BY <4>1, <5>1, <2>0, <1>a, <1>f DEF DomainsOfView, DomainsDone
      <4>2. DomainsSameView(v, bCalls[j].lists.views) => DomainsSameView(v, bCalls[j].lists.views)'
        BY <2>0, <1>f DEF DomainsSameView
      <4> QED
        BY <4>1, <4>2, <3>0, <2>0 DEF DomainsFoundOK
    <3>3. (bPage.loaded => \A g \in DomainGroup : bPage.groups[g] # Nothing => bCalls[j].lists.groups[g] # Nothing)'
      BY <3>0, <2>0, <1>a DEF DomainsAnswers
    <3>4. ASSUME NEW k \in DomainsUnder'
          PROVE  (LET e == bCalls[k]  c == bCalls[j] IN
                  /\ e.kind = "add" /\ e.source = bPage.source => c.lists.groups[e.group] # Nothing
                  /\ e.kind \in {"group", "view"} /\ Domains!Mine(e) =>
                       \A g \in DomainGroup : e.lists.groups[g] # Nothing => c.lists.groups[g] # Nothing
                  /\ e.kind = "group" /\ DomainsDone(e) /\ e.source = bPage.source /\ e.stamp <= c.stamp =>
                       c.lists.groups[e.group] # Nothing)'
      <4>1. k \in DomainsUnder /\ bCalls'[k] = bCalls[k]
        BY <3>4, <1>a
      <4> QED
        BY <4>1, <3>0, <2>0, <1>f DEF DomainsFoundOK, Domains!Mine, DomainsDone
    <3> QED
      BY <3>1, <3>2, <3>3, <3>4 DEF DomainsFoundOK
  <2> QED
    BY <2>1, <2>2, <2>3, <2>4, <2>5, <2>6 DEF DomainsEachOK
<1>4. \A j, k \in DomainsUnder' : DomainsPairOK(j, k)'
  <2> SUFFICES ASSUME NEW j \in DomainsUnder', NEW k \in DomainsUnder' PROVE DomainsPairOK(j, k)'
    OBVIOUS
  <2>1. DomainsPairOK(j, k) /\ bCalls'[j] = bCalls[j] /\ bCalls'[k] = bCalls[k]
    BY <1>a DEF DomainsInv
  <2> QED
    BY <2>1 DEF DomainsPairOK, DomainsDone
<1>5. Domains!KeepsMembers
  BY DEF Domains!KeepsMembers
<1> QED
  BY <1>1, <1>2, <1>3, <1>4, <1>5, DomainsInvIs

\* An answer of an earlier session, whose lists are gone.
LEMMA DomainsMissedKeeps ==
  ASSUME DomainsSuitable, DomainsInv, NEW i \in DomainsUnder, Domains!Answer(i, Nothing), Domains!Missed(bCalls[i]), bStore' = bStore, bPending' = bPending,
         bPanel' \in BOOLEAN, bCalls[i].kind \notin {"add", "read"}, ~Domains!Mine(bCalls[i])
  PROVE  DomainsInv' /\ Domains!KeepsMembers
<1>t. DomainsTypesOK /\ bPage \in DomainsPages
  BY DEF DomainsInv, DomainsTypesOK
<1>a. /\ DomainsUnder' = DomainsUnder \ {i}
      /\ \A j \in DomainsUnder : bCalls[j] \in DomainsCalls /\ (j # i => bCalls'[j] = bCalls[j])
  BY <1>t, DomainsSettled
<1>p. bPage.newest \in Nat /\ bCalls[i].stamp \in Nat /\ bPage.source \in DomainSource
  BY <1>t, <1>a, DomainsPageFields, DomainsCallFields
<1>k. DomainsListedOK /\ DomainsCurrentOK /\ DomainsShownOK /\ \A j \in DomainsUnder : DomainsCallOK(bCalls[j]) /\ DomainsFoundOK(bCalls[j])
  BY DEF DomainsInv
<1>1. CASE bCalls[i].source = bPage.source
  <2>n. PICK newest \in Nat : newest = Domains!Max2(bPage.newest, bCalls[i].stamp)
    BY <1>p DEF Domains!Max2
  <2>o. newest >= bPage.newest /\ newest >= bCalls[i].stamp
    BY <2>n, <1>p DEF Domains!Max2
  <2>b. PICK overtaken \in BOOLEAN : overtaken
    OBVIOUS
  <2>1. bPage' = [bPage EXCEPT !.newest = newest, !.overtaken = overtaken]
    BY <1>1, <2>n, <2>b, Zenon DEF Domains!Missed
  <2>2. /\ bPage' \in DomainsPages /\ bPage'.source = bPage.source /\ bPage'.session = bPage.session /\ bPage'.request = bPage.request
        /\ bPage'.loaded = bPage.loaded /\ bPage'.groups = bPage.groups /\ bPage'.views = bPage.views
        /\ bPage'.shown = bPage.shown
        /\ bPage'.version = bPage.version /\ bPage'.newest = newest /\ bPage'.overtaken
    BY <1>t, <2>1, <2>b DEF DomainsPages
  <2>3. DomainsListedOK'
    BY <1>a, <1>k, <2>2 DEF DomainsListedOK, DomainsOwned, DomainsDone
  <2>4. DomainsCurrentOK'
    BY <2>2 DEF DomainsCurrentOK
  <2>5. DomainsShownOK'
    BY <1>a, <1>k, <2>2 DEF DomainsShownOK, DomainsOwned, DomainsDone
  <2>6. DomainsAnswers(i)
    BY <2>2, <2>o, <1>k DEF DomainsAnswers, Domains!Given, DomainsFoundOK
  <2> QED
    BY <1>t, <1>k, <2>2, <2>3, <2>4, <2>5, <2>6, DomainsAnswerKeeps DEF DomainsTypesOK, DomainsCallOK
<1>2. CASE bCalls[i].source # bPage.source
  <2>1. bPage' = bPage
    BY <1>2 DEF Domains!Missed
  <2>2. DomainsListedOK'
    BY <1>a, <1>k, <2>1 DEF DomainsListedOK, DomainsOwned, DomainsDone
  <2>3. DomainsCurrentOK'
    BY <1>a, <1>k, <1>2, <2>1 DEF DomainsCurrentOK, DomainsOwned, DomainsDone, DomainsSameView, DomainsOfView
  <2>4. DomainsShownOK'
    BY <1>a, <1>k, <2>1 DEF DomainsShownOK, DomainsOwned, DomainsDone
  <2>5. DomainsAnswers(i)
    BY <2>1, <1>k, <1>p, <1>2 DEF DomainsAnswers, Domains!Given, DomainsFoundOK
  <2> QED
    BY <1>t, <1>k, <2>1, <2>2, <2>3, <2>4, <2>5, DomainsAnswerKeeps DEF DomainsTypesOK, DomainsCallOK
<1> QED
  BY <1>1, <1>2

\* The page as an answer patches it.
DomainsPatched(p, groups, views, shown, version, newest, overtaken) ==
  [p EXCEPT !.groups = groups, !.views = views, !.shown = shown, !.version = version,
            !.newest = newest, !.overtaken = overtaken]

LEMMA DomainsPatchedIs ==
  ASSUME NEW p \in DomainsPages, NEW groups \in DomainsLists, NEW views \in SUBSET DomainView,
         NEW shown \in DomainsShows, NEW version \in Nat,
         NEW newest \in Nat, NEW overtaken \in BOOLEAN, NEW q,
         q = DomainsPatched(p, groups, views, shown, version, newest, overtaken)
  PROVE  /\ q \in DomainsPages /\ q.groups = groups /\ q.views = views /\ q.shown = shown /\ q.version = version
         /\ q.newest = newest /\ q.overtaken = overtaken
         /\ q.source = p.source /\ q.session = p.session /\ q.request = p.request /\ q.loaded = p.loaded
BY DEF DomainsPages, DomainsPatched

LEMMA DomainsPatchIs ==
  ASSUME bPage \in DomainsPages, NEW c \in DomainsCalls, NEW groups \in DomainsLists,
         NEW views \in SUBSET DomainView, NEW shown \in DomainsShows,
         NEW lost \in BOOLEAN, Domains!Patch(c, groups, views, shown, lost)
  PROVE  /\ bPage' \in DomainsPages /\ bPage'.groups = groups /\ bPage'.views = views /\ bPage'.shown = shown
         /\ bPage'.version = bPage.version + 1 /\ bPage'.newest >= bPage.newest /\ bPage'.newest >= c.stamp
         /\ (~bPage'.overtaken => ~bPage.overtaken /\ ~lost /\ bPage.newest <= c.stamp)
         /\ bPage'.source = bPage.source /\ bPage'.session = bPage.session /\ bPage'.request = bPage.request
         /\ bPage'.loaded = bPage.loaded
<1>p. bPage.newest \in Nat /\ bPage.version \in Nat /\ c.stamp \in Nat /\ bPage.overtaken \in BOOLEAN
  BY DomainsPageFields, DomainsCallFields
<1>v. PICK version \in Nat : version = bPage.version + 1
  BY <1>p
<1>n. PICK newest \in Nat : newest = Domains!Max2(bPage.newest, c.stamp)
  BY <1>p DEF Domains!Max2
<1>m. newest >= bPage.newest /\ newest >= c.stamp
  BY <1>n, <1>p DEF Domains!Max2
<1>b. (bPage.overtaken \/ lost \/ c.stamp < bPage.newest) \in BOOLEAN
  OBVIOUS
<1>o. PICK overtaken \in BOOLEAN : overtaken = (bPage.overtaken \/ lost \/ c.stamp < bPage.newest)
  BY <1>b
<1>1. PICK q : q = DomainsPatched(bPage, groups, views, shown, version, newest, overtaken)
  OBVIOUS
<1>2. bPage' = q
  BY <1>1, <1>v, <1>n, <1>o DEF Domains!Patch, DomainsPatched
<1>3. /\ q \in DomainsPages /\ q.groups = groups /\ q.views = views /\ q.shown = shown /\ q.version = version
      /\ q.newest = newest /\ q.overtaken = overtaken
      /\ q.source = bPage.source /\ q.session = bPage.session /\ q.request = bPage.request /\ q.loaded = bPage.loaded
  BY <1>1, DomainsPatchedIs
<1>4. ~overtaken => ~bPage.overtaken /\ ~lost /\ bPage.newest <= c.stamp
  <2>1. ~overtaken => ~bPage.overtaken /\ ~lost /\ ~(c.stamp < bPage.newest)
    BY <1>o, Zenon
  <2>2. ~(c.stamp < bPage.newest) => bPage.newest <= c.stamp
    BY <1>p
  <2> QED
    BY <2>1, <2>2
<1> QED
  BY <1>2, <1>3, <1>4, <1>m, <1>v

\* An addition is answered: the domain has its members in the list, and in the view.
LEMMA DomainsAddedKeeps ==
  ASSUME DomainsSuitable, DomainsInv, NEW i \in DOMAIN bCalls, Domains!Added(i)
  PROVE  DomainsInv' /\ Domains!KeepsMembers
<1>t. DomainsTypesOK /\ bPage \in DomainsPages /\ i \in DomainsUnder
  BY DEF DomainsInv, DomainsTypesOK, Domains!Added, Domains!At, DomainsUnder
<1>c. /\ bCalls[i].stage = "done" /\ bCalls[i].kind = "add" /\ Domains!Answer(i, Nothing) /\ bStore' = bStore
      /\ bPending' = bPending \ {bCalls[i].group} /\ bPanel' = bPanel
  BY DEF Domains!Added, Domains!At
<1>a. /\ DomainsUnder' = DomainsUnder \ {i}
      /\ \A j \in DomainsUnder : bCalls[j] \in DomainsCalls /\ (j # i => bCalls'[j] = bCalls[j])
  BY <1>t, <1>c, DomainsSettled
<1>o. /\ DomainsCallOK(bCalls[i]) /\ DomainsAddOK(bCalls[i]) /\ bCalls[i].group \in DomainGroup /\ DomainsOwned(bCalls[i].group, bCalls[i].source)
      /\ bStore.groups[bCalls[i].group].members = bCalls[i].members
  BY <1>t, <1>c DEF DomainsInv, DomainsCallOK, DomainsAddOK, DomainsDone
<1>p. /\ bPage.source \in DomainSource /\ bPage.groups \in DomainsLists /\ bPage.views \in SUBSET DomainView /\ bPage.shown \in DomainsShows
      /\ bCalls[i].members \in SUBSET DomainTable /\ bCalls[i].members # Nothing /\ bPage.newest \in Nat
  BY <1>t, <1>a, DomainsPageFields, DomainsCallFields DEF DomainsSuitable
<1>k. DomainsListedOK /\ DomainsCurrentOK /\ DomainsShownOK /\ \A j \in DomainsUnder : DomainsCallOK(bCalls[j]) /\ DomainsFoundOK(bCalls[j])
  BY DEF DomainsInv
<1>r. bPending' \in SUBSET DomainGroup /\ bPanel' \in BOOLEAN /\ \A j \in DomainsUnder \ {i} : bCalls[j].kind = "add" => bCalls[j].group \in bPending'
  BY <1>t, <1>c, <1>k DEF DomainsInv, DomainsTypesOK, DomainsCallOK, DomainsPairOK
<1>1. CASE bCalls[i].source # bPage.source
  <2>1. bPage' = bPage
    BY <1>1 DEF Domains!Added
  <2>2. DomainsListedOK'
    BY <1>a, <1>c, <1>k, <2>1 DEF DomainsListedOK, DomainsOwned, DomainsDone
  <2>3. DomainsCurrentOK'
    <3> SUFFICES ASSUME bPage.loaded, ~bPage.overtaken PROVE DomainsCurrentOK'
      BY <2>1 DEF DomainsCurrentOK
    <3>1. \A g \in DomainGroup : bPage.groups[g] # Nothing => g # bCalls[i].group
      BY <1>1, <1>k, <1>o DEF DomainsListedOK, DomainsOwned
    <3> QED
      BY <3>1, <1>1, <1>a, <1>c, <1>k, <2>1 DEF DomainsCurrentOK, DomainsOwned, DomainsDone, DomainsSameView,
         DomainsOfView, DomainsCreates
  <2>4. DomainsShownOK'
    <3>1. bPage.shown # Nothing /\ ~bPage.shown.behind => bPage.shown.group # bCalls[i].group
      BY <1>1, <1>k, <1>o DEF DomainsShownOK, DomainsOwned
    <3> QED
      BY <3>1, <1>a, <1>c, <1>k, <2>1 DEF DomainsShownOK, DomainsOwned, DomainsDone
  <2>5. DomainsAnswers(i)
    BY <2>1, <1>k, <1>p, <1>1 DEF DomainsAnswers, Domains!Given, DomainsFoundOK
  <2> QED
    BY <1>t, <1>c, <1>r, <2>1, <2>2, <2>3, <2>4, <2>5, DomainsAnswerKeeps
<1>2. CASE bCalls[i].source = bPage.source
  <2>m. PICK m \in (SUBSET DomainTable) \cup {Nothing} : m = IF bPage.groups[bCalls[i].group] = Nothing THEN Nothing ELSE bCalls[i].members
    BY <1>p
  <2>g. PICK groups : groups = [bPage.groups EXCEPT ![bCalls[i].group] = m]
    OBVIOUS
  <2>h. /\ groups \in DomainsLists /\ groups[bCalls[i].group] = m
        /\ \A g \in DomainGroup : /\ g # bCalls[i].group => groups[g] = bPage.groups[g]
                                  /\ groups[g] = Nothing <=> bPage.groups[g] = Nothing
    BY <2>g, <2>m, <1>o, <1>p DEF DomainsLists
  <2>w. PICK w : w = [bPage.shown EXCEPT !.roots = bCalls[i].members]
    OBVIOUS
  <2>x. bPage.shown # Nothing => w \in DomainsViews /\ w # Nothing /\ w.group = bPage.shown.group /\ w.behind = bPage.shown.behind /\ w.roots = bCalls[i].members
    BY <2>w, <1>p DEF DomainsShows, DomainsViews, DomainsSuitable
  <2>s. PICK shown \in DomainsShows :
          shown = IF bPage.shown # Nothing /\ bPage.shown.group = bCalls[i].group THEN w ELSE bPage.shown
    BY <2>x, <1>p DEF DomainsShows
  <2>l. PICK lost \in BOOLEAN : ~lost
    OBVIOUS
  <2>1. Domains!Patch(bCalls[i], groups, bPage.views, shown, lost)
    BY <1>2, <2>m, <2>g, <2>w, <2>s, <2>l DEF Domains!Added, Domains!Patch
  <2>2. /\ bPage' \in DomainsPages /\ bPage'.groups = groups /\ bPage'.views = bPage.views /\ bPage'.shown = shown
        /\ bPage'.version = bPage.version + 1 /\ bPage'.newest >= bPage.newest /\ bPage'.newest >= bCalls[i].stamp
        /\ (~bPage'.overtaken => ~bPage.overtaken)
        /\ bPage'.source = bPage.source /\ bPage'.session = bPage.session /\ bPage'.request = bPage.request
        /\ bPage'.loaded = bPage.loaded
    BY <1>t, <1>a, <1>p, <2>1, <2>h, DomainsPatchIs
  <2>3. DomainsListedOK'
    BY <1>a, <1>c, <1>k, <2>2, <2>h DEF DomainsListedOK, DomainsOwned, DomainsDone
  <2>4. DomainsCurrentOK'
    <3> SUFFICES ASSUME bPage.loaded, ~bPage.overtaken PROVE DomainsCurrentOK'
      BY <2>2 DEF DomainsCurrentOK
    <3>1. ASSUME NEW g \in DomainGroup, groups[g] # Nothing
          PROVE  (\/ bPage.groups[g] = bStore.groups[g].members
                  \/ \E j \in DomainsUnder : bCalls[j].kind = "add" /\ DomainsDone(bCalls[j]) /\ bCalls[j].group = g)'
      <4>1. CASE g = bCalls[i].group
        BY <4>1, <3>1, <2>m, <2>h, <2>2, <1>c, <1>o
      <4>2. CASE g # bCalls[i].group
        BY <4>2, <3>1, <2>h, <2>2, <1>a, <1>c, <1>k DEF DomainsCurrentOK, DomainsDone
      <4> QED
        BY <4>1, <4>2
    <3>2. ASSUME NEW g \in DomainGroup, groups[g] = Nothing, DomainsOwned(g, bPage.source)
          PROVE  (\E j \in DomainsUnder : /\ bCalls[j].kind = "group" /\ DomainsDone(bCalls[j]) /\ bCalls[j].group = g
                                          /\ bCalls[j].source = bPage.source)'
      BY <3>2, <2>h, <2>2, <1>a, <1>c, <1>k DEF DomainsCurrentOK, DomainsDone
    <3>3. ASSUME NEW v \in DomainView
          PROVE  (\/ DomainsSameView(v, bPage.views)
                  \/ \E j \in DomainsUnder : /\ DomainsOfView(bCalls[j]) /\ DomainsDone(bCalls[j]) /\ bCalls[j].view = v
                                             /\ bCalls[j].source = bPage.source)'
      BY <2>2, <1>a, <1>c, <1>k DEF DomainsCurrentOK, DomainsDone, DomainsSameView, DomainsOfView, DomainsCreates
    <3> QED
      BY <3>1, <3>2, <3>3, <2>2, <1>c DEF DomainsCurrentOK, DomainsOwned
  <2>5. DomainsShownOK'
    <3> SUFFICES ASSUME shown # Nothing, ~shown.behind
                 PROVE  (LET g == bPage.shown.group IN
                         /\ DomainsOwned(g, bPage.source)
                         /\ \/ bStore.groups[g].members = bPage.shown.roots
                            \/ \E j \in DomainsUnder : bCalls[j].kind = "add" /\ DomainsDone(bCalls[j]) /\ bCalls[j].group = g)'
      BY <2>2 DEF DomainsShownOK
    <3>1. bPage.shown # Nothing /\ ~bPage.shown.behind /\ shown.group = bPage.shown.group
      BY <2>s, <2>x
    <3>2. CASE bPage.shown.group = bCalls[i].group
      BY <3>1, <3>2, <2>s, <2>x, <2>2, <1>c, <1>o, <1>2 DEF DomainsOwned
    <3>3. CASE bPage.shown.group # bCalls[i].group
      <4>1. shown = bPage.shown
        BY <3>3, <2>s
      <4> QED
        BY <4>1, <3>1, <3>3, <2>2, <1>a, <1>c, <1>k DEF DomainsShownOK, DomainsOwned, DomainsDone
    <3> QED
      BY <3>2, <3>3
  <2>6. DomainsAnswers(i)
    BY <2>2, <2>h, <1>k DEF DomainsAnswers, DomainsFoundOK
  <2> QED
    BY <1>t, <1>c, <1>r, <2>2, <2>3, <2>4, <2>5, <2>6, DomainsAnswerKeeps
<1> QED
  BY <1>1, <1>2

\* What the answers of the panel build on, when nothing was lost: the page's own lists.
LEMMA DomainsGivenIs ==
  ASSUME bPage.loaded
  PROVE  Domains!Given.groups = bPage.groups /\ Domains!Given.views = bPage.views
BY DEF Domains!Given

LEMMA DomainsGroupMadeKeeps ==
  ASSUME DomainsSuitable, DomainsInv, NEW i \in DOMAIN bCalls, Domains!GroupMade(i)
  PROVE  DomainsInv' /\ Domains!KeepsMembers
<1>t. DomainsTypesOK /\ bPage \in DomainsPages /\ i \in DomainsUnder
  BY DEF DomainsInv, DomainsTypesOK, Domains!GroupMade, Domains!At, DomainsUnder
<1>c. /\ bCalls[i].stage = "done" /\ bCalls[i].kind = "group" /\ Domains!Answer(i, Nothing) /\ bStore' = bStore
      /\ bPending' = bPending /\ bPanel' = FALSE
  BY DEF Domains!GroupMade, Domains!At
<1>a. /\ DomainsUnder' = DomainsUnder \ {i} /\ bCalls[i] \in DomainsCalls
      /\ \A j \in DomainsUnder : bCalls[j] \in DomainsCalls /\ (j # i => bCalls'[j] = bCalls[j])
  BY <1>t, <1>c, DomainsSettled
<1>o. /\ DomainsCallOK(bCalls[i]) /\ DomainsHadOK(bCalls[i]) /\ DomainsFreshOK(bCalls[i]) /\ bCalls[i].group \in DomainGroup
      /\ DomainsOwned(bCalls[i].group, bCalls[i].source)
  BY <1>t, <1>c DEF DomainsInv, DomainsCallOK, DomainsDone
<1>k. DomainsListedOK /\ DomainsCurrentOK /\ DomainsShownOK /\ \A j \in DomainsUnder : DomainsCallOK(bCalls[j]) /\ DomainsFoundOK(bCalls[j]) /\ DomainsPairOK(j, i)
  BY <1>t DEF DomainsInv
<1>r. bPending' \in SUBSET DomainGroup /\ bPanel' \in BOOLEAN /\ \A j \in DomainsUnder \ {i} : bCalls[j].kind = "add" => bCalls[j].group \in bPending'
  BY <1>t, <1>c, <1>k DEF DomainsTypesOK, DomainsCallOK
<1>1. CASE ~Domains!Mine(bCalls[i])
  <2>1. Domains!Missed(bCalls[i])
    BY <1>1 DEF Domains!GroupMade
  <2> QED
    BY <1>1, <2>1, <1>t, <1>c, <1>r, DomainsMissedKeeps
<1>2. CASE Domains!Mine(bCalls[i])
  <2>p. /\ bPage.source \in DomainSource /\ bPage.groups \in DomainsLists /\ bPage.views \in SUBSET DomainView /\ bPage.shown \in DomainsShows
        /\ bCalls[i].members \in SUBSET DomainTable /\ bCalls[i].members # Nothing
        /\ bCalls[i].lists.groups \in DomainsLists /\ bCalls[i].lists.views \in SUBSET DomainView
    BY <1>t, <1>a, DomainsPageFields, DomainsCallFields DEF DomainsSuitable
  <2>0. bCalls[i].source = bPage.source
    BY <1>2, <1>o DEF DomainsCallOK, Domains!Mine
  <2>g. PICK groups : groups = [bCalls[i].lists.groups EXCEPT ![bCalls[i].group] = bCalls[i].members]
    OBVIOUS
  <2>h. /\ groups \in DomainsLists /\ groups[bCalls[i].group] = bCalls[i].members
        /\ \A g \in DomainGroup : g # bCalls[i].group => groups[g] = bCalls[i].lists.groups[g]
    BY <2>g, <1>o, <2>p DEF DomainsLists
  <2>b. (bCalls[i].version # bPage.version) \in BOOLEAN
    OBVIOUS
  <2>l. PICK lost \in BOOLEAN : lost = (bCalls[i].version # bPage.version)
    BY <2>b
  <2>1. Domains!Patch(bCalls[i], groups, bCalls[i].lists.views, bPage.shown, lost)
    BY <1>2, <2>g, <2>l DEF Domains!GroupMade
  <2>2. /\ bPage' \in DomainsPages /\ bPage'.groups = groups /\ bPage'.views = bCalls[i].lists.views /\ bPage'.shown = bPage.shown
        /\ bPage'.version = bPage.version + 1 /\ bPage'.newest >= bPage.newest /\ bPage'.newest >= bCalls[i].stamp
        /\ (~bPage'.overtaken => ~bPage.overtaken /\ ~lost)
        /\ bPage'.source = bPage.source /\ bPage'.session = bPage.session /\ bPage'.request = bPage.request
        /\ bPage'.loaded = bPage.loaded
    BY <1>t, <1>a, <2>p, <2>1, <2>h, DomainsPatchIs
  <2>3. DomainsListedOK'
    <3>1. \A g \in DomainGroup : groups[g] # Nothing => DomainsOwned(g, bPage.source)
      BY <2>h, <2>0, <1>o DEF DomainsCallOK
    <3>2. \A v \in bCalls[i].lists.views : v \in bStore.spent /\ bStore.views[v] \in {Nothing, bPage.source}
      BY <2>0, <1>o DEF DomainsCallOK
    <3>3. \A j \in DomainsUnder' : bCalls'[j].kind \in DomainsCreates /\ DomainsDone(bCalls[j])' /\ bCalls'[j].view \in bCalls[i].lists.views =>
            bCalls'[j].source = bPage.source
      BY <1>a, <1>k, <2>0 DEF DomainsPairOK, DomainsDone
    <3> QED
      BY <3>1, <3>2, <3>3, <2>2, <1>c DEF DomainsListedOK, DomainsOwned
  <2>4. DomainsCurrentOK'
    <3> SUFFICES ASSUME bPage.loaded, ~bPage.overtaken, ~lost PROVE DomainsCurrentOK'
      BY <2>2 DEF DomainsCurrentOK
    <3>0. bCalls[i].lists.groups = bPage.groups /\ bCalls[i].lists.views = bPage.views /\ bCalls[i].version = bPage.version
      BY <1>2, <1>o, <1>c, <2>l, DomainsGivenIs DEF DomainsHadOK
    <3>f. bStore.groups[bCalls[i].group].members = bCalls[i].members
      BY <3>0, <1>2, <1>o, <1>c DEF DomainsFreshOK, DomainsDone
    <3>1. ASSUME NEW g \in DomainGroup, groups[g] # Nothing
          PROVE  (\/ bPage.groups[g] = bStore.groups[g].members
                  \/ \E j \in DomainsUnder : bCalls[j].kind = "add" /\ DomainsDone(bCalls[j]) /\ bCalls[j].group = g)'
      <4>1. CASE g = bCalls[i].group
        BY <4>1, <3>f, <2>h, <2>2, <1>c
      <4>2. CASE g # bCalls[i].group
        BY <4>2, <3>0, <3>1, <2>h, <2>2, <1>a, <1>c, <1>k DEF DomainsCurrentOK, DomainsDone
      <4> QED
        BY <4>1, <4>2
    <3>2. ASSUME NEW g \in DomainGroup, groups[g] = Nothing, DomainsOwned(g, bPage.source)
          PROVE  (\E j \in DomainsUnder : /\ bCalls[j].kind = "group" /\ DomainsDone(bCalls[j]) /\ bCalls[j].group = g
                                          /\ bCalls[j].source = bPage.source)'
      <4>1. g # bCalls[i].group /\ bPage.groups[g] = Nothing
        BY <3>2, <3>0, <2>h, <2>p
      <4> QED
        BY <4>1, <3>2, <2>2, <1>a, <1>c, <1>k DEF DomainsCurrentOK, DomainsDone
    <3>3. ASSUME NEW v \in DomainView
          PROVE  (\/ DomainsSameView(v, bPage.views)
                  \/ \E j \in DomainsUnder : /\ DomainsOfView(bCalls[j]) /\ DomainsDone(bCalls[j]) /\ bCalls[j].view = v
                                             /\ bCalls[j].source = bPage.source)'
      BY <3>0, <2>2, <1>a, <1>c, <1>k DEF DomainsCurrentOK, DomainsDone, DomainsSameView, DomainsOfView, DomainsCreates
    <3> QED
      BY <3>1, <3>2, <3>3, <2>2, <1>c DEF DomainsCurrentOK, DomainsOwned
  <2>5. DomainsShownOK'
    BY <2>2, <1>a, <1>c, <1>k DEF DomainsShownOK, DomainsOwned, DomainsDone
  <2>6. DomainsAnswers(i)
    <3> SUFFICES ASSUME NEW j \in DomainsUnder \ {i}, DomainsCounts(bCalls[j]), bPage'.newest <= bCalls[j].stamp, NEW g \in DomainGroup, groups[g] # Nothing
                 PROVE  bCalls[j].lists.groups[g] # Nothing
      BY <2>2 DEF DomainsAnswers
    <3>1. bPage'.newest \in Nat /\ bCalls[i].stamp \in Nat /\ bCalls[j].stamp \in Nat
      BY <2>2, <1>a, DomainsCallFields DEF DomainsPages
    <3>2. bCalls[i].stamp <= bCalls[j].stamp
      BY <3>1, <2>2
    <3>3. CASE g = bCalls[i].group
      BY <3>3, <3>2, <2>0, <1>c, <1>k, <1>t DEF DomainsFoundOK, DomainsDone
    <3>4. CASE g # bCalls[i].group
      BY <3>4, <2>h, <1>2, <1>c, <1>k, <1>t DEF DomainsFoundOK
    <3> QED
      BY <3>3, <3>4
  <2> QED
    BY <1>t, <1>c, <1>r, <2>2, <2>3, <2>4, <2>5, <2>6, DomainsAnswerKeeps
<1> QED
  BY <1>1, <1>2

\* A view made is current once its answer is, unless its deletion is to be answered still.
LEMMA DomainsMadeIs ==
  ASSUME DomainsSuitable, DomainsInv, NEW i \in DomainsUnder, bCalls[i].kind \in DomainsCreates, DomainsDone(bCalls[i]), Domains!Mine(bCalls[i]),
         bPage.newest <= bCalls[i].stamp
  PROVE  \/ bStore.views[bCalls[i].view] = bPage.source
         \/ \E j \in DomainsUnder \ {i} : /\ DomainsOfView(bCalls[j]) /\ DomainsDone(bCalls[j]) /\ bCalls[j].view = bCalls[i].view
                                          /\ bCalls[j].source = bPage.source
<1>1. DomainsMadeOK(bCalls[i]) /\ DomainsCallOK(bCalls[i])
  BY DEF DomainsInv
<1>2. bCalls[i].source = bPage.source
  BY <1>1 DEF DomainsCallOK, Domains!Mine
<1>3. ASSUME bStore.views[bCalls[i].view] # bPage.source
      PROVE  \E j \in DomainsUnder \ {i} : /\ DomainsOfView(bCalls[j]) /\ DomainsDone(bCalls[j]) /\ bCalls[j].view = bCalls[i].view
                                           /\ bCalls[j].source = bPage.source
  <2>1. PICK j \in DomainsUnder : /\ bCalls[j].kind = "delete" /\ DomainsDone(bCalls[j]) /\ bCalls[j].view = bCalls[i].view
                                  /\ bCalls[j].source = bCalls[i].source
    BY <1>1, <1>2, <1>3 DEF DomainsMadeOK
  <2>2. j # i
    BY <2>1 DEF DomainsCreates
  <2> QED
    BY <2>1, <2>2, <1>2 DEF DomainsOfView
<1> QED
  BY <1>3

LEMMA DomainsViewMadeKeeps ==
  ASSUME DomainsSuitable, DomainsInv, NEW i \in DOMAIN bCalls, Domains!ViewMade(i)
  PROVE  DomainsInv' /\ Domains!KeepsMembers
<1>t. DomainsTypesOK /\ bPage \in DomainsPages /\ i \in DomainsUnder
  BY DEF DomainsInv, DomainsTypesOK, Domains!ViewMade, Domains!At, DomainsUnder
<1>c. /\ bCalls[i].stage = "done" /\ bCalls[i].kind = "view" /\ Domains!Answer(i, Nothing) /\ bStore' = bStore
      /\ bPending' = bPending /\ bPanel' = FALSE /\ bCalls[i].kind \in DomainsCreates
  BY DEF Domains!ViewMade, Domains!At, DomainsCreates
<1>a. /\ DomainsUnder' = DomainsUnder \ {i} /\ bCalls[i] \in DomainsCalls
      /\ \A j \in DomainsUnder : bCalls[j] \in DomainsCalls /\ (j # i => bCalls'[j] = bCalls[j])
  BY <1>t, <1>c, DomainsSettled
<1>o. /\ DomainsCallOK(bCalls[i]) /\ DomainsHadOK(bCalls[i]) /\ bCalls[i].view \in bStore.spent /\ bCalls[i].view \in DomainView
      /\ bStore.views[bCalls[i].view] \in {Nothing, bCalls[i].source}
  BY <1>t, <1>c, DomainsStoreFields DEF DomainsInv, DomainsCallOK, DomainsDone, DomainsTypesOK
<1>k. DomainsListedOK /\ DomainsCurrentOK /\ DomainsShownOK /\ \A j \in DomainsUnder : DomainsCallOK(bCalls[j]) /\ DomainsFoundOK(bCalls[j]) /\ DomainsPairOK(j, i)
  BY <1>t DEF DomainsInv
<1>r. bPending' \in SUBSET DomainGroup /\ bPanel' \in BOOLEAN /\ \A j \in DomainsUnder \ {i} : bCalls[j].kind = "add" => bCalls[j].group \in bPending'
  BY <1>t, <1>c, <1>k DEF DomainsTypesOK, DomainsCallOK
<1>1. CASE ~Domains!Mine(bCalls[i])
  <2>1. Domains!Missed(bCalls[i])
    BY <1>1 DEF Domains!ViewMade
  <2> QED
    BY <1>1, <2>1, <1>t, <1>c, <1>r, DomainsMissedKeeps
<1>2. CASE Domains!Mine(bCalls[i])
  <2>p. /\ bPage.source \in DomainSource /\ bPage.groups \in DomainsLists /\ bPage.views \in SUBSET DomainView
        /\ bCalls[i].lists.groups \in DomainsLists /\ bCalls[i].lists.views \in SUBSET DomainView
    BY <1>t, <1>a, DomainsPageFields, DomainsCallFields
  <2>0. bCalls[i].source = bPage.source
    BY <1>2, <1>o DEF DomainsCallOK, Domains!Mine
  <2>g. PICK views \in SUBSET DomainView : views = bCalls[i].lists.views \cup {bCalls[i].view}
    BY <1>o, <2>p
  <2>s. PICK shown \in DomainsShows : shown = Nothing
    BY DEF DomainsShows
  <2>b. (bCalls[i].version # bPage.version) \in BOOLEAN
    OBVIOUS
  <2>l. PICK lost \in BOOLEAN : lost = (bCalls[i].version # bPage.version)
    BY <2>b
  <2>1. Domains!Patch(bCalls[i], bCalls[i].lists.groups, views, shown, lost)
    BY <1>2, <2>g, <2>l, <2>s DEF Domains!ViewMade
  <2>2. /\ bPage' \in DomainsPages /\ bPage'.groups = bCalls[i].lists.groups /\ bPage'.views = views /\ bPage'.shown = shown
        /\ bPage'.version = bPage.version + 1 /\ bPage'.newest >= bPage.newest /\ bPage'.newest >= bCalls[i].stamp
        /\ (~bPage'.overtaken => ~bPage.overtaken /\ ~lost /\ bPage.newest <= bCalls[i].stamp)
        /\ bPage'.source = bPage.source /\ bPage'.session = bPage.session /\ bPage'.request = bPage.request
        /\ bPage'.loaded = bPage.loaded
    BY <1>t, <1>a, <2>p, <2>1, DomainsPatchIs
  <2>3. DomainsListedOK'
    <3>1. \A g \in DomainGroup : bCalls[i].lists.groups[g] # Nothing => DomainsOwned(g, bPage.source)
      BY <2>0, <1>o DEF DomainsCallOK
    <3>2. \A v \in views : v \in bStore.spent /\ bStore.views[v] \in {Nothing, bPage.source}
      BY <2>0, <2>g, <1>o DEF DomainsCallOK
    <3>3. \A j \in DomainsUnder' : bCalls'[j].kind \in DomainsCreates /\ DomainsDone(bCalls[j])' /\ bCalls'[j].view \in views =>
            bCalls'[j].source = bPage.source
      BY <1>a, <1>c, <1>k, <2>0, <2>g DEF DomainsPairOK, DomainsDone
    <3> QED
      BY <3>1, <3>2, <3>3, <2>2, <1>c DEF DomainsListedOK, DomainsOwned
  <2>4. DomainsCurrentOK'
    <3> SUFFICES ASSUME bPage.loaded, ~bPage.overtaken, ~lost, bPage.newest <= bCalls[i].stamp PROVE DomainsCurrentOK'
      BY <2>2 DEF DomainsCurrentOK
    <3>0. bCalls[i].lists.groups = bPage.groups /\ bCalls[i].lists.views = bPage.views
      BY <1>2, <1>o, <1>c, <2>l, DomainsGivenIs DEF DomainsHadOK
    <3>1. ASSUME NEW g \in DomainGroup, bPage.groups[g] # Nothing
          PROVE  (\/ bPage.groups[g] = bStore.groups[g].members
                  \/ \E j \in DomainsUnder : bCalls[j].kind = "add" /\ DomainsDone(bCalls[j]) /\ bCalls[j].group = g)'
      BY <3>0, <3>1, <2>2, <1>a, <1>c, <1>k DEF DomainsCurrentOK, DomainsDone
    <3>2. ASSUME NEW g \in DomainGroup, bPage.groups[g] = Nothing, DomainsOwned(g, bPage.source)
          PROVE  (\E j \in DomainsUnder : /\ bCalls[j].kind = "group" /\ DomainsDone(bCalls[j]) /\ bCalls[j].group = g
                                          /\ bCalls[j].source = bPage.source)'
      BY <3>2, <2>2, <1>a, <1>c, <1>k DEF DomainsCurrentOK, DomainsDone
    <3>3. ASSUME NEW v \in DomainView
          PROVE  (\/ DomainsSameView(v, bPage.views)
                  \/ \E j \in DomainsUnder : /\ DomainsOfView(bCalls[j]) /\ DomainsDone(bCalls[j]) /\ bCalls[j].view = v
                                             /\ bCalls[j].source = bPage.source)'
      <4>1. CASE v # bCalls[i].view
        BY <4>1, <3>0, <2>g, <2>2, <1>a, <1>c, <1>k DEF DomainsCurrentOK, DomainsDone, DomainsSameView, DomainsOfView
      <4>2. CASE v = bCalls[i].view
        <5>1. \/ bStore.views[v] = bPage.source
              \/ \E j \in DomainsUnder \ {i} : DomainsOfView(bCalls[j]) /\ DomainsDone(bCalls[j]) /\ bCalls[j].view = v /\ bCalls[j].source = bPage.source
          BY <4>2, <1>t, <1>c, <1>2, DomainsMadeIs DEF DomainsDone
        <5>2. v \in views
          BY <4>2, <2>g
        <5> QED
          BY <5>1, <5>2, <2>2, <1>a, <1>c DEF DomainsSameView, DomainsOfView, DomainsDone
      <4> QED
        BY <4>1, <4>2
    <3> QED
      BY <3>0, <3>1, <3>2, <3>3, <2>2, <1>c DEF DomainsCurrentOK, DomainsOwned
  <2>5. DomainsShownOK'
    BY <2>2, <2>s DEF DomainsShownOK
  <2>6. DomainsAnswers(i)
    BY <2>2, <1>2, <1>c, <1>k, <1>t DEF DomainsAnswers, DomainsFoundOK
  <2> QED
    BY <1>t, <1>c, <1>r, <2>2, <2>3, <2>4, <2>5, <2>6, DomainsAnswerKeeps
<1> QED
  BY <1>1, <1>2

LEMMA DomainsViewPatchedKeeps ==
  ASSUME DomainsSuitable, DomainsInv, NEW i \in DOMAIN bCalls, Domains!ViewPatched(i)
  PROVE  DomainsInv' /\ Domains!KeepsMembers
<1>t. DomainsTypesOK /\ bPage \in DomainsPages /\ i \in DomainsUnder
  BY DEF DomainsInv, DomainsTypesOK, Domains!ViewPatched, Domains!At, DomainsUnder
<1>c. /\ bCalls[i].stage = "done" /\ bCalls[i].kind \in {"save", "delete"} /\ Domains!Answer(i, Nothing) /\ bStore' = bStore
      /\ bPending' = bPending /\ bPanel' = bPanel
  BY DEF Domains!ViewPatched, Domains!At
<1>a. /\ DomainsUnder' = DomainsUnder \ {i} /\ bCalls[i] \in DomainsCalls
      /\ \A j \in DomainsUnder : bCalls[j] \in DomainsCalls /\ (j # i => bCalls'[j] = bCalls[j])
  BY <1>t, <1>c, DomainsSettled
<1>o. /\ DomainsCallOK(bCalls[i]) /\ bCalls[i].view \in bStore.spent /\ bCalls[i].view \in DomainView
      /\ bStore.views[bCalls[i].view] \in {Nothing, bCalls[i].source}
      /\ (bCalls[i].kind = "delete" => bStore.views[bCalls[i].view] = Nothing)
  BY <1>t, <1>c, DomainsStoreFields DEF DomainsInv, DomainsCallOK, DomainsDone, DomainsTypesOK, DomainsCreates
<1>k. DomainsListedOK /\ DomainsCurrentOK /\ DomainsShownOK /\ \A j \in DomainsUnder : DomainsCallOK(bCalls[j]) /\ DomainsFoundOK(bCalls[j]) /\ DomainsPairOK(j, i)
  BY <1>t DEF DomainsInv
<1>r. bPending' \in SUBSET DomainGroup /\ bPanel' \in BOOLEAN /\ \A j \in DomainsUnder \ {i} : bCalls[j].kind = "add" => bCalls[j].group \in bPending'
  BY <1>t, <1>c, <1>k DEF DomainsTypesOK, DomainsCallOK
<1>1. CASE ~Domains!Mine(bCalls[i])
  <2>1. Domains!Missed(bCalls[i])
    BY <1>1 DEF Domains!ViewPatched
  <2> QED
    BY <1>1, <2>1, <1>t, <1>c, <1>r, DomainsMissedKeeps
<1>2. CASE Domains!Mine(bCalls[i])
  <2>p. /\ bPage.source \in DomainSource /\ bPage.source # Nothing /\ bPage.groups \in DomainsLists /\ bPage.views \in SUBSET DomainView /\ bPage.shown \in DomainsShows
    BY <1>t, <1>a, DomainsPageFields DEF DomainsSuitable
  <2>0. bCalls[i].source = bPage.source
    BY <1>2, <1>o DEF DomainsCallOK, Domains!Mine
  <2>g. PICK views \in SUBSET DomainView :
          views = IF bCalls[i].kind = "save" THEN bPage.views \cup {bCalls[i].view} ELSE bPage.views \ {bCalls[i].view}
    BY <1>o, <2>p
  <2>l. PICK lost \in BOOLEAN : ~lost
    OBVIOUS
  <2>1. Domains!Patch(bCalls[i], bPage.groups, views, bPage.shown, lost)
    BY <1>2, <2>g, <2>l DEF Domains!ViewPatched, Domains!Patch
  <2>2. /\ bPage' \in DomainsPages /\ bPage'.groups = bPage.groups /\ bPage'.views = views /\ bPage'.shown = bPage.shown
        /\ bPage'.version = bPage.version + 1 /\ bPage'.newest >= bPage.newest /\ bPage'.newest >= bCalls[i].stamp
        /\ (~bPage'.overtaken => ~bPage.overtaken /\ bPage.newest <= bCalls[i].stamp)
        /\ bPage'.source = bPage.source /\ bPage'.session = bPage.session /\ bPage'.request = bPage.request
        /\ bPage'.loaded = bPage.loaded
    BY <1>t, <1>a, <2>p, <2>1, DomainsPatchIs
  <2>3. DomainsListedOK'
    <3> SUFFICES ASSUME bPage.loaded PROVE DomainsListedOK'
      BY <2>2 DEF DomainsListedOK
    <3>2. \A v \in views : v \in bStore.spent /\ bStore.views[v] \in {Nothing, bPage.source}
      BY <2>0, <2>g, <1>o, <1>k DEF DomainsListedOK
    <3>3. \A j \in DomainsUnder' : bCalls'[j].kind \in DomainsCreates /\ DomainsDone(bCalls[j])' /\ bCalls'[j].view \in views =>
            bCalls'[j].source = bPage.source
      BY <1>a, <1>c, <1>k, <2>0, <2>g DEF DomainsPairOK, DomainsDone, DomainsListedOK, DomainsCreates
    <3> QED
      BY <3>2, <3>3, <2>2, <1>c, <1>k DEF DomainsListedOK, DomainsOwned
  <2>4. DomainsCurrentOK'
    <3> SUFFICES ASSUME bPage.loaded, ~bPage.overtaken, bPage.newest <= bCalls[i].stamp PROVE DomainsCurrentOK'
      BY <2>2 DEF DomainsCurrentOK
    <3>1. ASSUME NEW g \in DomainGroup, bPage.groups[g] # Nothing
          PROVE  (\/ bPage.groups[g] = bStore.groups[g].members
                  \/ \E j \in DomainsUnder : bCalls[j].kind = "add" /\ DomainsDone(bCalls[j]) /\ bCalls[j].group = g)'
      BY <3>1, <2>2, <1>a, <1>c, <1>k DEF DomainsCurrentOK, DomainsDone
    <3>2. ASSUME NEW g \in DomainGroup, bPage.groups[g] = Nothing, DomainsOwned(g, bPage.source)
          PROVE  (\E j \in DomainsUnder : /\ bCalls[j].kind = "group" /\ DomainsDone(bCalls[j]) /\ bCalls[j].group = g
                                          /\ bCalls[j].source = bPage.source)'
      BY <3>2, <2>2, <1>a, <1>c, <1>k DEF DomainsCurrentOK, DomainsDone
    <3>3. ASSUME NEW v \in DomainView
          PROVE  (\/ DomainsSameView(v, bPage.views)
                  \/ \E j \in DomainsUnder : /\ DomainsOfView(bCalls[j]) /\ DomainsDone(bCalls[j]) /\ bCalls[j].view = v
                                             /\ bCalls[j].source = bPage.source)'
      <4>1. CASE v # bCalls[i].view
        BY <4>1, <2>g, <2>2, <1>a, <1>c, <1>k DEF DomainsCurrentOK, DomainsDone, DomainsSameView, DomainsOfView
      <4>2. CASE v = bCalls[i].view /\ bCalls[i].kind = "save"
        <5>1. \/ bStore.views[v] = bPage.source
              \/ \E j \in DomainsUnder \ {i} : DomainsOfView(bCalls[j]) /\ DomainsDone(bCalls[j]) /\ bCalls[j].view = v /\ bCalls[j].source = bPage.source
          BY <4>2, <1>t, <1>c, <1>2, DomainsMadeIs DEF DomainsDone, DomainsCreates
        <5>2. v \in views
          BY <4>2, <2>g
        <5> QED
          BY <5>1, <5>2, <2>2, <1>a, <1>c DEF DomainsSameView, DomainsOfView, DomainsDone
      <4>3. CASE v = bCalls[i].view /\ bCalls[i].kind = "delete"
        BY <4>3, <1>o, <2>g, <2>p, <2>2, <1>c DEF DomainsSameView
      <4> QED
        BY <4>1, <4>2, <4>3, <1>c
    <3> QED
      BY <3>1, <3>2, <3>3, <2>2, <1>c DEF DomainsCurrentOK, DomainsOwned
  <2>5. DomainsShownOK'
    BY <2>2, <1>a, <1>c, <1>k DEF DomainsShownOK, DomainsOwned, DomainsDone
  <2>6. DomainsAnswers(i)
    BY <2>2, <1>k DEF DomainsAnswers, DomainsFoundOK
  <2> QED
    BY <1>t, <1>c, <1>r, <2>2, <2>3, <2>4, <2>5, <2>6, DomainsAnswerKeeps
<1> QED
  BY <1>1, <1>2

\* A reading that is not the last is dropped, and the last one replaces the lists or empties them.
LEMMA DomainsReadDoneKeeps ==
  ASSUME DomainsSuitable, DomainsInv, NEW i \in DOMAIN bCalls, Domains!ReadDone(i)
  PROVE  DomainsInv' /\ Domains!KeepsMembers
<1>t. DomainsTypesOK /\ bPage \in DomainsPages /\ bStore \in DomainsStores /\ i \in DomainsUnder
  BY DEF DomainsInv, DomainsTypesOK, Domains!ReadDone, Domains!At, DomainsUnder
<1>c. /\ bCalls[i].stage = "done" /\ bCalls[i].kind = "read" /\ Domains!Answer(i, Nothing) /\ bStore' = bStore
      /\ bPending' = bPending /\ bPanel' = bPanel
  BY DEF Domains!ReadDone, Domains!At
<1>a. /\ DomainsUnder' = DomainsUnder \ {i} /\ bCalls[i] \in DomainsCalls
      /\ \A j \in DomainsUnder : bCalls[j] \in DomainsCalls /\ (j # i => bCalls'[j] = bCalls[j])
  BY <1>t, <1>c, DomainsSettled
<1>k. /\ DomainsListedOK /\ DomainsCurrentOK /\ DomainsShownOK /\ DomainsCallOK(bCalls[i]) /\ DomainsFoundOK(bCalls[i])
      /\ \A j \in DomainsUnder : DomainsCallOK(bCalls[j]) /\ DomainsFoundOK(bCalls[j]) /\ DomainsPairOK(j, i) /\ DomainsPairOK(i, j)
  BY <1>t DEF DomainsInv
<1>r. bPending' \in SUBSET DomainGroup /\ bPanel' \in BOOLEAN /\ \A j \in DomainsUnder \ {i} : bCalls[j].kind = "add" => bCalls[j].group \in bPending'
  BY <1>t, <1>c, <1>k DEF DomainsTypesOK, DomainsCallOK
<1>1. CASE ~Domains!IsLast(bCalls[i])
  <2>1. bPage' = bPage
    BY <1>1 DEF Domains!ReadDone
  <2>2. DomainsListedOK'
    BY <1>a, <1>c, <1>k, <2>1 DEF DomainsListedOK, DomainsOwned, DomainsDone
  <2>3. DomainsCurrentOK'
    BY <1>a, <1>c, <1>k, <2>1 DEF DomainsCurrentOK, DomainsOwned, DomainsDone, DomainsSameView, DomainsOfView,
       DomainsCreates
  <2>4. DomainsShownOK'
    BY <1>a, <1>c, <1>k, <2>1 DEF DomainsShownOK, DomainsOwned, DomainsDone
  <2>5. DomainsAnswers(i)
    <3>1. bPage.newest \in Nat
      BY <1>t, DomainsPageFields
    <3> QED
      BY <3>1, <2>1, <1>c, <1>k DEF DomainsAnswers, Domains!Given, DomainsFoundOK
  <2> QED
    BY <1>t, <1>c, <1>r, <2>1, <2>2, <2>3, <2>4, <2>5, DomainsAnswerKeeps
<1>2. CASE Domains!IsLast(bCalls[i])
  <2>p. /\ bCalls[i].lists.groups \in DomainsLists /\ bCalls[i].lists.views \in SUBSET DomainView /\ bPage.version \in Nat
        /\ bPage.newest \in Nat /\ bCalls[i].stamp \in Nat /\ bStore.groups \in [DomainGroup -> DomainsRows \cup {Nothing}]
    BY <1>t, <1>a, DomainsPageFields, DomainsCallFields, DomainsStoreFields
  <2>0. bCalls[i].source = bPage.source /\ bCalls[i].request = bPage.request
    BY <1>2, <1>k DEF DomainsCallOK, Domains!IsLast, Domains!Mine
  <2>v. PICK version \in Nat : version = bPage.version + 1
    BY <2>p
  <2>b. (bCalls[i].request = bPage.request /\ bPage.newest > bCalls[i].stamp) \in BOOLEAN
    OBVIOUS
  <2>o. PICK overtaken \in BOOLEAN : overtaken = (bCalls[i].request = bPage.request /\ bPage.newest > bCalls[i].stamp)
    BY <2>b
  <2>l. PICK loaded \in BOOLEAN : loaded = TRUE
    OBVIOUS
  <2>1. bPage' = [bPage EXCEPT !.loaded = loaded, !.groups = bCalls[i].lists.groups, !.views = bCalls[i].lists.views,
                             !.version = version, !.overtaken = overtaken]
    BY <1>2, <2>v, <2>o, <2>l, Zenon DEF Domains!ReadDone
  <2>2. /\ bPage' \in DomainsPages /\ bPage'.groups = bCalls[i].lists.groups /\ bPage'.views = bCalls[i].lists.views
        /\ bPage'.version = bPage.version + 1 /\ bPage'.loaded /\ bPage'.overtaken = overtaken
        /\ bPage'.source = bPage.source /\ bPage'.session = bPage.session /\ bPage'.request = bPage.request
        /\ bPage'.shown = bPage.shown /\ bPage'.newest = bPage.newest
    BY <1>t, <2>1, <2>p, <2>v, <2>l DEF DomainsPages
  <2>3. DomainsListedOK'
    <3>1. \A g \in DomainGroup : bCalls[i].lists.groups[g] # Nothing => DomainsOwned(g, bPage.source)
      BY <2>0, <1>k DEF DomainsCallOK
    <3>2. \A v \in bCalls[i].lists.views : v \in bStore.spent /\ bStore.views[v] \in {Nothing, bPage.source}
      BY <2>0, <1>k DEF DomainsCallOK
    <3>3. \A j \in DomainsUnder' : bCalls'[j].kind \in DomainsCreates /\ DomainsDone(bCalls[j])' /\ bCalls'[j].view \in bCalls[i].lists.views =>
            bCalls'[j].source = bPage.source
      BY <1>a, <1>k, <2>0 DEF DomainsPairOK, DomainsDone
    <3> QED
      BY <3>1, <3>2, <3>3, <2>2, <1>c DEF DomainsListedOK, DomainsOwned
  <2>4. DomainsCurrentOK'
    <3> SUFFICES ASSUME ~overtaken PROVE DomainsCurrentOK'
      BY <2>2 DEF DomainsCurrentOK
    <3>n. ~(bPage.newest > bCalls[i].stamp)
      BY <2>o, <2>0, Zenon
    <3>0. DomainsCounts(bCalls[i])
      BY <3>n, <2>p, <1>2, <1>c DEF DomainsCounts, DomainsLast, DomainsDone
    <3>s. /\ \A j \in DomainsUnder : DomainsOfGroup(bCalls[j]) => j # i
          /\ \A j \in DomainsUnder : DomainsOfView(bCalls[j]) => j # i
      BY <1>c DEF DomainsOfGroup, DomainsOfView, DomainsCreates
    <3>1. ASSUME NEW g \in DomainGroup, bCalls[i].lists.groups[g] # Nothing
          PROVE  (\/ bPage.groups[g] = bStore.groups[g].members
                  \/ \E j \in DomainsUnder : bCalls[j].kind = "add" /\ DomainsDone(bCalls[j]) /\ bCalls[j].group = g)'
      <4>1. DomainsOwned(g, bPage.source)
        BY <3>1, <2>0, <1>k DEF DomainsCallOK
      <4>2. CASE DomainsSameGroup(g, bCalls[i].lists.groups)
        BY <4>1, <4>2, <2>2, <1>c DEF DomainsSameGroup
      <4>3. ASSUME NEW j \in DomainsUnder, DomainsOfGroup(bCalls[j]), DomainsDone(bCalls[j]), bCalls[j].group = g, bCalls[j].stamp > bCalls[i].stamp
            PROVE  (\E l \in DomainsUnder : bCalls[l].kind = "add" /\ DomainsDone(bCalls[l]) /\ bCalls[l].group = g)'
        <5>1. bCalls[j].kind = "add"
          BY <4>3, <3>1, <1>k, <1>c DEF DomainsPairOK, DomainsDone, DomainsOfGroup
        <5> QED
          BY <5>1, <4>3, <3>s, <1>a DEF DomainsDone
      <4> QED
        BY <4>2, <4>3, <3>0, <1>k DEF DomainsFoundOK
    <3>2. ASSUME NEW g \in DomainGroup, bCalls[i].lists.groups[g] = Nothing, DomainsOwned(g, bPage.source)
          PROVE  (\E j \in DomainsUnder : /\ bCalls[j].kind = "group" /\ DomainsDone(bCalls[j]) /\ bCalls[j].group = g
                                          /\ bCalls[j].source = bPage.source)'
      <4>1. ~DomainsSameGroup(g, bCalls[i].lists.groups)
        <5>1. bStore.groups[g].members # Nothing
          BY <3>2, <2>p DEF DomainsOwned, DomainsRows, DomainsSuitable
        <5> QED
          BY <5>1, <3>2 DEF DomainsSameGroup
      <4>2. PICK j \in DomainsUnder : /\ DomainsOfGroup(bCalls[j]) /\ DomainsDone(bCalls[j]) /\ bCalls[j].group = g /\ bCalls[j].source = bPage.source
        BY <4>1, <3>0, <1>k DEF DomainsFoundOK
      <4>3. bCalls[j].kind # "add"
        BY <4>2, <3>2, <3>0, <1>k DEF DomainsFoundOK
      <4> QED
        BY <4>2, <4>3, <3>s, <2>2, <1>a DEF DomainsDone, DomainsOfGroup
    <3>3. ASSUME NEW v \in DomainView
          PROVE  (\/ DomainsSameView(v, bPage.views)
                  \/ \E j \in DomainsUnder : /\ DomainsOfView(bCalls[j]) /\ DomainsDone(bCalls[j]) /\ bCalls[j].view = v
                                             /\ bCalls[j].source = bPage.source)'
      <4>1. \/ DomainsSameView(v, bCalls[i].lists.views)
            \/ \E j \in DomainsUnder : /\ DomainsOfView(bCalls[j]) /\ DomainsDone(bCalls[j]) /\ bCalls[j].view = v /\ bCalls[j].source = bPage.source
        BY <3>0, <1>k DEF DomainsFoundOK
      <4> QED
        BY <4>1, <3>s, <2>2, <1>a, <1>c DEF DomainsSameView, DomainsOfView, DomainsDone
    <3> QED
      BY <3>1, <3>2, <3>3, <2>2, <1>c DEF DomainsCurrentOK, DomainsOwned
  <2>5. DomainsShownOK'
    BY <2>2, <1>a, <1>c, <1>k DEF DomainsShownOK, DomainsOwned, DomainsDone
  <2>6. DomainsAnswers(i)
    <3>1. \A j \in DomainsUnder \ {i} : ~DomainsCounts(bCalls[j])
      BY <2>0, <1>c, <1>k DEF DomainsCounts, DomainsLast, Domains!IsLast, DomainsPairOK
    <3> QED
      BY <3>1, <2>2, <2>p, <1>c DEF DomainsAnswers
  <2> QED
    BY <1>t, <1>c, <1>r, <2>2, <2>3, <2>4, <2>5, <2>6, DomainsAnswerKeeps
<1> QED
  BY <1>1, <1>2

LEMMA DomainsFailedKeeps ==
  ASSUME DomainsSuitable, DomainsInv, NEW i \in DOMAIN bCalls, Domains!Failed(i)
  PROVE  DomainsInv' /\ Domains!KeepsMembers
<1>t. DomainsTypesOK /\ bPage \in DomainsPages /\ i \in DomainsUnder
  BY DEF DomainsInv, DomainsTypesOK, Domains!Failed, Domains!At, DomainsUnder
<1>c. /\ bCalls[i].stage = "failed" /\ Domains!Answer(i, Nothing) /\ bStore' = bStore /\ ~DomainsDone(bCalls[i])
      /\ bPending' = (IF bCalls[i].kind = "add" THEN bPending \ {bCalls[i].group} ELSE bPending)
  BY DEF Domains!Failed, Domains!At, DomainsDone
<1>a. /\ DomainsUnder' = DomainsUnder \ {i} /\ bCalls[i] \in DomainsCalls
      /\ \A j \in DomainsUnder : bCalls[j] \in DomainsCalls /\ (j # i => bCalls'[j] = bCalls[j])
  BY <1>t, <1>c, DomainsSettled
<1>k. /\ DomainsListedOK /\ DomainsCurrentOK /\ DomainsShownOK
      /\ \A j \in DomainsUnder : DomainsCallOK(bCalls[j]) /\ DomainsFoundOK(bCalls[j]) /\ DomainsPairOK(j, i) /\ DomainsPairOK(i, j)
  BY <1>t DEF DomainsInv
<1>b. bPanel' \in BOOLEAN
  BY DEF Domains!Failed
<1>r. bPending' \in SUBSET DomainGroup /\ \A j \in DomainsUnder \ {i} : bCalls[j].kind = "add" => bCalls[j].group \in bPending'
  <2>1. bPending \in SUBSET DomainGroup /\ bPending' \subseteq bPending
    BY <1>t, <1>c DEF DomainsTypesOK
  <2>2. ASSUME NEW j \in DomainsUnder \ {i}, bCalls[j].kind = "add" PROVE bCalls[j].group \in bPending'
    <3>1. bCalls[j].group \in bPending /\ (bCalls[i].kind = "add" => bCalls[j].group # bCalls[i].group)
      BY <2>2, <1>t, <1>k DEF DomainsCallOK, DomainsPairOK
    <3> QED
      BY <3>1, <1>c
  <2> QED
    BY <2>1, <2>2
<1>s. /\ \A j \in DomainsUnder : DomainsDone(bCalls[j]) => j # i
  BY <1>c
<1>p. bPage.version \in Nat /\ bPage.newest \in Nat
  BY <1>t, DomainsPageFields
<1>1. CASE ~(bCalls[i].kind = "read" /\ Domains!IsLast(bCalls[i]))
  <2>1. bPage' = bPage
    BY <1>1 DEF Domains!Failed
  <2>2. DomainsListedOK'
    BY <1>a, <1>c, <1>s, <1>k, <2>1 DEF DomainsListedOK, DomainsOwned, DomainsDone
  <2>3. DomainsCurrentOK'
    BY <1>a, <1>c, <1>s, <1>k, <2>1 DEF DomainsCurrentOK, DomainsOwned, DomainsDone, DomainsSameView, DomainsOfView
  <2>4. DomainsShownOK'
    BY <1>a, <1>c, <1>s, <1>k, <2>1 DEF DomainsShownOK, DomainsOwned, DomainsDone
  <2>5. DomainsAnswers(i)
    BY <1>p, <2>1, <1>c, <1>k DEF DomainsAnswers, Domains!Given, DomainsFoundOK
  <2> QED
    BY <1>t, <1>b, <1>c, <1>r, <2>1, <2>2, <2>3, <2>4, <2>5, DomainsAnswerKeeps
<1>2. CASE bCalls[i].kind = "read" /\ Domains!IsLast(bCalls[i])
  <2>v. PICK version \in Nat : version = bPage.version + 1
    BY <1>p
  <2>l. PICK loaded \in BOOLEAN : loaded = FALSE
    OBVIOUS
  <2>e. PICK none \in SUBSET DomainView : none = {}
    OBVIOUS
  <2>n. PICK groups \in DomainsLists : groups = Domains!NoGroups
    <3>1. Nothing \in (SUBSET DomainTable) \cup {Nothing}
      OBVIOUS
    <3>2. [g \in DomainGroup |-> Nothing] \in [DomainGroup -> (SUBSET DomainTable) \cup {Nothing}]
      BY <3>1, Zenon
    <3> QED
      BY <3>2 DEF Domains!NoGroups, DomainsLists
  <2>1. bPage' = [bPage EXCEPT !.loaded = loaded, !.groups = groups, !.views = none, !.version = version]
    BY <1>2, <2>v, <2>l, <2>e, <2>n, Zenon DEF Domains!Failed
  <2>2. /\ bPage' \in DomainsPages /\ bPage'.version = bPage.version + 1 /\ ~bPage'.loaded
        /\ bPage'.source = bPage.source /\ bPage'.session = bPage.session /\ bPage'.request = bPage.request
        /\ bPage'.shown = bPage.shown /\ bPage'.newest = bPage.newest
    BY <1>t, <2>1, <2>v, <2>l DEF DomainsPages
  <2>3. DomainsListedOK' /\ DomainsCurrentOK'
    BY <2>2 DEF DomainsListedOK, DomainsCurrentOK
  <2>5. DomainsShownOK'
    BY <2>2, <1>a, <1>c, <1>s, <1>k DEF DomainsShownOK, DomainsOwned, DomainsDone
  <2>6. DomainsAnswers(i)
    BY <2>2, <1>p, <1>c DEF DomainsAnswers
  <2> QED
    BY <1>t, <1>b, <1>c, <1>r, <2>2, <2>3, <2>5, <2>6, DomainsAnswerKeeps
<1> QED
  BY <1>1, <1>2

LEMMA DomainsInvInit ==
  ASSUME DomainsSuitable, Domains!Init
  PROVE  DomainsInv
<1>1. PICK s \in DomainSource :
        /\ bStore = [groups |-> [g \in DomainGroup |-> IF g = DomainMade.group THEN [source |-> s, members |-> DomainMade.members] ELSE Nothing],
                    views |-> [v \in DomainView |-> Nothing], spent |-> {}, writes |-> 0]
        /\ bPage = [source |-> s, session |-> 1, request |-> 0, loaded |-> FALSE, groups |-> Domains!NoGroups, views |-> {},
                   shown |-> Nothing, version |-> 0, newest |-> 0, overtaken |-> FALSE]
  BY DEF Domains!Init
<1>2. bPending = {} /\ bPanel = FALSE /\ bCalls = <<>>
  BY DEF Domains!Init
<1>3. Domains!NoGroups \in DomainsLists
  <2>1. Nothing \in (SUBSET DomainTable) \cup {Nothing}
    OBVIOUS
  <2>2. [g \in DomainGroup |-> Nothing] \in [DomainGroup -> (SUBSET DomainTable) \cup {Nothing}]
    BY <2>1, Zenon
  <2> QED
    BY <2>2 DEF Domains!NoGroups, DomainsLists
<1>4. bPage \in DomainsPages
  BY <1>1, <1>3 DEF DomainsPages, DomainsShows
<1>5. [source |-> s, members |-> DomainMade.members] \in DomainsRows
  BY DEF DomainsRows, DomainsSuitable
<1>6. [v \in DomainView |-> Nothing] \in [DomainView -> DomainSource \cup {Nothing}]
  OBVIOUS
<1>7. bStore \in DomainsStores
  BY <1>1, <1>5, <1>6 DEF DomainsStores
<1>8. bCalls \in Seq(DomainsCalls \cup {Nothing}) /\ DomainsUnder = {}
  BY <1>2 DEF DomainsUnder
<1>9. ~bPage.loaded /\ bPage.shown = Nothing /\ \A v \in DomainView : bStore.views[v] = Nothing
  BY <1>1
<1> QED
  BY <1>2, <1>4, <1>7, <1>8, <1>9 DEF DomainsInv, DomainsTypesOK, DomainsStoredOK, DomainsListedOK,
     DomainsCurrentOK, DomainsShownOK

\* Every step keeps the invariant, and the members of the domains.
LEMMA DomainsStepKeeps ==
  ASSUME DomainsSuitable, DomainsInv, [Domains!Next]_Domains!vars
  PROVE  DomainsInv' /\ [Domains!KeepsMembers]_Domains!vars
<1>1. CASE UNCHANGED Domains!vars
  <2>1. bStore' = bStore /\ bPage' = bPage /\ bPending' = bPending /\ bPanel' = bPanel /\ bCalls' = bCalls
    BY <1>1 DEF Domains!vars
  <2>2. DomainsUnder' = DomainsUnder
    BY <2>1 DEF DomainsUnder
  <2>3. DomainsTypesOK' /\ DomainsStoredOK' /\ DomainsListedOK' /\ DomainsCurrentOK' /\ DomainsShownOK'
    BY <2>1, <2>2 DEF DomainsInv, DomainsTypesOK, DomainsStoredOK, DomainsListedOK, DomainsCurrentOK,
       DomainsShownOK, DomainsOwned, DomainsDone, DomainsSameView, DomainsOfView
  <2>4. ASSUME NEW i \in DomainsUnder PROVE DomainsEachOK(i)'
    <3>1. DomainsCallOK(bCalls[i])' /\ DomainsAddOK(bCalls[i])' /\ DomainsHadOK(bCalls[i])'
      BY <2>1 DEF DomainsInv, DomainsCallOK, DomainsAddOK, DomainsHadOK, DomainsOwned, DomainsDone, Domains!Mine,
         Domains!Given
    <3>2. DomainsFreshOK(bCalls[i])' /\ DomainsMadeOK(bCalls[i])'
      BY <2>1, <2>2 DEF DomainsInv, DomainsFreshOK, DomainsMadeOK, DomainsDone, Domains!Mine
    <3>3. DomainsFoundOK(bCalls[i])'
      BY <2>1, <2>2 DEF DomainsInv, DomainsFoundOK, DomainsCounts, DomainsLast, Domains!IsLast, Domains!Mine,
         DomainsSameGroup, DomainsSameView, DomainsOwned, DomainsOfGroup, DomainsOfView, DomainsDone
    <3> QED
      BY <3>1, <3>2, <3>3 DEF DomainsEachOK
  <2>5. \A i, j \in DomainsUnder : DomainsPairOK(i, j)'
    BY <2>1 DEF DomainsInv, DomainsPairOK, DomainsDone
  <2> QED
    BY <1>1, <2>2, <2>3, <2>4, <2>5, DomainsInvIs
<1>2. ASSUME Domains!Next PROVE DomainsInv' /\ Domains!KeepsMembers
  <2>1. ASSUME NEW i \in DOMAIN bCalls,
               \/ Domains!ServeAdd(i) \/ Domains!ServeGroup(i) \/ Domains!ServeView(i) \/ Domains!ServeDelete(i) \/ Domains!ServeRead(i) \/ Domains!Fail(i)
        PROVE  DomainsInv' /\ Domains!KeepsMembers
    BY <2>1, DomainsServeAddKeeps, DomainsServeGroupKeeps, DomainsServeViewKeeps, DomainsServeDeleteKeeps,
       DomainsServeReadKeeps, DomainsFailKeeps
  <2>2. ASSUME NEW i \in DOMAIN bCalls,
               \/ Domains!Added(i) \/ Domains!GroupMade(i) \/ Domains!ViewMade(i) \/ Domains!ViewPatched(i) \/ Domains!ReadDone(i) \/ Domains!Failed(i)
        PROVE  DomainsInv' /\ Domains!KeepsMembers
    BY <2>2, DomainsAddedKeeps, DomainsGroupMadeKeeps, DomainsViewMadeKeeps, DomainsViewPatchedKeeps,
       DomainsReadDoneKeeps, DomainsFailedKeeps
  <2>3. ASSUME \/ \E s \in DomainSource : Domains!Open(s)
               \/ Domains!Refresh
               \/ \E g \in DomainGroup : Domains!Apply(g)
        PROVE  DomainsInv' /\ Domains!KeepsMembers
    BY <2>3, DomainsOpenKeeps, DomainsRefreshKeeps, DomainsApplyKeeps
  <2>4. ASSUME NEW g \in DomainGroup, NEW T \in (SUBSET DomainTable) \ {{}}, Domains!AddToDomain(g, T) PROVE DomainsInv' /\ Domains!KeepsMembers
    BY <2>4, DomainsAddKeeps
  <2>5. ASSUME Domains!CreateView \/ Domains!SaveView \/ (\E t \in DomainTable : Domains!CreateGroup(t)) \/ \E v \in DomainView : Domains!DeleteView(v)
        PROVE  DomainsInv' /\ Domains!KeepsMembers
    BY <2>5, DomainsCreateKeeps, DomainsCanvasAskKeeps
  <2> QED
    BY <1>2, <2>1, <2>2, <2>3, <2>4, <2>5 DEF Domains!Next
<1> QED
  BY <1>1, <1>2

\* What is asked of the lists follows.
LEMMA DomainsInvGives ==
  ASSUME DomainsSuitable, DomainsInv
  PROVE  Domains!TypeOK /\ Domains!ShownIsStored
<1>t. DomainsTypesOK /\ bPage \in DomainsPages /\ bStore \in DomainsStores
  BY DEF DomainsInv, DomainsTypesOK
<1>p. /\ bPage.source \in DomainSource /\ bPage.groups \in DomainsLists /\ bPage.views \in SUBSET DomainView /\ bPage.shown \in DomainsShows
      /\ bStore.groups \in [DomainGroup -> DomainsRows \cup {Nothing}] /\ bStore.views \in [DomainView -> DomainSource \cup {Nothing}]
  BY <1>t, DomainsPageFields, DomainsStoreFields
<1>1. Domains!TypeOK
  <2>1. bPending \subseteq DomainGroup /\ bPanel \in BOOLEAN
    BY <1>t DEF DomainsTypesOK
  <2>2. bPage.shown # Nothing => bPage.shown \in [group : DomainGroup, roots : SUBSET DomainTable, behind : BOOLEAN]
    BY <1>p DEF DomainsShows, DomainsViews
  <2>3. \A g \in DomainGroup : bStore.groups[g] # Nothing => bStore.groups[g] \in [source : DomainSource, members : SUBSET DomainTable]
    BY <1>p DEF DomainsRows
  <2>4. bPage.groups \in [DomainGroup -> (SUBSET DomainTable) \cup {Nothing}]
    BY <1>p DEF DomainsLists
  <2> QED
    BY <1>p, <2>1, <2>2, <2>3, <2>4 DEF Domains!TypeOK
<1>2. ASSUME bPage.loaded, ~bPage.overtaken, \A i \in DOMAIN bCalls : bCalls[i] = Nothing
      PROVE  /\ bPage.groups = Domains!Of(bPage.source) /\ bPage.views = Domains!ViewsOf(bPage.source)
             /\ bPage.shown # Nothing /\ ~bPage.shown.behind => bPage.groups[bPage.shown.group] = bPage.shown.roots
  <2>0. DomainsUnder = {}
    BY <1>2 DEF DomainsUnder
  <2>l. /\ [groups |-> Domains!Of(bPage.source), views |-> Domains!ViewsOf(bPage.source)] \in DomainsRead
        /\ \A g \in DomainGroup : /\ DomainsOwned(g, bPage.source) => Domains!Of(bPage.source)[g] = bStore.groups[g].members
                                  /\ ~DomainsOwned(g, bPage.source) => Domains!Of(bPage.source)[g] = Nothing
        /\ \A v \in DomainView : v \in Domains!ViewsOf(bPage.source) <=> bStore.views[v] = bPage.source
    BY <1>t, <1>p, DomainsReadLists
  <2>d. DomainsListedOK /\ DomainsCurrentOK /\ DomainsShownOK
    BY DEF DomainsInv
  <2>1. \A g \in DomainGroup : bPage.groups[g] = Domains!Of(bPage.source)[g]
    BY <2>0, <2>l, <2>d, <1>2 DEF DomainsListedOK, DomainsCurrentOK
  <2>2. Domains!Of(bPage.source) \in DomainsLists
    BY <2>l DEF DomainsRead
  <2>3. bPage.groups = Domains!Of(bPage.source)
    BY <2>1, <2>2, <1>p DEF DomainsLists
  <2>4. Domains!ViewsOf(bPage.source) \subseteq DomainView
    BY DEF Domains!ViewsOf
  <2>5. bPage.views = Domains!ViewsOf(bPage.source)
    BY <2>0, <2>4, <2>l, <2>d, <1>p, <1>2 DEF DomainsCurrentOK, DomainsSameView
  <2>6. ASSUME bPage.shown # Nothing, ~bPage.shown.behind PROVE bPage.groups[bPage.shown.group] = bPage.shown.roots
    <3>1. bPage.shown.group \in DomainGroup
      BY <2>6, <1>p DEF DomainsShows, DomainsViews
    <3>2. DomainsOwned(bPage.shown.group, bPage.source) /\ bStore.groups[bPage.shown.group].members = bPage.shown.roots
      BY <2>6, <2>0, <2>d DEF DomainsShownOK
    <3> QED
      BY <3>1, <3>2, <2>1, <2>l
  <2> QED
    BY <2>3, <2>5, <2>6
<1> QED
  BY <1>1, <1>2 DEF Domains!ShownIsStored

\* The lists of the page, what is being added and the view that is shown stay what they are (App.tsx).
THEOREM DomainsTypeCorrect == Domains!Spec => []Domains!TypeOK
<1> DomainsSuitable
  BY PartsAreSuited
<1>1. Domains!Init => DomainsInv
  BY DomainsInvInit
<1>2. DomainsInv /\ [Domains!Next]_Domains!vars => DomainsInv'
  BY DomainsStepKeeps
<1>3. DomainsInv => Domains!TypeOK
  BY DomainsInvGives
<1> QED
  BY <1>1, <1>2, <1>3, PTL DEF Domains!Spec

\* At rest the lists the page shows are the stored ones, unless an answer overtook another, and a member
\* leaves a domain only by an addition to lists so overtaken (App.tsx, KnowledgePanel.tsx).
THEOREM DomainsCorrect == Domains!Spec => DomainsAreCurrent
<1> DomainsSuitable
  BY PartsAreSuited
<1>1. Domains!Init => DomainsInv
  BY DomainsInvInit
<1>2. DomainsInv /\ [Domains!Next]_Domains!vars => DomainsInv' /\ [Domains!KeepsMembers]_Domains!vars
  BY DomainsStepKeeps
<1>3. DomainsInv => (bPage.loaded => Domains!ShownIsStored)
  BY DomainsInvGives
<1> QED
  BY <1>1, <1>2, <1>3, PTL DEF Domains!Spec, Domains!LostOnlyWhenBehind, DomainsAreCurrent
=============================================================================
