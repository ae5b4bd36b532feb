---------------------------- MODULE ServiceProofs ----------------------------
(***************************************************************************)
(* Proofs about services of the server, for all numbers of requests, rows  *)
(* and timers: that the digest loses no event (NotificationDigest), that   *)
(* the package table is what the last scan found (PackageScan), that no    *)
(* progress of a scan is left behind (ScanProgress), that an update shown  *)
(* as completed is (ServerUpdate), that the security events, the state     *)
(* cache and the dashboard stay in step (SecurityEvents), and that the     *)
(* settings of the mails that are shown are the ones stored                *)
(* (NotificationsPage).  At the end, how the targets of a job are cut into *)
(* waves (JobStrategy).                                                    *)
(***************************************************************************)
EXTENDS NotificationDigest, PackageScan, ScanProgress, ServerUpdate, SecurityEvents,
        NotificationsPage, JobStrategy,
        Integers, FiniteSetTheorems, SequenceTheorems, WellFoundedInduction, TLAPS

-----------------------------------------------------------------------------
(* Bounded sets of numbers.                                                *)

LEMMA HasLeast ==
  ASSUME NEW T \in SUBSET Nat, T # {}
  PROVE  \E x \in T : \A y \in T : x <= y
<1>1. PICK x \in T : \A y \in T : ~(<<y, x>> \in OpToRel(<, Nat))
  BY NatLessThanWellFounded, WFMin, Zenon
<1>2. ASSUME NEW y \in T PROVE x <= y
  <2>1. x \in Nat /\ y \in Nat
    OBVIOUS
  <2>2. ~(y < x)
    BY <1>1, <2>1 DEF OpToRel
  <2> QED
    BY <2>1, <2>2
<1> QED
  BY <1>2

\* A non-empty set of numbers up to n has a greatest one.
LEMMA HasGreatest ==
  ASSUME NEW n \in Nat, NEW T \in SUBSET (1..n), T # {}
  PROVE  \E x \in T : \A y \in T : y <= x
<1> DEFINE Mirror == {n - x : x \in T}
<1>1. Mirror \in SUBSET Nat /\ Mirror # {}
  <2>1. ASSUME NEW x \in T PROVE n - x \in Nat
    <3>1. x \in 1..n
      OBVIOUS
    <3> QED
      BY <3>1
  <2> QED
    BY <2>1
<1>2. PICK m \in Mirror : \A y \in Mirror : m <= y
  BY <1>1, HasLeast
<1>3. PICK x \in T : m = n - x
  BY <1>2
<1>4. ASSUME NEW y \in T PROVE y <= x
  <2>1. x \in 1..n /\ y \in 1..n
    OBVIOUS
  <2>2. n - x <= n - y
    BY <1>2, <1>3
  <2> QED
    BY <2>1, <2>2
<1> QED
  BY <1>4

\* The elements of a sequence are not more than it is long.
LEMMA ElementsBound ==
  ASSUME NEW A, NEW list \in Seq(A), NEW S \in SUBSET Elements(list)
  PROVE  IsFiniteSet(S) /\ Cardinality(S) \in Nat /\ Cardinality(S) <= Len(list)
<1>1. list \in Surjection(1..Len(list), Elements(list))
  BY DEF Surjection, Elements
<1>2. IsFiniteSet(1..Len(list)) /\ Cardinality(1..Len(list)) = Len(list)
  <2>1. Len(list) \in Nat
    OBVIOUS
  <2>2. /\ IsFiniteSet(1..Len(list))
        /\ Cardinality(1..Len(list)) = IF 1 > Len(list) THEN 0 ELSE Len(list) - 1 + 1
    BY <2>1, FS_Interval
  <2> QED
    BY <2>1, <2>2
<1>3. /\ IsFiniteSet(Elements(list))
      /\ Cardinality(Elements(list)) <= Len(list)
  BY <1>1, <1>2, FS_Surjection
<1>4. IsFiniteSet(S) /\ Cardinality(S) <= Cardinality(Elements(list))
  BY <1>3, FS_Subset
<1> QED
  BY <1>3, <1>4, FS_CardinalityType

-----------------------------------------------------------------------------
(* The digest.                                                             *)

Numbers == 1..Len(items)

DigestTypes ==
  /\ items \in Seq(Told)
  /\ buffer \in Seq(Nat)
  /\ \A p \in 1..Len(buffer) : buffer[p] \in Numbers
  /\ mailed \subseteq Numbers
  /\ digest \in [Digests -> [at : {"idle", "woken", "sending"}, list : SUBSET Nat]]
  /\ \A d \in Digests : IsFiniteSet(digest[d].list) /\ digest[d].list \subseteq Numbers
  /\ overlapped \in BOOLEAN

\* The mail tells of item i itself or of one that replaces it.
Mentions(mail, i) == i \in mail \/ \E j \in mail : Replaces(j, i)

\* What a mail under way takes out of the buffer is a beginning of it, of which
\* it tells.
Covers(mail, n) ==
  /\ mail \subseteq Numbers
  /\ Cardinality(mail) \in Nat /\ Cardinality(mail) <= n
  /\ \A p \in 1..n : Mentions(mail, buffer[p])

NothingIsLost ==
  /\ \A i \in DOMAIN items : Accounted(i)
  /\ \A d, e \in Digests : digest[d].at = "sending" /\ digest[e].at = "sending" => d = e
  /\ \A d \in Digests :
       digest[d].at = "sending" => \E n \in 0..Len(buffer) : Covers(digest[d].list, n)

DigestInv == DigestTypes /\ (overlapped \/ NothingIsLost)

LEMMA ReplacesTransitive ==
  ASSUME items \in Seq(Told),
         NEW i \in Numbers, NEW j \in Numbers, NEW k \in Numbers,
         Replaces(k, j), Replaces(j, i)
  PROVE  Replaces(k, i)
BY DEF Replaces, Numbers

\* What deduplication leaves out is replaced by the latest of its key.
LEMMA DeduplicatedCovers ==
  ASSUME DigestTypes
  PROVE  Covers(Deduplicated(buffer), Len(buffer))
<1> DEFINE mail == Deduplicated(buffer)
           n == Len(items)
<1>1. Elements(buffer) \subseteq Numbers /\ mail \subseteq Elements(buffer)
  BY DEF DigestTypes, Elements, Deduplicated
<1>2. Cardinality(mail) \in Nat /\ Cardinality(mail) <= Len(buffer)
  BY <1>1, ElementsBound DEF DigestTypes
<1>3. ASSUME NEW p \in 1..Len(buffer), buffer[p] \notin mail
      PROVE  \E j \in mail : Replaces(j, buffer[p])
  <2> DEFINE i == buffer[p]
             Newer == {j \in Elements(buffer) : Replaces(j, i)}
  <2>1. i \in Elements(buffer)
    BY DEF DigestTypes, Elements
  <2>2. Newer # {}
    BY <1>3, <2>1 DEF Deduplicated
  <2>3. n \in Nat /\ Newer \in SUBSET (1..n)
    BY <1>1 DEF DigestTypes, Numbers
  <2>4. PICK j \in Newer : \A k \in Newer : k <= j
    BY <2>2, <2>3, HasGreatest
  <2>5. ASSUME NEW k \in Elements(buffer), Replaces(k, j) PROVE FALSE
    <3>1. Replaces(k, i)
      BY <1>1, <2>1, <2>4, <2>5, ReplacesTransitive DEF DigestTypes
    <3>2. k <= j /\ j < k
      BY <2>4, <2>5, <3>1 DEF Replaces
    <3> QED
      BY <1>1, <2>3, <2>4, <3>2 DEF Numbers
  <2>6. j \in mail
    BY <2>4, <2>5 DEF Deduplicated
  <2> QED
    BY <2>4, <2>6
<1> QED
  BY <1>1, <1>2, <1>3 DEF Covers, Mentions

\* One event more changes nothing of what replaces what.
LEMMA OneMoreItem ==
  ASSUME items \in Seq(Told), NEW key \in Told, items' = Append(items, key)
  PROVE  /\ items' \in Seq(Told) /\ Len(items') = Len(items) + 1
         /\ Numbers \subseteq Numbers' /\ Numbers' = Numbers \cup {Len(items')}
         /\ DOMAIN items = Numbers /\ DOMAIN items' = Numbers'
         /\ \A i, j \in Numbers : Replaces(j, i)' <=> Replaces(j, i)
BY DEF Replaces, Numbers

\* A digest under way still covers the beginning of the buffer when events are
\* told, and the buffer has grown or is as it was.
LEMMA CoversKept ==
  ASSUME DigestTypes, NEW key \in Told, items' = Append(items, key),
         buffer' = buffer \/ buffer' = Append(buffer, Len(items')),
         NEW mail, NEW n \in 0..Len(buffer), Covers(mail, n)
  PROVE  n \in 0..Len(buffer') /\ Covers(mail, n)'
<1>1. items \in Seq(Told) /\ buffer \in Seq(Nat)
  BY DEF DigestTypes
<1>2. Len(items') \in Nat
  BY <1>1, OneMoreItem
<1>3. n \in 0..Len(buffer') /\ \A p \in 1..n : buffer'[p] = buffer[p]
  <2>1. CASE buffer' = buffer
    BY <2>1
  <2>2. CASE buffer' = Append(buffer, Len(items'))
    BY <1>1, <1>2, <2>2
  <2> QED
    BY <2>1, <2>2
<1>4. \A p \in 1..n : buffer[p] \in Numbers
  BY DEF DigestTypes
<1>5. mail \subseteq Numbers
  BY DEF Covers
<1>6. ASSUME NEW p \in 1..n PROVE Mentions(mail, buffer[p])'
  <2>1. Mentions(mail, buffer[p]) /\ buffer[p] \in Numbers /\ buffer'[p] = buffer[p]
    BY <1>3, <1>4 DEF Covers
  <2>2. \A i, j \in Numbers : Replaces(j, i)' <=> Replaces(j, i)
    BY <1>1, OneMoreItem
  <2>3. CASE buffer[p] \in mail
    BY <2>1, <2>3 DEF Mentions
  <2>4. CASE \E j \in mail : Replaces(j, buffer[p])
    <3>1. PICK j \in mail : Replaces(j, buffer[p])
      BY <2>4
    <3>2. Replaces(j, buffer[p])'
      BY <1>5, <2>1, <2>2, <3>1, ZenonT(120) DEF Replaces
    <3> QED
      BY <3>2 DEF Mentions
  <2> QED
    BY <2>1, <2>3, <2>4 DEF Mentions
<1>7. mail \subseteq Numbers'
  BY <1>1, <1>5, OneMoreItem
<1> QED
  BY <1>3, <1>6, <1>7 DEF Covers

LEMMA AccountedKept ==
  ASSUME DigestTypes, NEW key \in Told, items' = Append(items, key),
         mailed \subseteq mailed', Elements(buffer) \subseteq Elements(buffer'),
         Len(items') \in mailed' \cup Elements(buffer'),
         \A i \in DOMAIN items : Accounted(i)
  PROVE  \A i \in DOMAIN items' : Accounted(i)'
<1>1. items \in Seq(Told) /\ mailed \cup Elements(buffer) \subseteq Numbers
  BY DEF DigestTypes, Elements
<1>2. ASSUME NEW i \in Numbers PROVE Accounted(i)'
  <2>1. Accounted(i)
    BY <1>1, OneMoreItem
  <2>2. CASE i \in mailed \cup Elements(buffer)
    BY <2>2 DEF Accounted
  <2>3. CASE \E j \in mailed \cup Elements(buffer) : Replaces(j, i)
    <3>1. PICK j \in mailed \cup Elements(buffer) : Replaces(j, i)
      BY <2>3
    <3>2. Replaces(j, i)' /\ j \in mailed' \cup Elements(buffer')
      BY <1>1, <3>1, OneMoreItem
    <3> QED
      BY <3>2 DEF Accounted, Elements
  <2> QED
    BY <2>1, <2>2, <2>3 DEF Accounted
<1>3. \A i : i = Len(items') => Accounted(i)'
  BY DEF Accounted, Elements
<1> QED
  BY <1>1, <1>2, <1>3, OneMoreItem

LEMMA DigestTypesInitially == DigestInit => DigestInv
<1> SUFFICES ASSUME DigestInit PROVE DigestInv
  OBVIOUS
<1>1. DigestTypes
  <2>1. /\ items \in Seq(Told) /\ buffer \in Seq(Nat) /\ mailed \subseteq Numbers
        /\ \A p \in 1..Len(buffer) : buffer[p] \in Numbers
    BY DEF DigestInit
  <2>2. NoDigest \in [at : {"idle", "woken", "sending"}, list : SUBSET Nat]
    BY DEF NoDigest
  <2>3. \A d \in Digests : IsFiniteSet(digest[d].list) /\ digest[d].list \subseteq Numbers
    BY FS_EmptySet DEF DigestInit, NoDigest
  <2> QED
    BY <2>1, <2>2, <2>3 DEF DigestInit, DigestTypes
<1>2. NothingIsLost
  BY DEF DigestInit, NothingIsLost, NoDigest
<1> QED
  BY <1>1, <1>2 DEF DigestInv

LEMMA DigestTypesKept == DigestTypes /\ [DigestNext]_digestVars => DigestTypes'
<1> SUFFICES ASSUME DigestTypes, [DigestNext]_digestVars PROVE DigestTypes'
  OBVIOUS
<1>0. /\ items \in Seq(Told) /\ buffer \in Seq(Nat) /\ Len(items) \in Nat
      /\ \A p \in 1..Len(buffer) : buffer[p] \in Numbers
  BY DEF DigestTypes
<1>a. NoDigest \in [at : {"idle", "woken", "sending"}, list : SUBSET Nat]
      /\ IsFiniteSet(NoDigest.list) /\ NoDigest.list = {}
  BY FS_EmptySet DEF NoDigest
<1>1. ASSUME NEW key \in Told, MailNow(key) PROVE DigestTypes'
  <2>1. CASE items' = Append(items, key) /\ mailed' = mailed \cup {Len(items')}
    <3>1. /\ items' \in Seq(Told) /\ mailed' \subseteq Numbers' /\ Numbers \subseteq Numbers'
      BY <1>0, <2>1, OneMoreItem DEF DigestTypes
    <3> QED
      BY <1>1, <3>1 DEF MailNow, DigestTypes
  <2>2. CASE UNCHANGED <<items, mailed>>
    BY <1>1, <2>2 DEF MailNow, DigestTypes, Numbers
  <2> QED
    BY <1>1, <2>1, <2>2 DEF MailNow
<1>2. ASSUME NEW key \in Told, Queue(key) PROVE DigestTypes'
  <2>1. items' = Append(items, key) /\ buffer' = Append(buffer, Len(items'))
    BY <1>2 DEF Queue
  <2>2. /\ items' \in Seq(Told) /\ Len(items') \in Nat /\ Len(items') \in Numbers'
        /\ Numbers \subseteq Numbers'
    BY <1>0, <2>1, OneMoreItem
  <2>3. buffer' \in Seq(Nat) /\ \A p \in 1..Len(buffer') : buffer'[p] \in Numbers'
    <3>1. buffer' \in Seq(Nat) /\ Len(buffer') = Len(buffer) + 1
          /\ buffer'[Len(buffer) + 1] = Len(items')
          /\ \A p \in 1..Len(buffer) : buffer'[p] = buffer[p]
      BY <1>0, <2>1, <2>2
    <3>2. Len(buffer) \in Nat
      BY <1>0
    <3>3. ASSUME NEW p \in 1..Len(buffer') PROVE buffer'[p] \in Numbers'
      <4>1. CASE p \in 1..Len(buffer)
        BY <1>0, <2>2, <3>1, <4>1
      <4>2. CASE p = Len(buffer) + 1
        BY <2>2, <3>1, <4>2
      <4> QED
        BY <3>1, <3>2, <4>1, <4>2
    <3> QED
      BY <3>1, <3>3
  <2> QED
    BY <1>0, <1>2, <2>1, <2>2, <2>3 DEF Queue, DigestTypes
<1>3. ASSUME NEW d \in Digests, Send(d) PROVE DigestTypes'
  <2>1. Deduplicated(buffer) \in SUBSET Nat /\ Deduplicated(buffer) \subseteq Numbers
        /\ IsFiniteSet(Deduplicated(buffer))
    <3>1. Deduplicated(buffer) \in SUBSET Elements(buffer) /\ Elements(buffer) \subseteq Numbers
      BY <1>0 DEF Deduplicated, Elements, Numbers
    <3> QED
      BY <1>0, <3>1, ElementsBound DEF Numbers
  <2>2. overlapped' \in BOOLEAN
    BY <1>3 DEF Send
  <2> QED
    BY <1>3, <2>1, <2>2 DEF Send, DigestTypes, Numbers
<1>4. ASSUME NEW d \in Digests, Delivered(d) PROVE DigestTypes'
  <2> DEFINE c == Cardinality(digest[d].list)
  <2>1. c \in Nat /\ buffer' = SubSeq(buffer, c + 1, Len(buffer))
    BY <1>4, FS_CardinalityType DEF DigestTypes, Delivered, Splice
  <2>2. /\ buffer' \in Seq(Nat) /\ \A p \in 1..Len(buffer') : buffer'[p] \in Numbers
    BY <1>0, <2>1, SMTT(60)
  <2>3. mailed' \subseteq Numbers
    BY <1>4 DEF Delivered, DigestTypes
  <2> QED
    BY <1>4, <1>a, <2>2, <2>3 DEF Delivered, DigestTypes, Numbers
<1>5. ASSUME NEW d \in Digests, NothingToSend(d) \/ Skip(d) \/ MailFails(d)
      PROVE DigestTypes'
  BY <1>5, <1>a DEF NothingToSend, Skip, MailFails, DigestTypes, Numbers
<1>6. ASSUME NEW d \in Digests, Fire(d) PROVE DigestTypes'
  BY <1>6 DEF Fire, DigestTypes, Numbers
<1>7. ASSUME UNCHANGED <<items, buffer, mailed, digest, overlapped>> PROVE DigestTypes'
  BY <1>7 DEF DigestTypes, Numbers
<1> QED
  BY <1>1, <1>2, <1>3, <1>4, <1>5, <1>6, <1>7
     DEF DigestNext, digestVars, LookupEnds, NextHour, SaveConfig

\* What the buffer holds is still told of when the mail of digest d is out.
LEMMA DeliveredLosesNothing ==
  ASSUME DigestTypes, NothingIsLost, NEW d \in Digests, Delivered(d)
  PROVE  \A i \in DOMAIN items : Accounted(i)'
<1> DEFINE mail == digest[d].list
           c == Cardinality(mail)
<1>1. PICK n \in 0..Len(buffer) : Covers(mail, n)
  BY DEF NothingIsLost, Delivered
<1>2. /\ c \in Nat /\ c <= n /\ n <= Len(buffer) /\ Len(buffer) \in Nat
      /\ \A p \in 1..n : Mentions(mail, buffer[p])
  BY <1>1 DEF Covers, DigestTypes
<1>3. /\ buffer' = SubSeq(buffer, c + 1, Len(buffer))
      /\ mailed' = mailed \cup mail /\ items' = items
  BY DEF Delivered, Splice
<1>4. /\ Len(buffer') = Len(buffer) - c
      /\ \A p \in 1..(Len(buffer) - c) : buffer'[p] = buffer[c + p]
  <2>1. buffer \in Seq(Nat) /\ c + 1 \in 1..(Len(buffer) + 1)
    BY <1>2 DEF DigestTypes
  <2>2. /\ Len(buffer') = Len(buffer) - (c + 1) + 1
        /\ \A p \in 1..(Len(buffer) - (c + 1) + 1) : buffer'[p] = buffer[(c + 1) + p - 1]
    BY <1>2, <1>3, <2>1, SubSeqProperties, SMTT(60)
  <2> QED
    BY <1>2, <2>2
<1>5. ASSUME NEW j \in Elements(buffer)
      PROVE  j \in Elements(buffer') \/ Mentions(mail, j)
  <2>1. PICK p \in 1..Len(buffer) : j = buffer[p]
    BY SMTT(60) DEF Elements, DigestTypes
  <2>2. CASE p <= c
    BY <1>2, <2>1, <2>2
  <2>3. CASE p > c
    <3>1. p - c \in 1..Len(buffer') /\ buffer'[p - c] = j
      BY <1>2, <1>4, <2>1, <2>3
    <3>2. p - c \in DOMAIN buffer'
      BY <1>2, <1>3, <3>1 DEF DigestTypes
    <3> QED
      BY <3>1, <3>2 DEF Elements
  <2> QED
    BY <1>2, <2>1, <2>2, <2>3
<1>6. \A i, j : Replaces(j, i)' <=> Replaces(j, i)
  BY <1>3 DEF Replaces
<1>7. mail \subseteq Numbers /\ mailed \cup Elements(buffer) \subseteq Numbers
      /\ DOMAIN items = Numbers /\ items \in Seq(Told)
  <2>1. mail \subseteq Numbers /\ mailed \subseteq Numbers
    BY DEF DigestTypes
  <2>2. Elements(buffer) \subseteq Numbers
    BY DEF DigestTypes, Elements
  <2>3. DOMAIN items = Numbers /\ items \in Seq(Told)
    BY DEF DigestTypes, Numbers
  <2> QED
    BY <2>1, <2>2, <2>3
<1>8. ASSUME NEW i \in DOMAIN items PROVE Accounted(i)'
  <2>1. SUFFICES \/ i \in mailed' \cup Elements(buffer')
                 \/ \E j \in mailed' \cup Elements(buffer') : Replaces(j, i)
    BY <1>6 DEF Accounted, Elements
  <2>2. CASE i \in mailed \cup Elements(buffer)
    BY <1>3, <1>5, <2>2 DEF Mentions
  <2>3. CASE \E j \in mailed \cup Elements(buffer) : Replaces(j, i)
    <3>1. PICK j \in mailed \cup Elements(buffer) : Replaces(j, i)
      BY <2>3
    <3>2. CASE j \in mailed' \cup Elements(buffer')
      BY <3>1, <3>2
    <3>3. CASE \E k \in mail : Replaces(k, j)
      BY <1>3, <1>7, <3>1, <3>3, ReplacesTransitive
    <3> QED
      BY <1>3, <1>5, <3>1, <3>2, <3>3 DEF Mentions
  <2> QED
    BY <2>2, <2>3, <1>8 DEF NothingIsLost, Accounted
<1> QED
  BY <1>8

LEMMA DigestInvKept == DigestInv /\ [DigestNext]_digestVars => DigestInv'
<1> SUFFICES ASSUME DigestInv, [DigestNext]_digestVars PROVE DigestInv'
  OBVIOUS
<1>1. DigestTypes /\ DigestTypes'
  BY DigestTypesKept DEF DigestInv
<1>2. overlapped => overlapped'
  BY DEF DigestNext, digestVars, LookupEnds, MailNow, Queue, NextHour, SaveConfig, Fire,
         NothingToSend, Skip, Send, Delivered, MailFails
<1> SUFFICES ASSUME ~overlapped, ~overlapped', NothingIsLost PROVE NothingIsLost'
  BY <1>1, <1>2 DEF DigestInv, DigestTypes
<1>3. ASSUME NEW key \in Told, MailNow(key) \/ Queue(key), items' = Append(items, key)
      PROVE  NothingIsLost'
  <2>1. /\ digest' = digest /\ items \in Seq(Told) /\ buffer \in Seq(Nat)
        /\ Len(items') \in Nat
        /\ buffer' = buffer \/ buffer' = Append(buffer, Len(items'))
    BY <1>1, <1>3, OneMoreItem DEF MailNow, Queue, DigestTypes
  <2>2. /\ mailed \subseteq mailed' /\ Elements(buffer) \subseteq Elements(buffer')
        /\ Len(items') \in mailed' \cup Elements(buffer')
    <3>1. CASE MailNow(key)
      <4>1. buffer' = buffer /\ (mailed' = mailed \cup {Len(items')} \/ items' = items)
        BY <3>1 DEF MailNow
      <4>2. items' # items
        BY <1>3, <2>1
      <4> QED
        BY <4>1, <4>2 DEF Elements
    <3>2. CASE Queue(key)
      <4>1. mailed' = mailed /\ buffer' = Append(buffer, Len(items'))
        BY <3>2 DEF Queue
      <4>2. /\ Len(buffer') = Len(buffer) + 1 /\ buffer'[Len(buffer')] = Len(items')
            /\ \A p \in 1..Len(buffer) : buffer'[p] = buffer[p]
            /\ Len(buffer) \in Nat /\ DOMAIN buffer = 1..Len(buffer)
            /\ DOMAIN buffer' = 1..Len(buffer')
        BY <2>1, <4>1
      <4> QED
        BY <4>1, <4>2 DEF Elements
    <3> QED
      BY <1>3, <3>1, <3>2
  <2>3. \A i \in DOMAIN items' : Accounted(i)'
    BY <1>1, <1>3, <2>2, AccountedKept DEF NothingIsLost
  <2>4. ASSUME NEW d \in Digests, digest'[d].at = "sending"
        PROVE  \E n \in 0..Len(buffer') : Covers(digest[d].list, n)'
    <3>1. PICK n \in 0..Len(buffer) : Covers(digest[d].list, n)
      BY <2>1, <2>4 DEF NothingIsLost
    <3>2. \A mail : Covers(mail, n) => n \in 0..Len(buffer') /\ Covers(mail, n)'
      BY <1>1, <1>3, <2>1, CoversKept
    <3> QED
      BY <2>1, <3>1, <3>2 DEF Covers, Mentions
  <2> QED
    BY <2>1, <2>3, <2>4 DEF NothingIsLost
<1>4. ASSUME NEW d \in Digests, Send(d) PROVE NothingIsLost'
  <2>1. /\ items' = items /\ buffer' = buffer /\ mailed' = mailed
        /\ digest' = [digest EXCEPT ![d] = [at |-> "sending", list |-> Deduplicated(buffer)]]
        /\ \A e \in Digests : digest[e].at # "sending"
    BY <1>4 DEF Send
  <2>2. Covers(Deduplicated(buffer), Len(buffer)) /\ Len(buffer) \in 0..Len(buffer)
    BY <1>1, DeduplicatedCovers DEF DigestTypes
  <2>3. \A e \in Digests : digest'[e].at = "sending" =>
           e = d /\ digest'[e].list = Deduplicated(buffer)
    BY <1>1, <2>1 DEF DigestTypes
  <2> QED
    BY <2>1, <2>2, <2>3
       DEF NothingIsLost, Accounted, Elements, Replaces, Covers, Mentions, Numbers
<1>5. ASSUME NEW d \in Digests, Delivered(d) PROVE NothingIsLost'
  <2>1. \A e \in Digests : digest'[e].at # "sending"
    BY <1>1, <1>5 DEF Delivered, NoDigest, DigestTypes, NothingIsLost
  <2>2. \A i \in DOMAIN items' : Accounted(i)'
    BY <1>1, <1>5, DeliveredLosesNothing DEF Delivered
  <2> QED
    BY <2>1, <2>2 DEF NothingIsLost
<1>6. ASSUME UNCHANGED <<items, buffer, mailed>>,
             \A d \in Digests : digest'[d].at = "sending" =>
               digest[d].at = "sending" /\ digest'[d].list = digest[d].list
      PROVE  NothingIsLost'
  BY <1>6 DEF NothingIsLost, Accounted, Elements, Replaces, Covers, Mentions, Numbers
<1>7. ASSUME NEW d \in Digests, Fire(d) \/ NothingToSend(d) \/ Skip(d) \/ MailFails(d)
      PROVE  NothingIsLost'
  <2>1. UNCHANGED <<items, buffer, mailed>>
    BY <1>7 DEF Fire, NothingToSend, Skip, MailFails
  <2>2. /\ \A e \in Digests \ {d} : digest'[e] = digest[e]
        /\ digest'[d].at # "sending"
    BY <1>1, <1>7 DEF Fire, NothingToSend, Skip, MailFails, DigestTypes, NoDigest
  <2> QED
    BY <1>6, <2>1, <2>2
<1>8. ASSUME UNCHANGED <<items, buffer, mailed, digest>> PROVE NothingIsLost'
  BY <1>6, <1>8
<1>9. ASSUME NEW key \in Told, MailNow(key) \/ Queue(key) PROVE NothingIsLost'
  BY <1>3, <1>8, <1>9 DEF MailNow, Queue
<1> QED
  BY <1>4, <1>5, <1>7, <1>8, <1>9
     DEF DigestNext, digestVars, LookupEnds, NextHour, SaveConfig

\* As long as no two digests were on their way at once, no queued event is
\* lost (sendDigest and queueDigestItem of notification-service.ts).
THEOREM EventsPreservedHolds == DigestSpec => []EventsPreserved
<1>1. DigestInv => EventsPreserved
  BY DEF DigestInv, NothingIsLost, EventsPreserved
<1> QED
  BY <1>1, DigestTypesInitially, DigestInvKept, PTL DEF DigestSpec

-----------------------------------------------------------------------------
(* The packages of a machine (PackageScan).                                *)

ScanRecord == [at : {"idle", "upserting", "removed", "reading", "comparing", "matching", "matched"},
               time : Nat, listed : SUBSET Packages, left : SUBSET Packages,
               had : SUBSET Packages, known : SUBSET Packages]

ScanRows ==
  /\ affected \in SUBSET Packages /\ lastSeen \in [Packages -> Nat] /\ scans \in Nat
  /\ matches \in SUBSET Table /\ scansOverlap \in BOOLEAN
  /\ scan \in [ScanRequests -> ScanRecord]
  /\ \A p \in Packages : lastSeen[p] <= scans
  /\ \A r \in ScanRequests :
        /\ scan[r].at # "idle" => scan[r].time \in 1..scans
        /\ scan[r].at = "upserting" => scan[r].left \subseteq scan[r].listed

\* A scan that has the table for itself is the latest one, and has seen what it
\* has written and nothing that it does not list.  What it read is still there,
\* and what it has left to write makes the matches those it found.
OwnsTable(r) ==
  /\ scan[r].at # "idle" => scan[r].time = scans
  /\ scan[r].at = "upserting" =>
        /\ \A p \in scan[r].listed \ scan[r].left : lastSeen[p] = scans
        /\ \A p \in Packages \ scan[r].listed : lastSeen[p] < scans
  /\ scan[r].at \notin {"idle", "upserting"} /\ scan[r].listed # {} => Table = scan[r].listed
  /\ scan[r].at \in {"reading", "comparing"} => scan[r].left = Table
  /\ scan[r].at = "comparing" => scan[r].had = matches
  /\ scan[r].at = "matching" =>
        /\ scan[r].left \cap matches = {} /\ scan[r].left \subseteq Table
        /\ scan[r].had \subseteq matches
        /\ scan[r].left \cup (matches \ scan[r].had) = Table \cap scan[r].known
        /\ scan[r].had \cap scan[r].known = {}
  /\ scan[r].at = "matched" => matches = Table \cap scan[r].known

ScanAlone ==
  ~ scansOverlap =>
    /\ \A q, r \in ScanRequests : scan[q].at # "idle" /\ scan[r].at # "idle" => q = r
    /\ \A r \in ScanRequests : OwnsTable(r)

LEMMA ScanInvInit == ScanInit => ScanRows /\ ScanAlone
<1> SUFFICES ASSUME ScanInit PROVE ScanRows /\ ScanAlone
  OBVIOUS
<1>1. NoScan \in ScanRecord /\ NoScan.at = "idle"
  BY DEF NoScan, ScanRecord
<1>2. scan \in [ScanRequests -> ScanRecord] /\ \A r \in ScanRequests : scan[r].at = "idle"
  BY <1>1 DEF ScanInit
<1>3. ScanRows
  <2>1. lastSeen \in [Packages -> Nat] /\ \A p \in Packages : lastSeen[p] <= scans
    BY DEF ScanInit
  <2>2. affected \in SUBSET Packages /\ scans \in Nat /\ matches = {} /\ scansOverlap \in BOOLEAN
    BY DEF ScanInit
  <2> QED
    BY <1>2, <2>1, <2>2 DEF ScanRows
<1>4. ScanAlone
  BY <1>2 DEF ScanInit, ScanAlone, OwnsTable
<1> QED
  BY <1>3, <1>4

\* A step of one request leaves the others where they are.
LEMMA ScanGoesOn ==
  ASSUME ScanRows, NEW r \in ScanRequests, NEW rec \in ScanRecord, ScanGoes(r, rec)
  PROVE  /\ scan' \in [ScanRequests -> ScanRecord] /\ scan'[r] = rec
         /\ \A q \in ScanRequests : q # r => scan'[q] = scan[q]
BY DEF ScanRows, ScanGoes

\* A step of a request that leaves the rows of the packages alone keeps the
\* invariant, if it keeps what its own request owns.
LEMMA ScanStepKeeps ==
  ASSUME ScanRows, ScanAlone, NEW r \in ScanRequests, NEW rec \in ScanRecord, ScanGoes(r, rec),
         scan[r].at # "idle",
         rec.at # "idle" => rec.time = scan[r].time, rec.at # "upserting",
         UNCHANGED <<lastSeen, affected, scans, scansOverlap>>, matches' \in SUBSET Table,
         ~ scansOverlap /\ OwnsTable(r) => OwnsTable(r)'
  PROVE  ScanRows' /\ ScanAlone'
<1>1. /\ scan' \in [ScanRequests -> ScanRecord] /\ scan'[r] = rec
      /\ \A q \in ScanRequests : q # r => scan'[q] = scan[q]
  BY ScanGoesOn
<1>2. ScanRows'
  BY <1>1 DEF ScanRows, Table
<1>3. ScanAlone'
  <2> SUFFICES ASSUME ~ scansOverlap
               PROVE  /\ \A q, o \in ScanRequests : scan'[q].at # "idle" /\ scan'[o].at # "idle" => q = o
                      /\ \A o \in ScanRequests : OwnsTable(o)'
    BY DEF ScanAlone
  <2>1. \A o \in ScanRequests : o # r => scan'[o].at = "idle"
    BY <1>1 DEF ScanAlone
  <2>2. OwnsTable(r)'
    BY DEF ScanAlone
  <2>3. \A o \in ScanRequests : o # r => OwnsTable(o)'
    BY <2>1 DEF OwnsTable
  <2> QED
    BY <2>1, <2>2, <2>3
<1> QED
  BY <1>2, <1>3

LEMMA ScanInvKept == ScanRows /\ ScanAlone /\ [ScanNext]_scanVars => ScanRows' /\ ScanAlone'
<1> SUFFICES ASSUME ScanRows, ScanAlone, [ScanNext]_scanVars PROVE ScanRows' /\ ScanAlone'
  OBVIOUS
<1>1. CASE UNCHANGED scanVars
  BY <1>1 DEF scanVars, ScanRows, ScanAlone, OwnsTable, Table
<1>2. ASSUME NEW S \in SUBSET Packages, MirrorChanges(S) PROVE ScanRows' /\ ScanAlone'
  BY <1>2 DEF MirrorChanges, ScanRows, ScanAlone, OwnsTable, Table
<1>3. ASSUME NEW r \in ScanRequests, NEW S \in SUBSET Packages, Arrive(r, S)
      PROVE  ScanRows' /\ ScanAlone'
  <2>1. PICK rec \in ScanRecord :
          /\ rec.at = "upserting" /\ rec.time = scans + 1 /\ rec.listed = S
          /\ rec.left = S /\ ScanGoes(r, rec)
    <3>1. [at |-> "upserting", time |-> scans + 1, listed |-> S, left |-> S,
           had |-> {}, known |-> {}] \in ScanRecord
      BY DEF ScanRows, ScanRecord
    <3> QED
      BY <1>3, <3>1 DEF Arrive
  <2>2. /\ scan' \in [ScanRequests -> ScanRecord] /\ scan'[r] = rec
        /\ \A q \in ScanRequests : q # r => scan'[q] = scan[q]
    BY <2>1, ScanGoesOn
  <2>3. /\ scan[r].at = "idle" /\ scans' = scans + 1 /\ UNCHANGED <<lastSeen, affected, matches>>
        /\ scansOverlap' = (scansOverlap \/ \E q \in ScanRequests : scan[q].at # "idle")
    BY <1>3 DEF Arrive
  <2>4. ScanRows'
    BY <2>1, <2>2, <2>3 DEF ScanRows, Table
  <2>5. ~ scansOverlap' => ~ scansOverlap /\ \A q \in ScanRequests : scan[q].at = "idle"
    BY <2>3 DEF ScanRows
  <2>6. ScanAlone'
    <3> SUFFICES ASSUME ~ scansOverlap'
                 PROVE  /\ \A q, o \in ScanRequests : scan'[q].at # "idle" /\ scan'[o].at # "idle" => q = o
                        /\ \A o \in ScanRequests : OwnsTable(o)'
      BY DEF ScanAlone
    <3>1. \A p \in Packages : lastSeen[p] < scans + 1
      BY DEF ScanRows
    <3>2. \A o \in ScanRequests : o # r => scan'[o].at = "idle"
      BY <2>2, <2>5
    <3>3. OwnsTable(r)'
      BY <2>1, <2>2, <2>3, <3>1 DEF OwnsTable
    <3>4. \A o \in ScanRequests : o # r => OwnsTable(o)'
      BY <3>2 DEF OwnsTable
    <3> QED
      BY <3>2, <3>3, <3>4
  <2> QED
    BY <2>4, <2>6
<1>4. ASSUME NEW r \in ScanRequests, NEW p \in Packages, Upsert(r, p) PROVE ScanRows' /\ ScanAlone'
  <2>1. PICK rec \in ScanRecord :
          /\ rec.at = "upserting" /\ rec.time = scan[r].time /\ rec.listed = scan[r].listed
          /\ rec.left = scan[r].left \ {p} /\ ScanGoes(r, rec)
    <3>1. scan[r] \in ScanRecord /\ scan[r].at = "upserting"
      BY <1>4 DEF Upsert, ScanRows
    <3>2. [scan[r] EXCEPT !.left = @ \ {p}] \in ScanRecord
      BY <3>1 DEF ScanRecord
    <3> QED
      BY <1>4, <3>1, <3>2 DEF Upsert, ScanRecord
  <2>2. /\ scan' \in [ScanRequests -> ScanRecord] /\ scan'[r] = rec
        /\ \A q \in ScanRequests : q # r => scan'[q] = scan[q]
    BY <2>1, ScanGoesOn
  <2>3. /\ scan[r].at = "upserting" /\ p \in scan[r].left /\ affected' \in SUBSET Packages
        /\ UNCHANGED <<matches, scans, scansOverlap>>
        /\ lastSeen' = [lastSeen EXCEPT ![p] = IF @ = 0 THEN scans ELSE scan[r].time]
    BY <1>4 DEF Upsert, ScanRows
  <2>4. scan[r].time \in 1..scans /\ scans \in Nat
    BY <2>3 DEF ScanRows
  <2>5. /\ lastSeen' \in [Packages -> Nat] /\ lastSeen'[p] \in {scans, scan[r].time}
        /\ \A o \in Packages : o # p => lastSeen'[o] = lastSeen[o]
    BY <2>3, <2>4 DEF ScanRows
  <2>6. Table' = Table \cup {p}
    BY <2>4, <2>5 DEF Table
  <2>7. ScanRows'
    <3>1. \A o \in Packages : lastSeen'[o] <= scans
      BY <2>4, <2>5 DEF ScanRows
    <3> QED
      BY <2>1, <2>2, <2>3, <2>5, <2>6, <3>1 DEF ScanRows
  <2>8. ScanAlone'
    <3> SUFFICES ASSUME ~ scansOverlap
                 PROVE  /\ \A q, o \in ScanRequests : scan'[q].at # "idle" /\ scan'[o].at # "idle" => q = o
                        /\ \A o \in ScanRequests : OwnsTable(o)'
      BY <2>3 DEF ScanAlone
    <3>1. \A q, o \in ScanRequests : scan'[q].at # "idle" /\ scan'[o].at # "idle" => q = o
      BY <2>1, <2>2, <2>3 DEF ScanAlone
    <3>2. \A o \in ScanRequests : o # r => scan'[o].at = "idle"
      BY <2>1, <2>2, <3>1
    <3>3. OwnsTable(r) /\ scan[r].time = scans /\ lastSeen'[p] = scans
      BY <2>3, <2>5 DEF ScanAlone, OwnsTable
    <3>4. p \in scan[r].listed
      BY <2>3 DEF ScanRows
    <3>5. OwnsTable(r)'
      <4>1. \A o \in rec.listed \ rec.left : lastSeen'[o] = scans
        BY <2>1, <2>2, <2>3, <2>5, <3>3 DEF OwnsTable, ScanRecord
      <4>2. \A o \in Packages \ rec.listed : lastSeen'[o] < scans
        BY <2>1, <2>3, <2>5, <3>3, <3>4 DEF OwnsTable
      <4> QED
        BY <2>1, <2>2, <2>3, <3>3, <4>1, <4>2 DEF OwnsTable
    <3> QED
      BY <3>1, <3>2, <3>5 DEF OwnsTable
  <2> QED
    BY <2>7, <2>8
<1>5. ASSUME NEW r \in ScanRequests, RemoveStale(r) PROVE ScanRows' /\ ScanAlone'
  <2>1. PICK rec \in ScanRecord :
          /\ rec.at = "removed" /\ rec.time = scan[r].time /\ rec.listed = scan[r].listed
          /\ rec.left = {} /\ ScanGoes(r, rec)
    <3>1. scan[r] \in ScanRecord /\ scan[r].left = {}
      BY <1>5 DEF RemoveStale, ScanRows
    <3>2. [scan[r] EXCEPT !.at = "removed"] \in ScanRecord
      BY <3>1 DEF ScanRecord
    <3> QED
      BY <1>5, <3>1, <3>2 DEF RemoveStale, ScanRecord
  <2>2. /\ scan' \in [ScanRequests -> ScanRecord] /\ scan'[r] = rec
        /\ \A q \in ScanRequests : q # r => scan'[q] = scan[q]
    BY <2>1, ScanGoesOn
  <2>3. /\ scan[r].at = "upserting" /\ scan[r].left = {}
        /\ UNCHANGED <<affected, scans, scansOverlap>>
        /\ lastSeen' = Cleaned(r) /\ matches' = {p \in matches : lastSeen'[p] > 0}
    BY <1>5 DEF RemoveStale
  <2>4. scan[r].time \in 1..scans /\ scans \in Nat /\ scan[r].listed \in SUBSET Packages
    BY <2>1, <2>3 DEF ScanRows, ScanRecord
  <2>5. \A p \in Packages :
           lastSeen'[p] = IF scan[r].listed # {} /\ lastSeen[p] < scan[r].time THEN 0 ELSE lastSeen[p]
    BY <2>3 DEF Cleaned
  <2>6. lastSeen' \in [Packages -> Nat] /\ \A p \in Packages : lastSeen'[p] <= scans
    BY <2>3, <2>4, <2>5 DEF Cleaned, ScanRows
  <2>7. matches' \in SUBSET Table'
    BY <2>3 DEF ScanRows, Table
  <2>8. ScanRows'
    BY <2>1, <2>2, <2>3, <2>4, <2>6, <2>7 DEF ScanRows
  <2>9. ScanAlone'
    <3> SUFFICES ASSUME ~ scansOverlap
                 PROVE  /\ \A q, o \in ScanRequests : scan'[q].at # "idle" /\ scan'[o].at # "idle" => q = o
                        /\ \A o \in ScanRequests : OwnsTable(o)'
      BY <2>3 DEF ScanAlone
    <3>1. \A q, o \in ScanRequests : scan'[q].at # "idle" /\ scan'[o].at # "idle" => q = o
      BY <2>1, <2>2, <2>3 DEF ScanAlone
    <3>2. \A o \in ScanRequests : o # r => scan'[o].at = "idle"
      BY <2>1, <2>2, <3>1
    <3>3. /\ scan[r].time = scans
          /\ \A p \in scan[r].listed : lastSeen[p] = scans
          /\ \A p \in Packages \ scan[r].listed : lastSeen[p] < scans
      BY <2>3 DEF ScanAlone, OwnsTable
    <3>4. scan[r].listed # {} => Table' = scan[r].listed
      BY <2>4, <2>5, <2>6, <3>3 DEF Table
    <3> QED
      BY <2>1, <2>2, <2>3, <3>1, <3>2, <3>3, <3>4 DEF OwnsTable
  <2> QED
    BY <2>8, <2>9
<1>6. ASSUME NEW r \in ScanRequests, ReadTable(r) PROVE ScanRows' /\ ScanAlone'
  <2> DEFINE rec == [scan[r] EXCEPT !.at = "reading", !.left = Table]
  <2>1. /\ scan[r] \in ScanRecord /\ scan[r].at = "removed" /\ matches \in SUBSET Table
        /\ UNCHANGED <<lastSeen, affected, matches, scans, scansOverlap>> /\ ScanGoes(r, rec)
    BY <1>6 DEF ReadTable, ScanRows
  <2>2. /\ rec \in ScanRecord /\ rec.at = "reading" /\ rec.left = Table
        /\ rec.time = scan[r].time /\ rec.listed = scan[r].listed
    BY <2>1 DEF ScanRecord, Table
  <2>3. scan'[r] = rec /\ Table' = Table
    BY <2>1, <2>2, ScanGoesOn DEF Table
  <2>4. OwnsTable(r) => OwnsTable(r)'
    BY <2>1, <2>2, <2>3 DEF OwnsTable
  <2> QED
    BY <2>1, <2>2, <2>4, ScanStepKeeps
<1>7. ASSUME NEW r \in ScanRequests, ReadMatches(r) PROVE ScanRows' /\ ScanAlone'
  <2> DEFINE rec == [scan[r] EXCEPT !.at = "comparing", !.had = matches \cap scan[r].left]
  <2>1. /\ scan[r] \in ScanRecord /\ scan[r].at = "reading" /\ matches \in SUBSET Table
        /\ UNCHANGED <<lastSeen, affected, matches, scans, scansOverlap>> /\ ScanGoes(r, rec)
    BY <1>7 DEF ReadMatches, ScanRows
  <2>2. /\ rec \in ScanRecord /\ rec.at = "comparing" /\ rec.left = scan[r].left
        /\ rec.time = scan[r].time /\ rec.listed = scan[r].listed
        /\ rec.had = matches \cap scan[r].left
    BY <2>1 DEF ScanRecord, Table
  <2>3. scan'[r] = rec /\ Table' = Table
    BY <2>1, <2>2, ScanGoesOn DEF Table
  <2>4. OwnsTable(r) => OwnsTable(r)'
    BY <2>1, <2>2, <2>3 DEF OwnsTable
  <2> QED
    BY <2>1, <2>2, <2>4, ScanStepKeeps
<1>8. ASSUME NEW r \in ScanRequests, Match(r) PROVE ScanRows' /\ ScanAlone'
  <2> DEFINE rec == [scan[r] EXCEPT !.at = "matching", !.known = affected,
                       !.left = (scan[r].left \cap affected) \ scan[r].had, !.had = Outdated(r)]
  <2>1. /\ scan[r] \in ScanRecord /\ scan[r].at = "comparing" /\ matches \in SUBSET Table
        /\ UNCHANGED <<lastSeen, affected, matches, scans, scansOverlap>> /\ ScanGoes(r, rec)
        /\ affected \in SUBSET Packages
    BY <1>8 DEF Match, ScanRows
  <2>2. /\ rec \in ScanRecord /\ rec.at = "matching" /\ rec.known = affected
        /\ rec.time = scan[r].time /\ rec.listed = scan[r].listed
        /\ rec.left = (scan[r].left \cap affected) \ scan[r].had
        /\ rec.had = scan[r].had \ affected
    BY <2>1 DEF ScanRecord, Outdated
  <2>3. scan'[r] = rec /\ Table' = Table
    BY <2>1, <2>2, ScanGoesOn DEF Table
  <2>4. OwnsTable(r) => OwnsTable(r)'
    <3> SUFFICES ASSUME OwnsTable(r) PROVE OwnsTable(r)'
      OBVIOUS
    <3>1. /\ scan[r].left = Table /\ scan[r].had = matches /\ scan[r].time = scans
          /\ scan[r].listed # {} => Table = scan[r].listed
      BY <2>1 DEF OwnsTable
    <3>2. /\ rec.left \cap matches = {} /\ rec.left \subseteq Table /\ rec.had \subseteq matches
          /\ rec.left \cup (matches \ rec.had) = Table \cap rec.known /\ rec.had \cap rec.known = {}
      BY <2>1, <2>2, <3>1
    <3> HIDE DEF rec
    <3> QED
      BY <2>1, <2>2, <2>3, <3>1, <3>2 DEF OwnsTable
  <2> QED
    BY <2>1, <2>2, <2>4, ScanStepKeeps
<1>9. ASSUME NEW r \in ScanRequests, NEW chunk \in SUBSET Packages, CreateMatches(r, chunk),
             chunk \cap matches = {}, chunk \subseteq Table
      PROVE  ScanRows' /\ ScanAlone'
  <2> DEFINE rec == [scan[r] EXCEPT !.left = @ \ chunk]
  <2>1. /\ scan[r] \in ScanRecord /\ scan[r].at = "matching" /\ matches \in SUBSET Table
        /\ chunk \subseteq scan[r].left /\ matches' = matches \cup chunk
        /\ UNCHANGED <<lastSeen, affected, scans, scansOverlap>> /\ ScanGoes(r, rec)
    BY <1>9 DEF CreateMatches, ScanRows
  <2>2. /\ rec \in ScanRecord /\ rec.at = "matching" /\ rec.known = scan[r].known
        /\ rec.time = scan[r].time /\ rec.listed = scan[r].listed
        /\ rec.left = scan[r].left \ chunk /\ rec.had = scan[r].had
    BY <2>1 DEF ScanRecord
  <2>3. scan'[r] = rec /\ Table' = Table
    BY <2>1, <2>2, ScanGoesOn DEF Table
  <2>4. OwnsTable(r) => OwnsTable(r)'
    <3> SUFFICES ASSUME OwnsTable(r) PROVE OwnsTable(r)'
      OBVIOUS
    <3>1. /\ scan[r].left \cap matches = {} /\ scan[r].left \subseteq Table
          /\ scan[r].had \subseteq matches /\ scan[r].had \cap scan[r].known = {}
          /\ scan[r].left \cup (matches \ scan[r].had) = Table \cap scan[r].known
          /\ scan[r].time = scans /\ (scan[r].listed # {} => Table = scan[r].listed)
      BY <2>1 DEF OwnsTable
    <3>2. /\ rec.left \cap matches' = {} /\ rec.left \subseteq Table /\ rec.had \subseteq matches'
          /\ rec.left \cup (matches' \ rec.had) = Table \cap rec.known /\ rec.had \cap rec.known = {}
      BY <2>1, <2>2, <3>1
    <3> HIDE DEF rec
    <3> QED
      BY <2>1, <2>2, <2>3, <3>1, <3>2 DEF OwnsTable
  <2>5. matches' \in SUBSET Table
    BY <1>9, <2>1
  <2> QED
    BY <2>1, <2>2, <2>4, <2>5, ScanStepKeeps
<1>10. ASSUME NEW r \in ScanRequests, NEW chunk \in SUBSET Packages, DeleteMatches(r, chunk)
       PROVE  ScanRows' /\ ScanAlone'
  <2> DEFINE rec == [scan[r] EXCEPT !.had = @ \ chunk]
  <2>1. /\ scan[r] \in ScanRecord /\ scan[r].at = "matching" /\ matches \in SUBSET Table
        /\ chunk \subseteq scan[r].had /\ scan[r].left = {} /\ matches' = matches \ chunk
        /\ UNCHANGED <<lastSeen, affected, scans, scansOverlap>> /\ ScanGoes(r, rec)
    BY <1>10 DEF DeleteMatches, ScanRows
  <2>2. /\ rec \in ScanRecord /\ rec.at = "matching" /\ rec.known = scan[r].known
        /\ rec.time = scan[r].time /\ rec.listed = scan[r].listed
        /\ rec.left = {} /\ rec.had = scan[r].had \ chunk
    BY <2>1 DEF ScanRecord
  <2>3. scan'[r] = rec /\ Table' = Table
    BY <2>1, <2>2, ScanGoesOn DEF Table
  <2>4. OwnsTable(r) => OwnsTable(r)'
    <3> SUFFICES ASSUME OwnsTable(r) PROVE OwnsTable(r)'
      OBVIOUS
    <3>1. /\ scan[r].had \subseteq matches /\ scan[r].had \cap scan[r].known = {}
          /\ matches \ scan[r].had = Table \cap scan[r].known
          /\ scan[r].time = scans /\ (scan[r].listed # {} => Table = scan[r].listed)
      BY <2>1 DEF OwnsTable
    <3>2. /\ rec.had \subseteq matches' /\ rec.had \cap rec.known = {}
          /\ matches' \ rec.had = Table \cap rec.known
      BY <2>1, <2>2, <3>1
    <3> HIDE DEF rec
    <3> QED
      BY <2>1, <2>2, <2>3, <3>1, <3>2 DEF OwnsTable
  <2>5. matches' \in SUBSET Table
    BY <2>1
  <2> QED
    BY <2>1, <2>2, <2>4, <2>5, ScanStepKeeps
<1>11. ASSUME NEW r \in ScanRequests, Matched(r) PROVE ScanRows' /\ ScanAlone'
  <2> DEFINE rec == [scan[r] EXCEPT !.at = "matched"]
  <2>1. /\ scan[r] \in ScanRecord /\ scan[r].at = "matching" /\ matches \in SUBSET Table
        /\ scan[r].left = {} /\ scan[r].had = {}
        /\ UNCHANGED <<lastSeen, affected, matches, scans, scansOverlap>> /\ ScanGoes(r, rec)
    BY <1>11 DEF Matched, ScanRows
  <2>2. /\ rec \in ScanRecord /\ rec.at = "matched" /\ rec.known = scan[r].known
        /\ rec.time = scan[r].time /\ rec.listed = scan[r].listed
    BY <2>1 DEF ScanRecord
  <2>3. scan'[r] = rec /\ Table' = Table
    BY <2>1, <2>2, ScanGoesOn DEF Table
  <2>4. OwnsTable(r) => OwnsTable(r)'
    BY <2>1, <2>2, <2>3 DEF OwnsTable
  <2> QED
    BY <2>1, <2>2, <2>4, ScanStepKeeps
<1>12. ASSUME NEW r \in ScanRequests, scan[r].at # "idle", ScanGoes(r, NoScan),
              UNCHANGED <<lastSeen, affected, matches, scans, scansOverlap>>
       PROVE  ScanRows' /\ ScanAlone'
  <2>1. NoScan \in ScanRecord /\ NoScan.at = "idle"
    BY DEF NoScan, ScanRecord
  <2>2. scan'[r] = NoScan /\ matches' \in SUBSET Table
    BY <1>12, <2>1, ScanGoesOn DEF ScanRows
  <2>3. OwnsTable(r)'
    BY <2>1, <2>2 DEF OwnsTable
  <2> QED
    BY <1>12, <2>1, <2>2, <2>3, ScanStepKeeps
<1>13. ASSUME NEW r \in ScanRequests,
              \/ Answer(r) \/ Fail(r)
              \/ \E chunk \in SUBSET Packages :
                    CreateMatches(r, chunk) /\ ~ (chunk \cap matches = {} /\ chunk \subseteq Table)
       PROVE  ScanRows' /\ ScanAlone'
  <2>1. /\ scan[r].at # "idle" /\ ScanGoes(r, NoScan)
        /\ UNCHANGED <<lastSeen, affected, matches, scans, scansOverlap>>
    BY <1>13 DEF Answer, Fail, CreateMatches
  <2> QED
    BY <2>1, <1>12
<1> QED
  BY <1>1, <1>2, <1>3, <1>4, <1>5, <1>6, <1>7, <1>8, <1>9, <1>10, <1>11, <1>13 DEF ScanNext

\* THEOREM.  Whatever earlier scans left half-way, a scan that had the table for
\* itself leaves the packages it listed and no others past its removal, if it
\* listed any, and when its matching is done, in however many chunks and whatever
\* CVEs the mirror writes meanwhile, the matches of the packages that were
\* affected when it read the CVEs and no others (api/agent/scan,
\* vulnerability-scanner).
THEOREM TableIsTheScanHolds == ScanSpec => []TableIsTheScan
<1>1. ScanRows /\ ScanAlone => TableIsTheScan
  BY DEF ScanAlone, OwnsTable, TableIsTheScan
<1> QED
  BY <1>1, ScanInvInit, ScanInvKept, PTL DEF ScanSpec

-----------------------------------------------------------------------------
(* The progress of a scan (ScanProgress).                                  *)

Underway == {"working", "storing", "scanned", "storing last", "posting", "unannounced"}
InProgress == \E s \in Scans : phase[s] \in Underway

ProgressTypes ==
  /\ phase \in [Scans -> Underway \cup {"idle", "deleting"}]
  /\ timers \in Nat /\ clearing \in Nat
  /\ memory \in BOOLEAN /\ stored \in BOOLEAN /\ shown \in BOOLEAN /\ triggering \in BOOLEAN
  /\ fetch \in [Fetches -> [at : {"none", "asked", "reading", "answered"},
                            progress : BOOLEAN, old : BOOLEAN]]

\* A scan whose timer is not armed yet.
ToBeForgotten == {"working", "storing", "scanned", "unannounced"}

Kept == mishap \cap {"unfinished", "cut", "kept", "slow"} # {}

\* What is in memory, or in the row, is forgotten by a timer that is armed, by
\* one that a scan will arm or by the result of a scan.
ForgottenByTimer ==
  /\ "unfinished" \notin mishap /\ memory =>
       timers > 0 \/ \E s \in Scans : phase[s] \in ToBeForgotten
  /\ ~ Kept =>
       /\ stored => timers + clearing > 0
                    \/ \E s \in Scans : phase[s] \in ToBeForgotten \cup {"deleting"}
       /\ (\E s \in Scans : phase[s] = "storing last") => timers + clearing > 0

\* What is known of a scan is known while it is under way.
KnownWhileUnderway ==
  mishap = {} =>
    /\ memory \/ shown \/ triggering => InProgress
    /\ stored => InProgress \/ \E s \in Scans : phase[s] = "deleting"
    /\ \A f \in Fetches :
          fetch[f].at = "answered" /\ fetch[f].progress /\ ~ fetch[f].old => InProgress

ProgressInv == ProgressTypes /\ ForgottenByTimer /\ KnownWhileUnderway

LEMMA ProgressInvInit == ProgressInit => ProgressInv
<1> SUFFICES ASSUME ProgressInit PROVE ProgressInv
  OBVIOUS
<1>1. ProgressTypes
  BY DEF ProgressInit, NoFetch, ProgressTypes
<1>2. ~ memory /\ ~ stored /\ ~ shown /\ ~ triggering /\ \A s \in Scans : phase[s] = "idle"
  BY DEF ProgressInit
<1>3. \A f \in Fetches : fetch[f].at = "none"
  BY DEF ProgressInit, NoFetch
<1> QED
  BY <1>1, <1>2, <1>3 DEF ProgressInv, ForgottenByTimer, Kept, ToBeForgotten, KnownWhileUnderway

\* A step of a scan leaves the other scans where they are.
LEMMA PhaseGoesOn ==
  ASSUME ProgressTypes, NEW s \in Scans, NEW to \in Underway \cup {"idle", "deleting"},
         phase' = [phase EXCEPT ![s] = to]
  PROVE  /\ phase' \in [Scans -> Underway \cup {"idle", "deleting"}] /\ phase'[s] = to
         /\ \A o \in Scans : o # s => phase'[o] = phase[o]
BY DEF ProgressTypes

LEMMA ProgressStepKeeps ==
  ASSUME ProgressInv, NEW s \in Scans,
         \/ ScheduledScan(s) \/ ProgressArrives(s) \/ ProgressStored(s)
         \/ FinalizingArrives(s) \/ FinalizingStored(s) \/ RowDeleted(s) \/ ScanFails(s)
         \/ AgentDies(s) \/ TriggerScan(s) \/ PostLost(s)
  PROVE  ProgressInv'
<1>1. CASE ScheduledScan(s)
  <2>1. /\ phase[s] = "idle" /\ phase' = [phase EXCEPT ![s] = "working"]
        /\ UNCHANGED <<memory, stored, timers, clearing, mishap, shown, triggering, fetch>>
    BY <1>1 DEF ScheduledScan, StartsScan, PhaseFrom, PageAsIs
  <2>2. /\ phase' \in [Scans -> Underway \cup {"idle", "deleting"}] /\ phase'[s] = "working"
        /\ \A o \in Scans : o # s => phase'[o] = phase[o]
    BY <2>1, PhaseGoesOn DEF ProgressInv, Underway
  <2> QED
    BY <2>1, <2>2 DEF ProgressInv, ProgressTypes, ForgottenByTimer, Kept, ToBeForgotten, KnownWhileUnderway, InProgress, Underway
<1>2. CASE ProgressArrives(s)
  <2>1. /\ phase[s] = "working" /\ phase' = [phase EXCEPT ![s] = "storing"]
        /\ shown' = TRUE /\ memory' = TRUE
        /\ UNCHANGED <<stored, timers, clearing, triggering, fetch, mishap>>
    BY <1>2 DEF ProgressArrives, PhaseFrom
  <2>2. /\ phase' \in [Scans -> Underway \cup {"idle", "deleting"}] /\ phase'[s] = "storing"
        /\ \A o \in Scans : o # s => phase'[o] = phase[o]
    BY <2>1, PhaseGoesOn DEF ProgressInv, Underway
  <2> QED
    BY <2>1, <2>2 DEF ProgressInv, ProgressTypes, ForgottenByTimer, Kept, ToBeForgotten, KnownWhileUnderway, InProgress, Underway
<1>3. CASE ProgressStored(s)
  <2>1. /\ phase[s] = "storing" /\ phase' = [phase EXCEPT ![s] = "scanned"]
        /\ stored' \in {TRUE, stored}
        /\ UNCHANGED <<memory, timers, clearing, mishap, shown, triggering, fetch>>
    BY <1>3 DEF ProgressStored, PhaseFrom, PageAsIs
  <2>2. /\ phase' \in [Scans -> Underway \cup {"idle", "deleting"}] /\ phase'[s] = "scanned"
        /\ \A o \in Scans : o # s => phase'[o] = phase[o]
    BY <2>1, PhaseGoesOn DEF ProgressInv, Underway
  <2> QED
    BY <2>1, <2>2 DEF ProgressInv, ProgressTypes, ForgottenByTimer, Kept, ToBeForgotten, KnownWhileUnderway, InProgress, Underway
<1>4. CASE FinalizingArrives(s)
  <2>1. /\ phase[s] = "scanned" /\ phase' = [phase EXCEPT ![s] = "storing last"]
        /\ shown' = TRUE /\ timers' = timers + 1
        /\ UNCHANGED <<memory, stored, clearing, triggering, fetch, mishap>>
    BY <1>4 DEF FinalizingArrives, PhaseFrom
  <2>2. /\ phase' \in [Scans -> Underway \cup {"idle", "deleting"}] /\ phase'[s] = "storing last"
        /\ \A o \in Scans : o # s => phase'[o] = phase[o]
    BY <2>1, PhaseGoesOn DEF ProgressInv, Underway
  <2>3. timers' \in Nat /\ timers' > 0 /\ timers' + clearing > 0
    <3>1. timers \in Nat /\ clearing \in Nat
      BY DEF ProgressInv, ProgressTypes
    <3>2. timers' = timers + 1
      BY <2>1
    <3> QED
      BY <3>1, <3>2
  <2>4. ProgressTypes'
    BY <2>1, <2>2, <2>3 DEF ProgressInv, ProgressTypes
  <2>5. ForgottenByTimer'
    BY <2>1, <2>3 DEF ForgottenByTimer
  <2>6. InProgress'
    BY <2>2 DEF InProgress, Underway
  <2> QED
    BY <2>4, <2>5, <2>6 DEF ProgressInv, KnownWhileUnderway
<1>5. CASE FinalizingStored(s)
  <2>1. /\ phase[s] = "storing last" /\ phase' = [phase EXCEPT ![s] = "posting"]
        /\ stored' \in {TRUE, stored}
        /\ UNCHANGED <<memory, timers, clearing, mishap, shown, triggering, fetch>>
    BY <1>5 DEF FinalizingStored, PhaseFrom, PageAsIs
  <2>2. /\ phase' \in [Scans -> Underway \cup {"idle", "deleting"}] /\ phase'[s] = "posting"
        /\ \A o \in Scans : o # s => phase'[o] = phase[o]
    BY <2>1, PhaseGoesOn DEF ProgressInv, Underway
  <2> QED
    BY <2>1, <2>2 DEF ProgressInv, ProgressTypes, ForgottenByTimer, Kept, ToBeForgotten, KnownWhileUnderway, InProgress, Underway
<1>6. CASE RowDeleted(s)
  <2>1. /\ phase[s] = "deleting" /\ phase' = [phase EXCEPT ![s] = "idle"]
        /\ stored' = FALSE
        /\ UNCHANGED <<memory, timers, clearing, mishap, shown, triggering, fetch>>
    BY <1>6 DEF RowDeleted, PhaseFrom, PageAsIs
  <2>2. /\ phase' \in [Scans -> Underway \cup {"idle", "deleting"}] /\ phase'[s] = "idle"
        /\ \A o \in Scans : o # s => phase'[o] = phase[o]
    BY <2>1, PhaseGoesOn DEF ProgressInv
  <2> QED
    BY <2>1, <2>2 DEF ProgressInv, ProgressTypes, ForgottenByTimer, Kept, ToBeForgotten, KnownWhileUnderway, InProgress, Underway
<1>7. CASE ScanFails(s)
  <2>1. /\ phase' = [phase EXCEPT ![s] = "idle"]
        /\ \/ phase[s] = "posting" /\ mishap' = mishap \cup {"failed"}
           \/ phase[s] = "unannounced" /\ mishap' = mishap \cup {"failed", "unfinished"}
        /\ UNCHANGED <<memory, stored, timers, clearing, shown, triggering, fetch>>
    BY <1>7 DEF ScanFails, PhaseFrom, PageAsIs
  <2>2. /\ phase' \in [Scans -> Underway \cup {"idle", "deleting"}] /\ phase'[s] = "idle"
        /\ \A o \in Scans : o # s => phase'[o] = phase[o]
    BY <2>1, PhaseGoesOn DEF ProgressInv
  <2> QED
    BY <2>1, <2>2 DEF ProgressInv, ProgressTypes, ForgottenByTimer, Kept, ToBeForgotten, KnownWhileUnderway, InProgress, Underway
<1>8. CASE AgentDies(s)
  <2>1. /\ phase' = [phase EXCEPT ![s] = "idle"] /\ mishap' = mishap \cup {"failed", "unfinished"}
        /\ UNCHANGED <<memory, stored, timers, clearing, shown, triggering, fetch>>
    BY <1>8 DEF AgentDies, PageAsIs
  <2>2. phase' \in [Scans -> Underway \cup {"idle", "deleting"}]
    BY <2>1, PhaseGoesOn DEF ProgressInv
  <2> QED
    BY <2>1, <2>2 DEF ProgressInv, ProgressTypes, ForgottenByTimer, Kept, ToBeForgotten, KnownWhileUnderway
<1>9. CASE TriggerScan(s)
  <2>1. /\ triggering' = TRUE /\ UNCHANGED <<memory, stored, timers, clearing, shown, fetch>>
        /\ \/ phase[s] = "idle" /\ phase' = [phase EXCEPT ![s] = "working"] /\ mishap' = mishap
           \/ phase' = phase /\ mishap' = mishap \cup {"failed"}
    BY <1>9 DEF TriggerScan, StartsScan, PhaseFrom
  <2>2. CASE phase' = phase /\ mishap' = mishap \cup {"failed"}
    BY <2>1, <2>2 DEF ProgressInv, ProgressTypes, ForgottenByTimer, Kept, ToBeForgotten, KnownWhileUnderway
  <2>3. CASE phase[s] = "idle" /\ phase' = [phase EXCEPT ![s] = "working"] /\ mishap' = mishap
    <3>1. /\ phase' \in [Scans -> Underway \cup {"idle", "deleting"}] /\ phase'[s] = "working"
          /\ \A o \in Scans : o # s => phase'[o] = phase[o]
      BY <2>3, PhaseGoesOn DEF ProgressInv, Underway
    <3> QED
      BY <2>1, <2>3, <3>1
         DEF ProgressInv, ProgressTypes, ForgottenByTimer, Kept, ToBeForgotten, KnownWhileUnderway, InProgress, Underway
  <2> QED
    BY <2>1, <2>2, <2>3
<1>10. CASE PostLost(s)
  <2>1. PICK to \in {"scanned", "unannounced"} :
          phase[s] \in {"working", "scanned"} /\ phase' = [phase EXCEPT ![s] = to]
    BY <1>10 DEF PostLost, PhaseFrom
  <2>2. /\ phase' \in [Scans -> Underway \cup {"idle", "deleting"}] /\ phase'[s] = to
        /\ \A o \in Scans : o # s => phase'[o] = phase[o]
    BY <2>1, PhaseGoesOn DEF ProgressInv, Underway
  <2>3. UNCHANGED <<memory, stored, timers, clearing, mishap, shown, triggering, fetch>>
    BY <1>10 DEF PostLost, PageAsIs
  <2> QED
    BY <2>1, <2>2, <2>3
       DEF ProgressInv, ProgressTypes, ForgottenByTimer, Kept, ToBeForgotten, KnownWhileUnderway,
           InProgress, Underway
<1> QED
  BY <1>1, <1>2, <1>3, <1>4, <1>5, <1>6, <1>7, <1>8, <1>9, <1>10

LEMMA ScanCompletedKeeps ==
  ASSUME ProgressInv, NEW s \in Scans, ScanCompleted(s)
  PROVE  ProgressInv'
<1>1. /\ phase[s] \in {"posting", "unannounced"} /\ phase' = [phase EXCEPT ![s] = "deleting"]
      /\ memory' = FALSE /\ shown' = FALSE /\ triggering' = FALSE
      /\ UNCHANGED <<stored, timers, clearing, mishap>>
  BY DEF ScanCompleted, PhaseFrom
<1>2. PICK f \in Fetches :
        fetch' = [g \in Fetches |-> IF g = f THEN [NoFetch EXCEPT !.at = "asked"]
                                    ELSE [fetch[g] EXCEPT !.old = fetch[g].at # "none"]]
  BY DEF ScanCompleted
<1>3. /\ phase' \in [Scans -> Underway \cup {"idle", "deleting"}] /\ phase'[s] = "deleting"
      /\ \A o \in Scans : o # s => phase'[o] = phase[o]
  BY <1>1, PhaseGoesOn DEF ProgressInv
<1>4. ASSUME NEW g \in Fetches
      PROVE  /\ fetch'[g] \in [at : {"none", "asked", "reading", "answered"},
                               progress : BOOLEAN, old : BOOLEAN]
             /\ fetch'[g].at = "answered" => fetch'[g].old
  BY <1>2 DEF NoFetch, ProgressInv, ProgressTypes
<1>5. fetch' \in [Fetches -> [at : {"none", "asked", "reading", "answered"},
                              progress : BOOLEAN, old : BOOLEAN]]
  BY <1>2, <1>4
<1> QED
  BY <1>1, <1>3, <1>4, <1>5
     DEF ProgressInv, ProgressTypes, ForgottenByTimer, Kept, ToBeForgotten, KnownWhileUnderway, InProgress, Underway

LEMMA TimerKeeps ==
  ASSUME ProgressInv, TimerFires \/ TimerDeletes \/ DeletionFails
  PROVE  ProgressInv'
<1>1. CASE TimerFires
  <2>1. /\ timers' \in Nat /\ clearing' \in Nat /\ timers' + clearing' = timers + clearing
        /\ memory' = FALSE /\ UNCHANGED <<phase, stored, mishap, shown, triggering, fetch>>
    BY <1>1 DEF TimerFires, PageAsIs, ProgressInv, ProgressTypes
  <2>2. ProgressTypes'
    BY <2>1 DEF ProgressInv, ProgressTypes
  <2>3. ForgottenByTimer'
    BY <2>1 DEF ProgressInv, ForgottenByTimer, Kept
  <2>4. KnownWhileUnderway'
    BY <2>1 DEF ProgressInv, KnownWhileUnderway, InProgress
  <2> QED
    BY <2>2, <2>3, <2>4 DEF ProgressInv
<1>2. CASE TimerDeletes
  <2>0. /\ clearing' \in Nat /\ stored' = FALSE
        /\ UNCHANGED <<phase, timers, memory, shown, triggering, fetch>>
    <3>1. clearing \in Nat
      BY DEF ProgressInv, ProgressTypes
    <3>2. /\ clearing > 0 /\ clearing' = clearing - 1 /\ stored' = FALSE
          /\ UNCHANGED <<phase, timers, memory, shown, triggering, fetch>>
      BY <1>2 DEF TimerDeletes, PageAsIs
    <3> QED
      BY <3>1, <3>2
  <2>1. /\ mishap \subseteq mishap'
        /\ (\E s \in Scans : phase[s] = "storing last") => "slow" \in mishap'
    <3>1. CASE \E s \in Scans : phase[s] = "storing last"
      BY <1>2, <3>1 DEF TimerDeletes
    <3>2. CASE ~ \E s \in Scans : phase[s] = "storing last"
      BY <1>2, <3>2 DEF TimerDeletes
    <3> QED
      BY <3>1, <3>2
  <2>2. mishap' = {} => mishap = {}
    BY <2>1
  <2> QED
    BY <2>0, <2>1, <2>2 DEF ProgressInv, ProgressTypes, ForgottenByTimer, Kept, ToBeForgotten, KnownWhileUnderway, InProgress
<1>3. CASE DeletionFails
  <2>1. /\ mishap' = mishap \cup {"kept"}
        /\ UNCHANGED <<memory, stored, timers, shown, triggering, fetch>>
        /\ \/ clearing > 0 /\ clearing' = clearing - 1 /\ phase' = phase
           \/ (\E s \in Scans : PhaseFrom(s, "deleting", "idle")) /\ clearing' = clearing
    BY <1>3 DEF DeletionFails, PageAsIs
  <2>2. clearing' \in Nat
    BY <2>1 DEF ProgressInv, ProgressTypes
  <2>3. /\ phase' \in [Scans -> Underway \cup {"idle", "deleting"}]
        /\ \A s \in Scans : phase'[s] = phase[s] \/ phase[s] = "deleting"
    <3>1. CASE phase' = phase
      BY <3>1 DEF ProgressInv, ProgressTypes
    <3>2. CASE \E s \in Scans : PhaseFrom(s, "deleting", "idle")
      <4>1. PICK s \in Scans : phase[s] = "deleting" /\ phase' = [phase EXCEPT ![s] = "idle"]
        BY <3>2 DEF PhaseFrom
      <4> QED
        BY <4>1, PhaseGoesOn DEF ProgressInv
    <3> QED
      BY <2>1, <3>1, <3>2
  <2>4. ProgressTypes'
    BY <2>1, <2>2, <2>3 DEF ProgressInv, ProgressTypes
  <2>5. ForgottenByTimer' /\ KnownWhileUnderway'
    BY <2>1, <2>3 DEF ProgressInv, ForgottenByTimer, Kept, ToBeForgotten, KnownWhileUnderway
  <2> QED
    BY <2>4, <2>5 DEF ProgressInv
<1> QED
  BY <1>1, <1>2, <1>3

\* After a restart no timer is armed; what is in the row is forgotten by the
\* scans that go on.
LEMMA RestartKeeps ==
  ASSUME ProgressInv, ServerRestarts
  PROVE  ProgressInv'
<1>1. /\ memory' = FALSE /\ timers' = 0 /\ clearing' = 0
      /\ UNCHANGED <<stored, shown, triggering>>
      /\ "restarted" \in mishap' /\ mishap \subseteq mishap'
      /\ stored /\ (\A s \in Scans : phase'[s] = "idle") => "cut" \in mishap'
  BY DEF ServerRestarts
<1>2. phase' = [s \in Scans |->
                 CASE phase[s] = "storing" -> "scanned"
                   [] phase[s] \in {"storing last", "posting"} -> "unannounced"
                   [] phase[s] = "deleting" -> "idle"
                   [] OTHER -> phase[s]]
  BY DEF ServerRestarts
<1>3. ASSUME NEW s \in Scans
      PROVE  phase'[s] \in {"idle", "working", "scanned", "unannounced"}
  <2>1. phase[s] \in Underway \cup {"idle", "deleting"}
    BY DEF ProgressInv, ProgressTypes
  <2>2. phase'[s] = CASE phase[s] = "storing" -> "scanned"
                      [] phase[s] \in {"storing last", "posting"} -> "unannounced"
                      [] phase[s] = "deleting" -> "idle"
                      [] OTHER -> phase[s]
    BY <1>2
  <2> QED
    BY <2>1, <2>2 DEF Underway
<1>4. phase' \in [Scans -> Underway \cup {"idle", "deleting"}]
  BY <1>2, <1>3 DEF Underway
<1>5. fetch' \in [Fetches -> [at : {"none", "asked", "reading", "answered"},
                              progress : BOOLEAN, old : BOOLEAN]]
  BY DEF ServerRestarts, NoFetch, ProgressInv, ProgressTypes
<1>6. ProgressTypes'
  BY <1>1, <1>4, <1>5 DEF ProgressInv, ProgressTypes
<1>7. ForgottenByTimer'
  BY <1>1, <1>3 DEF ForgottenByTimer, Kept, ToBeForgotten
<1>8. KnownWhileUnderway'
  BY <1>1 DEF KnownWhileUnderway
<1> QED
  BY <1>6, <1>7, <1>8 DEF ProgressInv

LEMMA FetchKeeps ==
  ASSUME ProgressInv, NEW f \in Fetches,
         OpenPage(f) \/ ReadMemory(f) \/ ReadRow(f) \/ ApplyFetch(f)
  PROVE  ProgressInv'
<1> DEFINE Fetched == [at : {"none", "asked", "reading", "answered"}, progress : BOOLEAN, old : BOOLEAN]
<1>1. UNCHANGED <<phase, memory, stored, timers, clearing, triggering>>
  BY DEF OpenPage, ReadMemory, ReadRow, ApplyFetch, SetFetch
<1>2. fetch[f] \in Fetched /\ NoFetch \in Fetched
  BY DEF ProgressInv, ProgressTypes, NoFetch
<1>3. PICK r \in Fetched :
        /\ fetch' = [fetch EXCEPT ![f] = r]
        /\ mishap = {} /\ r.at = "answered" /\ r.progress /\ ~ r.old => InProgress
  <2>1. CASE OpenPage(f)
    <3>1. [NoFetch EXCEPT !.at = "asked"] \in Fetched /\ [NoFetch EXCEPT !.at = "asked"].at # "answered"
      BY DEF NoFetch
    <3> QED
      BY <2>1, <3>1 DEF OpenPage, SetFetch
  <2>2. CASE ReadMemory(f)
    <3> DEFINE r == [fetch[f] EXCEPT !.at = IF memory THEN "answered" ELSE "reading", !.progress = memory]
    <3>1. r \in Fetched /\ (r.at = "answered" => memory)
      BY <1>2 DEF ProgressInv, ProgressTypes
    <3>2. fetch' = [fetch EXCEPT ![f] = r]
      BY <2>2 DEF ReadMemory, SetFetch
    <3> QED
      BY <3>1, <3>2 DEF ProgressInv, KnownWhileUnderway
  <2>3. CASE ReadRow(f)
    <3> DEFINE r == [at |-> "answered", progress |-> stored,
                     old |-> fetch[f].old \/ \E s \in Scans : phase[s] = "deleting"]
    <3>1. r \in Fetched /\ r.progress = stored /\ (~ r.old => ~ \E s \in Scans : phase[s] = "deleting")
      BY <1>2 DEF ProgressInv, ProgressTypes
    <3>2. fetch' = [fetch EXCEPT ![f] = r]
      BY <2>3 DEF ReadRow, SetFetch
    <3> QED
      BY <3>1, <3>2 DEF ProgressInv, KnownWhileUnderway
  <2>4. CASE ApplyFetch(f)
    BY <1>2, <2>4 DEF ApplyFetch, SetFetch, NoFetch
  <2> QED
    BY <2>1, <2>2, <2>3, <2>4
<1>4. /\ fetch' \in [Fetches -> Fetched] /\ fetch'[f] = r
      /\ \A g \in Fetches : g # f => fetch'[g] = fetch[g]
  BY <1>3 DEF ProgressInv, ProgressTypes
<1>5. /\ shown' \in BOOLEAN /\ mishap \subseteq mishap'
      /\ Kept => Kept'
      /\ mishap' = {} /\ shown' => InProgress
  <2>1. CASE ApplyFetch(f)
    BY <1>2, <2>1 DEF ApplyFetch, ProgressInv, KnownWhileUnderway, Kept
  <2>2. CASE shown' = shown /\ mishap' = mishap
    BY <2>2 DEF ProgressInv, ProgressTypes, KnownWhileUnderway, Kept
  <2> QED
    BY <2>1, <2>2 DEF OpenPage, ReadMemory, ReadRow
<1>6. ProgressTypes' /\ ForgottenByTimer'
  BY <1>1, <1>4, <1>5 DEF ProgressInv, ProgressTypes, ForgottenByTimer
<1>7. KnownWhileUnderway'
  <2>1. (mishap' = {} => mishap = {}) /\ (InProgress' <=> InProgress)
    BY <1>1, <1>5 DEF InProgress
  <2> QED
    BY <1>1, <1>3, <1>4, <1>5, <2>1 DEF ProgressInv, KnownWhileUnderway
<1> QED
  BY <1>6, <1>7 DEF ProgressInv

LEMMA ProgressInvKept == ProgressInv /\ [ProgressNext]_progressVars => ProgressInv'
<1> SUFFICES ASSUME ProgressInv, [ProgressNext]_progressVars PROVE ProgressInv'
  OBVIOUS
<1>1. CASE UNCHANGED progressVars
  BY <1>1 DEF progressVars, ProgressInv, ProgressTypes, ForgottenByTimer, Kept, ToBeForgotten, KnownWhileUnderway, InProgress
<1> QED
  BY <1>1, ProgressStepKeeps, ScanCompletedKeeps, TimerKeeps, RestartKeeps, FetchKeeps DEF ProgressNext

\* THEOREM.  When the scans are over no progress is left on the server, whichever
\* posts were lost and also when it was restarted, unless neither the last phase
\* nor the result of a scan arrived, the restart left nobody to delete the row, a
\* deletion failed or a write overtook it; and an open page shows none and offers
\* the next scan, unless a result was lost, the server was restarted or an old
\* answer came late (api/agent/scan/progress, app/security/[id]/page.tsx).
THEOREM NoProgressIsLeftHolds == ProgressSpec => []NoProgressIsLeft
<1>1. ProgressInv => NoProgressIsLeft
  <2> SUFFICES ASSUME ProgressInv, ScansOver
               PROVE  /\ ~ Kept => ~ memory /\ ~ stored
                      /\ mishap = {} => ~ triggering /\ ~ shown
    BY DEF NoProgressIsLeft, MayTrigger, Kept
  <2>1. timers = 0 /\ timers + clearing = 0 /\ \A s \in Scans : phase[s] = "idle"
    BY DEF ScansOver
  <2>2. ~ InProgress
    BY <2>1 DEF InProgress, Underway
  <2>3. ~ Kept => ~ memory /\ ~ stored
    <3>1. ~ (timers > 0) /\ ~ (timers + clearing > 0)
          /\ ~ \E s \in Scans : phase[s] \in ToBeForgotten \cup {"deleting"}
      BY <2>1 DEF ToBeForgotten
    <3> QED
      BY <3>1 DEF ProgressInv, ForgottenByTimer, Kept
  <2> QED
    BY <2>2, <2>3 DEF ProgressInv, KnownWhileUnderway
<1> QED
  BY <1>1, ProgressInvInit, ProgressInvKept, PTL DEF ProgressSpec

-----------------------------------------------------------------------------
(* The update of the server (ServerUpdate).                                *)

Phases == {"none", "pulling", "building", "restarting", "completed", "failed"}
PageRecord == [updating : BOOLEAN, phase : Phases, error : BOOLEAN, version : Nat, start : Nat,
               stored : BOOLEAN, polling : BOOLEAN, ticks : Nat, hiding : BOOLEAN]
AnswerRecord == [at : {"none", "pending", "down", "answer"}, phase : Phases, version : Nat]

UpdateTypes ==
  /\ up \in BOOLEAN /\ running \in Nat /\ built \in Nat /\ updates \in Nat /\ reloads \in Nat
  /\ statusFile \in [phase : Phases, recent : BOOLEAN]
  /\ script \in [Updates -> {"none", "started", "pulling", "building", "restarting", "over"}]
  /\ post \in {"none", "sent", "refused", "accepted"}
  /\ page \in PageRecord /\ poll \in [Polls -> AnswerRecord]
  /\ excused \in BOOLEAN /\ late \in BOOLEAN
  /\ updates <= MaxUpdates /\ \A i \in Updates : i > updates => script[i] = "none"
  /\ post = "sent" => updates > 0 /\ script[updates] = "none"

\* A "completed" in the status file is that of the update asked for last.
Fresh == statusFile.phase = "completed" => built = updates

\* The versions: the page starts from the one it was loaded with, and only the
\* script of the update asked for last runs.
VersionsAgree ==
  /\ \A i \in Updates : Alive(i) => i = updates
  /\ page.version <= running /\ running <= built /\ built <= updates
  /\ \A p \in Polls : poll[p].version <= running
  /\ updates > 0 =>
       /\ page.start < updates /\ built \in {page.start, updates} /\ running \in {page.start, built}
       /\ script[updates] = "restarting" => built = updates

\* Whoever may still show an end reads the status of the last update.
AnswersAreFresh ==
  /\ post # "none" => ~ page.polling /\ \A p \in Polls : poll[p] = NoAnswer
  /\ page.polling \/ post = "accepted" \/ (page.stored /\ post = "none") => Fresh
  /\ \A p \in Polls :
        /\ poll[p] # NoAnswer => Fresh
        /\ poll[p].at = "answer" /\ (poll[p].phase = "completed" \/ poll[p].version # page.start) =>
             built = updates
  /\ page.phase = "completed" => built = updates

UpdateInv == UpdateTypes /\ (~ excused => VersionsAgree /\ AnswersAreFresh)

LEMMA StatusOf ==
  ASSUME NEW ph \in Phases, NEW r \in BOOLEAN
  PROVE  [phase |-> ph, recent |-> r] \in [phase : Phases, recent : BOOLEAN]
OBVIOUS

LEMMA UpdateInvInit == UpdateInit => UpdateInv
<1> SUFFICES ASSUME UpdateInit PROVE UpdateInv
  OBVIOUS
<1>1. NoAnswer \in AnswerRecord /\ NoFile \in [phase : Phases, recent : BOOLEAN] /\ NoAnswer.version = 0
      /\ NoAnswer.at = "none"
  BY DEF NoAnswer, AnswerRecord, NoFile, Phases
<1>2. /\ page \in PageRecord /\ page.version = 0 /\ page.phase = "none"
      /\ ~ page.polling /\ ~ page.stored
  BY DEF UpdateInit, PageRecord, Phases
<1>3. statusFile \in [phase : Phases, recent : BOOLEAN]
  <2>1. "completed" \in Phases
    BY DEF Phases
  <2>2. statusFile \in {NoFile, [phase |-> "completed", recent |-> TRUE]}
    BY DEF UpdateInit
  <2> QED
    BY <1>1, <2>1, <2>2, StatusOf
<1>4. /\ up \in BOOLEAN /\ running = 0 /\ built = 0 /\ updates = 0 /\ reloads = 0 /\ post = "none"
      /\ excused = FALSE /\ late = FALSE /\ \A i \in Updates : script[i] = "none"
      /\ script \in [Updates -> {"none", "started", "pulling", "building", "restarting", "over"}]
      /\ poll = [p \in Polls |-> NoAnswer]
  BY DEF UpdateInit
<1>5. UpdateTypes
  <2>1. updates <= MaxUpdates /\ poll \in [Polls -> AnswerRecord]
    BY <1>1, <1>4, UpdateAssumption
  <2>2. up \in BOOLEAN /\ running \in Nat /\ built \in Nat /\ updates \in Nat /\ reloads \in Nat
        /\ post = "none" /\ excused \in BOOLEAN /\ late \in BOOLEAN
    BY <1>4
  <2> QED
    BY <1>2, <1>3, <1>4, <2>1, <2>2 DEF UpdateTypes
<1>6. VersionsAgree
  BY <1>1, <1>2, <1>4 DEF VersionsAgree, Alive
<1>7. AnswersAreFresh
  BY <1>1, <1>2, <1>4 DEF AnswersAreFresh, Fresh
<1> QED
  BY <1>5, <1>6, <1>7 DEF UpdateInv

\* What the script and the server do.
LEMMA ScriptSideKeeps ==
  ASSUME UpdateInv, ScriptSide
  PROVE  UpdateInv'
<1>1. UNCHANGED <<updates, post, page, poll, reloads, excused, late>>
  BY DEF ScriptSide
<1>2. ASSUME NEW i \in Updates, ScriptStep(i)
      PROVE  /\ UpdateTypes'
             /\ VersionsAgree /\ AnswersAreFresh => VersionsAgree' /\ AnswersAreFresh'
  <2>1. Alive(i) /\ running' = running
    BY <1>2 DEF ScriptStep, StopServices, Build, StartService, ScriptCompletes, ScriptEnds, Step, Alive
  <2>2. PICK to \in {"pulling", "building", "restarting", "over"} : script' = [script EXCEPT ![i] = to]
    BY <1>2 DEF ScriptStep, StopServices, Build, StartService, ScriptCompletes, ScriptEnds, Step
  <2>3. /\ script' \in [Updates -> {"none", "started", "pulling", "building", "restarting", "over"}]
        /\ script'[i] = to /\ \A o \in Updates : o # i => script'[o] = script[o]
    BY <2>2 DEF UpdateInv, UpdateTypes
  <2>4. statusFile' \in [phase : Phases, recent : BOOLEAN]
        /\ (statusFile'.phase = "completed" =>
              script[i] = "restarting" \/ statusFile' = statusFile)
    <3>1. statusFile \in [phase : Phases, recent : BOOLEAN]
      BY DEF UpdateInv, UpdateTypes
    <3>2. \/ statusFile' = statusFile
          \/ \E ph \in {"pulling", "building", "restarting", "completed", "failed"} :
                /\ statusFile' = [phase |-> ph, recent |-> TRUE]
                /\ ph = "completed" => script[i] = "restarting"
      BY <1>2 DEF ScriptStep, StopServices, Build, StartService, ScriptCompletes, ScriptEnds, Step,
         WriteStatus
    <3>3. CASE statusFile' = statusFile
      BY <3>1, <3>3
    <3>4. ASSUME NEW ph \in {"pulling", "building", "restarting", "completed", "failed"},
                 statusFile' = [phase |-> ph, recent |-> TRUE],
                 ph = "completed" => script[i] = "restarting"
          PROVE  /\ statusFile' \in [phase : Phases, recent : BOOLEAN]
                 /\ statusFile'.phase = "completed" => script[i] = "restarting"
      <4>1. ph \in Phases
        BY DEF Phases
      <4> QED
        BY <3>4, <4>1, StatusOf
    <3> QED
      BY <3>2, <3>3, <3>4
  <2>5. up' \in BOOLEAN
    BY <1>2 DEF ScriptStep, StopServices, Build, StartService, ScriptCompletes, ScriptEnds,
       UpdateInv, UpdateTypes
  <2>6. /\ built' \in {built, i} /\ (to = "restarting" => built' = i)
        /\ built' # built => script[i] = "building"
    BY <1>2, <2>2, <2>3 DEF ScriptStep, StopServices, Build, StartService, ScriptCompletes, ScriptEnds,
       Step, UpdateInv, UpdateTypes
  <2>7. i \in Nat /\ i <= updates /\ script[i] # "none" /\ updates > 0
    BY <2>1, UpdateAssumption DEF Alive, UpdateInv, UpdateTypes, Updates
  <2>8. UpdateTypes'
    <3>1. built' \in Nat
      BY <2>6, <2>7 DEF UpdateInv, UpdateTypes
    <3>2. /\ \A o \in Updates : o > updates => script'[o] = "none"
          /\ post = "sent" => script'[updates] = "none"
      BY <2>3, <2>7 DEF UpdateInv, UpdateTypes, Updates
    <3> QED
      BY <1>1, <2>1, <2>3, <2>4, <2>5, <3>1, <3>2 DEF UpdateInv, UpdateTypes
  <2>9. ASSUME VersionsAgree, AnswersAreFresh PROVE VersionsAgree' /\ AnswersAreFresh'
    <3>1. i = updates
      BY <2>1, <2>9 DEF VersionsAgree
    <3>2. \A o \in Updates : Alive(o)' => o = updates
      BY <2>3, <2>9, <3>1 DEF VersionsAgree, Alive
    <3>3. built' \in {built, updates} /\ built \in {page.start, updates} /\ page.start < updates
      BY <2>6, <2>7, <2>9, <3>1 DEF VersionsAgree
    <3>4. built' = updates \/ built' = built
      BY <3>3
    <3>5. VersionsAgree'
      BY <1>1, <2>1, <2>3, <2>6, <2>7, <2>9, <3>1, <3>2, <3>3 DEF VersionsAgree, UpdateInv, UpdateTypes
    <3>6. built = updates => built' = updates
      BY <3>3
    <3>7. Fresh => Fresh'
      BY <1>1, <2>4, <2>7, <2>9, <3>1, <3>6 DEF Fresh, VersionsAgree
    <3>8. AnswersAreFresh'
      BY <1>1, <2>9, <3>6, <3>7 DEF AnswersAreFresh
    <3> QED
      BY <3>5, <3>8
  <2> QED
    BY <2>8, <2>9
<1>3. ASSUME ServerBoots
      PROVE  /\ UpdateTypes'
             /\ VersionsAgree /\ AnswersAreFresh => VersionsAgree' /\ AnswersAreFresh'
  <2>1. up' = TRUE /\ running' = built /\ UNCHANGED <<built, statusFile, script>>
    BY <1>3 DEF ServerBoots
  <2>2. UpdateTypes'
    BY <1>1, <2>1 DEF UpdateInv, UpdateTypes
  <2>3. ASSUME VersionsAgree PROVE VersionsAgree'
    BY <1>1, <2>1, <2>3 DEF VersionsAgree, Alive, UpdateInv, UpdateTypes, PageRecord, AnswerRecord
  <2>4. ASSUME AnswersAreFresh PROVE AnswersAreFresh'
    BY <1>1, <2>1, <2>4 DEF AnswersAreFresh, Fresh
  <2> QED
    BY <2>2, <2>3, <2>4
<1>4. ASSUME FileAges
      PROVE  /\ UpdateTypes'
             /\ VersionsAgree /\ AnswersAreFresh => VersionsAgree' /\ AnswersAreFresh'
  <2>1. /\ statusFile' = [statusFile EXCEPT !.recent = FALSE]
        /\ UNCHANGED <<up, running, built, script>>
    BY <1>4 DEF FileAges
  <2>2. statusFile' \in [phase : Phases, recent : BOOLEAN] /\ statusFile'.phase = statusFile.phase
    BY <2>1 DEF UpdateInv, UpdateTypes
  <2>3. UpdateTypes'
    BY <1>1, <2>1, <2>2 DEF UpdateInv, UpdateTypes
  <2>4. ASSUME VersionsAgree, AnswersAreFresh PROVE VersionsAgree' /\ AnswersAreFresh'
    BY <1>1, <2>1, <2>2, <2>4 DEF VersionsAgree, AnswersAreFresh, Fresh, Alive
  <2> QED
    BY <2>3, <2>4
<1> QED
  BY <1>1, <1>2, <1>3, <1>4 DEF ScriptSide, UpdateInv

\* The request to execute.
LEMMA AskUpdateKeeps ==
  ASSUME UpdateInv, AskUpdate
  PROVE  UpdateInv'
<1>1. /\ ~ page.updating /\ post = "none" /\ updates < MaxUpdates
      /\ updates' = updates + 1 /\ post' = "sent"
      /\ page' = [page EXCEPT !.updating = TRUE, !.phase = "pulling", !.error = FALSE,
                              !.start = page.version, !.stored = TRUE]
      /\ UNCHANGED <<up, running, built, statusFile, script, poll, reloads, late>>
  BY DEF AskUpdate, ServerSide
<1>2. excused' = \/ excused \/ page.version # built \/ page.polling
                 \/ \E i \in Updates : Alive(i)
                 \/ \E p \in Polls : poll[p] # NoAnswer
  BY DEF AskUpdate
<1>3. page \in PageRecord /\ "pulling" \in Phases /\ updates \in Nat /\ MaxUpdates \in Nat
  BY UpdateAssumption DEF UpdateInv, UpdateTypes, Phases
<1>4. /\ page' \in PageRecord /\ page'.version = page.version /\ page'.start = page.version
      /\ page'.polling = page.polling /\ page'.phase = "pulling"
  BY <1>1, <1>3 DEF PageRecord
<1>5. UpdateTypes'
  <2>1. updates' \in Nat /\ updates' > 0 /\ updates' <= MaxUpdates /\ updates' \in Updates
    BY <1>1, <1>3 DEF Updates
  <2>2. script[updates'] = "none" /\ \A i \in Updates : i > updates' => script[i] = "none"
    BY <1>1, <1>3, <2>1 DEF UpdateInv, UpdateTypes, Updates
  <2>3. excused' \in BOOLEAN
    BY <1>2 DEF UpdateInv, UpdateTypes
  <2> QED
    BY <1>1, <1>4, <2>1, <2>2, <2>3 DEF UpdateInv, UpdateTypes
<1>6. ASSUME ~ excused' PROVE VersionsAgree' /\ AnswersAreFresh'
  <2>1. /\ ~ excused /\ page.version = built /\ ~ page.polling /\ \A i \in Updates : ~ Alive(i)
        /\ \A p \in Polls : poll[p] = NoAnswer
    BY <1>2, <1>6
  <2>2. VersionsAgree /\ AnswersAreFresh
    BY <2>1 DEF UpdateInv
  <2>3. \A i \in Updates : ~ Alive(i)'
    BY <1>1, <2>1 DEF Alive
  <2>4. built <= running /\ running <= built /\ built <= updates
        /\ built \in Nat /\ running \in Nat
    BY <2>1, <2>2 DEF VersionsAgree, UpdateInv, UpdateTypes
  <2>5. running = built /\ built < updates'
    BY <1>1, <1>3, <2>4
  <2>6. script'[updates'] # "restarting"
    <3>1. updates' \in Updates
      BY <1>1, <1>3 DEF Updates
    <3> QED
      BY <2>3, <3>1 DEF Alive
  <2>7. VersionsAgree'
    BY <1>1, <1>3, <1>4, <2>1, <2>2, <2>3, <2>4, <2>5, <2>6 DEF VersionsAgree
  <2>8. AnswersAreFresh'
    <3>1. NoAnswer.at = "none"
      BY DEF NoAnswer
    <3> QED
      BY <1>1, <1>4, <2>1, <3>1 DEF AnswersAreFresh
  <2> QED
    BY <2>7, <2>8
<1> QED
  BY <1>5, <1>6 DEF UpdateInv

LEMMA RequestKeeps ==
  ASSUME UpdateInv, Refuse \/ ExecuteUpdate
  PROVE  UpdateInv'
<1>1. CASE Refuse
  BY <1>1 DEF Refuse, ServerSide, UpdateInv, UpdateTypes, VersionsAgree, AnswersAreFresh, Alive, Fresh
<1>2. CASE ExecuteUpdate
  <2>1. /\ post = "sent" /\ post' = "accepted" /\ statusFile' = NoFile
        /\ script' = [script EXCEPT ![updates] = "started"]
        /\ UNCHANGED <<up, running, built, updates, page, poll, reloads, excused, late>>
    BY <1>2 DEF ExecuteUpdate, ServerSide, ClearedStatus
  <2>2. updates \in Updates /\ updates \in Nat /\ script[updates] = "none"
    BY <2>1, UpdateAssumption DEF UpdateInv, UpdateTypes, Updates
  <2>3. /\ script' \in [Updates -> {"none", "started", "pulling", "building", "restarting", "over"}]
        /\ script'[updates] = "started"
        /\ \A i \in Updates : i # updates => script'[i] = script[i]
    BY <2>1, <2>2 DEF UpdateInv, UpdateTypes
  <2>4. statusFile' \in [phase : Phases, recent : BOOLEAN] /\ Fresh'
    BY <2>1 DEF NoFile, Phases, Fresh
  <2>5. UpdateTypes'
    BY <2>1, <2>2, <2>3, <2>4 DEF UpdateInv, UpdateTypes, Updates
  <2>6. ASSUME VersionsAgree PROVE VersionsAgree'
    BY <2>1, <2>3, <2>6 DEF VersionsAgree, Alive
  <2>7. ASSUME AnswersAreFresh PROVE AnswersAreFresh'
    BY <2>1, <2>4, <2>7 DEF AnswersAreFresh
  <2> QED
    BY <2>1, <2>5, <2>6, <2>7 DEF UpdateInv
<1> QED
  BY <1>1, <1>2

\* What the page does with itself: it keeps its versions, shows no end it has
\* not shown, and polls only for the update asked for last.
PageKeeps(p) ==
  /\ p \in PageRecord /\ p.version = page.version /\ p.start = page.start
  /\ p.phase = "completed" => page.phase = "completed"

LEMMA PageMoves ==
  ASSUME UpdateInv, PageKeeps(page'), post' \in {post, "none"},
         UNCHANGED <<up, running, built, updates, statusFile, script, poll, reloads, excused, late>>,
         page'.polling => page.polling \/ post' = "none",
         page'.polling \/ (page'.stored /\ post' = "none") =>
           page.polling \/ post = "accepted" \/ (page.stored /\ post = "none")
  PROVE  UpdateInv'
<1>1. UpdateTypes'
  BY DEF PageKeeps, UpdateInv, UpdateTypes
<1>2. ASSUME VersionsAgree PROVE VersionsAgree'
  BY <1>2 DEF VersionsAgree, PageKeeps, Alive
<1>3. ASSUME AnswersAreFresh PROVE AnswersAreFresh'
  BY <1>3 DEF AnswersAreFresh, PageKeeps, Fresh
<1> QED
  BY <1>1, <1>2, <1>3 DEF UpdateInv

LEMMA AnswerKeeps ==
  ASSUME UpdateInv, PostAccepted \/ PostFails
  PROVE  UpdateInv'
<1>1. page \in PageRecord /\ "building" \in Phases /\ 0 \in Nat
  BY DEF UpdateInv, UpdateTypes, Phases
<1>2. /\ post' = "none"
      /\ UNCHANGED <<up, running, built, updates, statusFile, script, poll, reloads, excused, late>>
  BY DEF PostAccepted, PostFails, Answered, ServerSide
<1>3. CASE PostAccepted
  <2>1. /\ post = "accepted"
        /\ page' = [[page EXCEPT !.stored = TRUE, !.phase = "building"] EXCEPT !.polling = TRUE, !.ticks = 0]
    BY <1>3 DEF PostAccepted, Answered, StartPolling
  <2>2. PageKeeps(page')
    BY <1>1, <2>1 DEF PageKeeps, PageRecord
  <2> QED
    BY <1>2, <2>1, <2>2, PageMoves
<1>4. CASE PostFails
  <2>1. page' = [page EXCEPT !.error = TRUE, !.stored = FALSE]
    BY <1>4 DEF PostFails, Answered
  <2>2. PageKeeps(page') /\ page'.polling = page.polling /\ ~ page'.stored
    BY <1>1, <2>1 DEF PageKeeps, PageRecord
  <2> QED
    BY <1>2, <2>2, PageMoves
<1> QED
  BY <1>3, <1>4

LEMMA CloseKeeps ==
  ASSUME UpdateInv, Close
  PROVE  UpdateInv'
<1>1. page \in PageRecord /\ "none" \in Phases
  BY DEF UpdateInv, UpdateTypes, Phases
<1>2. UNCHANGED <<up, running, built, updates, statusFile, script, post, poll, reloads, excused, late>>
  BY DEF Close, ServerSide
<1>3. PageKeeps(page') /\ page'.polling = page.polling /\ page'.stored = page.stored
  <2>1. CASE page' = [page EXCEPT !.updating = FALSE, !.phase = "none",
                                  !.error = page.phase = "completed" /\ @]
    BY <1>1, <2>1 DEF PageKeeps, PageRecord
  <2>2. CASE page' = [page EXCEPT !.updating = FALSE, !.phase = "none", !.hiding = FALSE]
    BY <1>1, <2>2 DEF PageKeeps, PageRecord
  <2> QED
    BY <2>1, <2>2 DEF Close
<1> QED
  BY <1>2, <1>3, PageMoves

LEMMA ReloadKeeps ==
  ASSUME UpdateInv, NEW old \in BOOLEAN, Reload(old)
  PROVE  UpdateInv'
<1> DEFINE fresh == [page EXCEPT !.version = running, !.error = FALSE, !.hiding = FALSE, !.polling = FALSE]
           taken == [fresh EXCEPT !.updating = TRUE, !.phase = "restarting"]
<1>1. /\ post' = "none" /\ poll' = [p \in Polls |-> NoAnswer] /\ reloads' = reloads + 1
      /\ excused' = (excused \/ post # "none")
      /\ UNCHANGED <<up, running, built, updates, statusFile, script, late>>
  BY DEF Reload, ServerSide
<1>2. page' = IF page.stored /\ ~ old THEN [taken EXCEPT !.polling = TRUE, !.ticks = 0]
              ELSE [fresh EXCEPT !.updating = FALSE, !.phase = "none", !.stored = FALSE]
  BY DEF Reload, StartPolling
<1>3. page \in PageRecord /\ {"restarting", "none"} \subseteq Phases /\ running \in Nat
  BY DEF UpdateInv, UpdateTypes, Phases
<1>4. /\ page' \in PageRecord /\ page'.version = running /\ page'.start = page.start
      /\ page'.phase # "completed" /\ (page'.polling \/ page'.stored => page.stored)
  BY <1>2, <1>3 DEF PageRecord
<1>5. NoAnswer \in AnswerRecord /\ NoAnswer.at = "none" /\ NoAnswer.version = 0
  BY DEF NoAnswer, AnswerRecord, Phases
<1>6. UpdateTypes'
  BY <1>1, <1>4, <1>5 DEF UpdateInv, UpdateTypes
<1>7. ASSUME ~ excused' PROVE VersionsAgree' /\ AnswersAreFresh'
  <2>1. ~ excused /\ post = "none"
    BY <1>1, <1>7
  <2>2. VersionsAgree /\ AnswersAreFresh
    BY <2>1 DEF UpdateInv
  <2>3. VersionsAgree'
    BY <1>1, <1>3, <1>4, <1>5, <2>2 DEF VersionsAgree, Alive
  <2>4. AnswersAreFresh'
    BY <1>1, <1>4, <1>5, <2>1, <2>2 DEF AnswersAreFresh, Fresh
  <2> QED
    BY <2>3, <2>4
<1> QED
  BY <1>6, <1>7 DEF UpdateInv

LEMMA TickKeeps ==
  ASSUME UpdateInv, Tick
  PROVE  UpdateInv'
<1>1. page \in PageRecord /\ "none" \in Phases /\ page.polling
  BY DEF UpdateInv, UpdateTypes, Phases, Tick
<1>2. UNCHANGED <<up, running, built, updates, statusFile, script, post, reloads, excused, late>>
  BY DEF Tick, ServerSide
<1>3. PageKeeps(page') /\ (page'.polling => page.polling) /\ (page'.stored => page.stored)
  <2>1. CASE page' = [page EXCEPT !.polling = FALSE, !.phase = "none", !.error = TRUE, !.stored = FALSE]
    BY <1>1, <2>1 DEF PageKeeps, PageRecord
  <2>2. CASE page' = [page EXCEPT !.ticks = IF @ < MaxTicks THEN @ + 1 ELSE @]
    BY <1>1, <2>2 DEF PageKeeps, PageRecord
  <2> QED
    BY <2>1, <2>2 DEF Tick
<1>4. CASE poll' = poll
  <2>1. /\ page'.polling => page.polling \/ post' = "none"
        /\ page'.polling \/ (page'.stored /\ post' = "none") =>
             page.polling \/ post = "accepted" \/ (page.stored /\ post = "none")
        /\ post' \in {post, "none"}
    BY <1>1, <1>2
  <2> QED
    BY <1>2, <1>3, <1>4, <2>1, PageMoves
<1>5. ASSUME NEW p \in Polls, poll[p] = NoAnswer, poll' = [poll EXCEPT ![p].at = "pending"]
      PROVE  UpdateInv'
  <2>1. /\ poll'[p] = [NoAnswer EXCEPT !.at = "pending"]
        /\ \A q \in Polls : q # p => poll'[q] = poll[q]
    BY <1>5 DEF UpdateInv, UpdateTypes
  <2>2. poll'[p].at = "pending" /\ poll'[p].version = 0 /\ poll'[p] \in AnswerRecord
    BY <2>1 DEF NoAnswer, AnswerRecord, Phases
  <2>3. poll' \in [Polls -> AnswerRecord]
    BY <1>5, <2>2 DEF UpdateInv, UpdateTypes
  <2>4. UpdateTypes'
    BY <1>2, <1>3, <2>3 DEF PageKeeps, UpdateInv, UpdateTypes
  <2>5. ASSUME VersionsAgree PROVE VersionsAgree'
    <3>1. running \in Nat
      BY DEF UpdateInv, UpdateTypes
    <3>2. ASSUME NEW q \in Polls PROVE poll'[q].version <= running
      <4>1. CASE q = p
        BY <2>2, <3>1, <4>1
      <4>2. CASE q # p
        <5>1. poll'[q] = poll[q] /\ poll[q].version <= running
          BY <2>1, <2>5, <4>2 DEF VersionsAgree
        <5> QED
          BY <5>1
      <4> QED
        BY <4>1, <4>2
    <3>3. page'.version = page.version /\ page'.start = page.start
      BY <1>3 DEF PageKeeps
    <3> QED
      BY <1>2, <2>5, <3>2, <3>3 DEF VersionsAgree, Alive
  <2>6. ASSUME AnswersAreFresh PROVE AnswersAreFresh'
    <3>1. post = "none" /\ Fresh
      BY <1>1, <2>6 DEF AnswersAreFresh
    <3> QED
      BY <1>1, <1>2, <1>3, <2>1, <2>2, <2>6, <3>1 DEF AnswersAreFresh, PageKeeps, Fresh
  <2> QED
    BY <1>2, <2>4, <2>5, <2>6 DEF UpdateInv
<1> QED
  BY <1>4, <1>5 DEF Tick

\* check answers a poll, or nobody does.
LEMMA PollAnsweredKeeps ==
  ASSUME UpdateInv, NEW p \in Polls, PollAnswered(p)
  PROVE  UpdateInv'
<1>1. UNCHANGED <<up, running, built, updates, statusFile, script, post, page, reloads, excused, late>>
  BY DEF PollAnswered, ServerSide
<1>2. PICK a : /\ poll' = [poll EXCEPT ![p] = a]
               /\ a = IF up THEN [at |-> "answer", version |-> running,
                                  phase |-> IF statusFile.recent THEN statusFile.phase ELSE "none"]
                      ELSE [NoAnswer EXCEPT !.at = "down"]
  BY DEF PollAnswered
<1>3. statusFile \in [phase : Phases, recent : BOOLEAN] /\ "none" \in Phases /\ running \in Nat
  BY DEF UpdateInv, UpdateTypes, Phases
<1>4. /\ a \in AnswerRecord /\ a.version <= running
      /\ a.at = "answer" => a.version = running /\ (a.phase = "completed" => statusFile.phase = "completed")
  <2>1. CASE up
    BY <1>2, <1>3, <2>1 DEF AnswerRecord
  <2>2. CASE ~ up
    BY <1>2, <1>3, <2>2 DEF AnswerRecord, NoAnswer
  <2> QED
    BY <2>1, <2>2
<1>5. /\ poll' \in [Polls -> AnswerRecord] /\ poll'[p] = a
      /\ \A q \in Polls : q # p => poll'[q] = poll[q]
  BY <1>2, <1>4 DEF UpdateInv, UpdateTypes
<1>6. poll[p] # NoAnswer
  BY DEF PollAnswered, NoAnswer
<1>7. UpdateTypes'
  BY <1>1, <1>5 DEF UpdateInv, UpdateTypes
<1>8. ASSUME VersionsAgree, AnswersAreFresh PROVE VersionsAgree' /\ AnswersAreFresh'
  <2>1. Fresh /\ post = "none"
    BY <1>6, <1>8 DEF AnswersAreFresh
  <2>2. a.at = "answer" /\ (a.phase = "completed" \/ a.version # page.start) => built = updates
    <3>1. CASE updates = 0
      BY <1>3, <1>8, <3>1 DEF VersionsAgree, UpdateInv, UpdateTypes
    <3>2. CASE updates > 0
      BY <1>4, <1>8, <2>1, <3>2 DEF VersionsAgree, Fresh
    <3> QED
      BY <3>1, <3>2 DEF UpdateInv, UpdateTypes
  <2>3. VersionsAgree'
    BY <1>1, <1>4, <1>5, <1>8 DEF VersionsAgree, Alive
  <2>4. AnswersAreFresh'
    BY <1>1, <1>5, <1>8, <2>1, <2>2 DEF AnswersAreFresh, Fresh
  <2> QED
    BY <2>3, <2>4
<1> QED
  BY <1>1, <1>7, <1>8 DEF UpdateInv

\* The page handles an answer.
LEMMA PollHandledKeeps ==
  ASSUME UpdateInv, NEW p \in Polls, PollHandled(p)
  PROVE  UpdateInv'
<1>1. UNCHANGED <<up, running, built, updates, statusFile, script, post, reloads, excused>>
  BY DEF PollHandled, ServerSide
<1>2. PICK a \in AnswerRecord : /\ a = poll[p] /\ a.at \in {"down", "answer"} /\ page' = AfterAnswer(a)
  BY DEF PollHandled, UpdateInv, UpdateTypes
<1>3. /\ poll' = [poll EXCEPT ![p] = NoAnswer] /\ late' = (late \/ ~ page.polling)
  BY DEF PollHandled
<1>4. page \in PageRecord /\ {"restarting", "completed", "none"} \subseteq Phases
  BY DEF UpdateInv, UpdateTypes, Phases
<1>5. /\ page' \in PageRecord /\ page'.start = page.start
      /\ page'.version \in {page.version, a.version}
      /\ (page'.polling => page.polling) /\ (page'.stored => page.stored)
      /\ page'.phase = "completed" =>
            \/ page.phase = "completed"
            \/ a.at = "answer" /\ (a.phase = "completed" \/ a.version # page.start)
  <2>1. CASE a.at = "down"
    <3>1. page' = [page EXCEPT !.phase = "restarting"]
      BY <1>2, <2>1 DEF AfterAnswer
    <3> QED
      BY <1>4, <3>1 DEF PageRecord
  <2>2. CASE a.at = "answer" /\ a.phase = "completed"
    <3>1. page' = [[page EXCEPT !.phase = "completed", !.version = a.version]
                     EXCEPT !.polling = FALSE, !.stored = FALSE]
      BY <1>2, <2>2 DEF AfterAnswer, Stop
    <3>2. a.version \in Nat
      BY DEF AnswerRecord
    <3> QED
      BY <1>4, <2>2, <3>1, <3>2 DEF PageRecord
  <2>3. CASE a.at = "answer" /\ a.phase = "failed"
    <3>1. page' = [[page EXCEPT !.phase = "none", !.error = TRUE] EXCEPT !.polling = FALSE, !.stored = FALSE]
      BY <1>2, <2>3 DEF AfterAnswer, Stop
    <3> QED
      BY <1>4, <3>1 DEF PageRecord
  <2>4. CASE a.at = "answer" /\ a.phase \notin {"completed", "failed"}
    <3>1. page' = IF a.version = page.start THEN [page EXCEPT !.phase = Shown(a.phase)]
                  ELSE Stop([page EXCEPT !.phase = "completed", !.version = a.version, !.hiding = TRUE])
      BY <1>2, <2>4 DEF AfterAnswer
    <3>2. CASE a.version = page.start
      <4>1. Shown(a.phase) \in Phases /\ (Shown(a.phase) = "completed" => page.phase = "completed")
        BY <1>4, <2>4 DEF Shown, AnswerRecord, PageRecord
      <4>2. page' = [page EXCEPT !.phase = Shown(a.phase)]
        BY <3>1, <3>2
      <4> QED
        BY <1>4, <4>1, <4>2 DEF PageRecord
    <3>3. CASE a.version # page.start
      <4>1. page' = [[page EXCEPT !.phase = "completed", !.version = a.version, !.hiding = TRUE]
                       EXCEPT !.polling = FALSE, !.stored = FALSE]
        BY <3>1, <3>3 DEF Stop
      <4>2. a.version \in Nat
        BY DEF AnswerRecord
      <4> QED
        BY <1>4, <2>4, <3>3, <4>1, <4>2 DEF PageRecord
    <3> QED
      BY <3>2, <3>3
  <2> QED
    BY <1>2, <2>1, <2>2, <2>3, <2>4
<1>6. NoAnswer \in AnswerRecord /\ NoAnswer.at = "none" /\ NoAnswer.version = 0 /\ a # NoAnswer
  BY <1>2 DEF NoAnswer, AnswerRecord, Phases
<1>7. /\ poll' \in [Polls -> AnswerRecord] /\ poll'[p] = NoAnswer
      /\ \A q \in Polls : q # p => poll'[q] = poll[q]
  BY <1>3, <1>6 DEF UpdateInv, UpdateTypes
<1>8. UpdateTypes'
  <2>1. late' \in BOOLEAN
    BY <1>3 DEF UpdateInv, UpdateTypes
  <2> QED
    BY <1>1, <1>5, <1>7, <2>1 DEF UpdateInv, UpdateTypes
<1>9. ASSUME VersionsAgree, AnswersAreFresh PROVE VersionsAgree' /\ AnswersAreFresh'
  <2>1. /\ Fresh /\ post = "none" /\ a.version <= running
        /\ a.at = "answer" /\ (a.phase = "completed" \/ a.version # page.start) => built = updates
    BY <1>2, <1>6, <1>9 DEF VersionsAgree, AnswersAreFresh
  <2>2. VersionsAgree'
    <3>1. running \in Nat
      BY DEF UpdateInv, UpdateTypes
    <3> QED
      BY <1>1, <1>5, <1>6, <1>7, <1>9, <2>1, <3>1 DEF VersionsAgree, Alive
  <2>3. AnswersAreFresh'
    BY <1>1, <1>5, <1>6, <1>7, <1>9, <2>1 DEF AnswersAreFresh, Fresh
  <2> QED
    BY <2>2, <2>3
<1> QED
  BY <1>1, <1>8, <1>9 DEF UpdateInv

LEMMA UpdateInvKept == UpdateInv /\ [UpdateNext]_updateVars => UpdateInv'
<1> SUFFICES ASSUME UpdateInv, [UpdateNext]_updateVars PROVE UpdateInv'
  OBVIOUS
<1>1. CASE UNCHANGED updateVars
  BY <1>1 DEF updateVars, UpdateInv, UpdateTypes, VersionsAgree, AnswersAreFresh, Alive, Fresh
<1> QED
  BY <1>1, ScriptSideKeeps, AskUpdateKeeps, RequestKeeps, AnswerKeeps, CloseKeeps, ReloadKeeps,
     TickKeeps, PollAnsweredKeeps, PollHandledKeeps DEF UpdateNext, PostStep, PollStep

\* THEOREM.  When the overlay shows "completed", the update that was asked for
\* last is the one that was built, for any number of updates, polls and reloads,
\* but for what CompletedIsTrue excuses (components/SystemUpdateCard.tsx,
\* api/admin/server-update, update-system.sh).
THEOREM CompletedIsTrueHolds == UpdateSpec => []CompletedIsTrue
<1>1. UpdateInv => CompletedIsTrue
  BY DEF UpdateInv, AnswersAreFresh, CompletedIsTrue
<1> QED
  BY <1>1, UpdateInvInit, UpdateInvKept, PTL DEF UpdateSpec

-----------------------------------------------------------------------------
(* SecurityEvents: requests that come one after the other keep the table,  *)
(* the cache and the dashboard in step.                                    *)

EventMessages == {"security_event", "security_events_resolved"}
RequestPlaces == {"idle", "creating", "created", "updating", "touching", "written", "counted"}
RequestRecord == {rec \in [at : RequestPlaces, row : Nat, status : Statuses \cup {"none"}, count : Nat] :
                    rec.at = "updating" => rec.status # "none"}
DashboardRecord == [list : {"closed", "asked", "answered", "loaded", "failed"}, count : Nat,
                    socket : {"none", "connecting", "open", "gone"}, inbox : Seq(EventMessages),
                    astray : BOOLEAN]

EventTypes ==
  /\ rows \in Seq(Statuses) /\ cached \in Nat /\ started \in Nat /\ requestsOverlap \in BOOLEAN
  /\ request \in [EventRequests -> RequestRecord]
  /\ dashboard \in DashboardRecord

\* A page that shows count will show n once it has handled box: the last
\* "resolved" in it, or the count where there is none, and the events since.
Tells(box, count, n) ==
  \E l \in 0..Len(box) :
    /\ l > 0 => box[l] = "security_events_resolved"
    /\ \A i \in 1..Len(box) : i > l => box[i] = "security_event"
    /\ n = (IF l = 0 THEN count ELSE 0) + Len(box) - l

Listens == ~ dashboard.astray /\ dashboard.list = "loaded" /\ dashboard.socket = "open"
PageTells(n) == Tells(dashboard.inbox, dashboard.count, n)

\* What holds while the only request under way is where rec says.
TableInStep(rec) ==
  /\ rec.at \in {"idle", "updating", "touching"} => cached = Cardinality(Unresolved)
  /\ rec.at = "creating" => Unresolved = {} /\ cached = 0
  /\ rec.at = "updating" => rec.row \in DOMAIN rows /\ rec.status = rows[rec.row]
  /\ rec.at = "created" => Cardinality(Unresolved) = 1
  /\ rec.at = "counted" => rec.count = Cardinality(Unresolved)

PageInStep(rec) ==
  Listens =>
    /\ rec.at \in {"idle", "creating", "updating", "touching"} => PageTells(Cardinality(Unresolved))
    /\ rec.at = "created" => PageTells(0)
    /\ rec.at \in {"written", "counted"} =>
         /\ rec.status = "resolved" => Cardinality(Unresolved) = 0
         /\ rec.status # "resolved" => PageTells(Cardinality(Unresolved))

InStep(rec) == TableInStep(rec) /\ PageInStep(rec)

\* While the page is loading nothing happens, or it goes astray.
LoadsInQuiet ==
  StillLoading /\ ~ dashboard.astray => Quiet /\ dashboard.inbox = <<>>

ListIsRight ==
  /\ ~ dashboard.astray
  /\ \/ dashboard.list = "answered"
     \/ dashboard.list = "loaded" /\ dashboard.socket = "connecting"
  => dashboard.count = Cardinality(Unresolved)

RequestInStep ==
  /\ Quiet => InStep(NoRequest)
  /\ \A r \in EventRequests : request[r].at # "idle" =>
       /\ \A q \in EventRequests : q # r => request[q].at = "idle"
       /\ InStep(request[r])

EventsInv ==
  /\ EventTypes /\ LoadsInQuiet
  /\ ~ requestsOverlap => ListIsRight /\ RequestInStep

LEMMA TellsWhenEmpty ==
  ASSUME NEW c \in Nat, NEW n
  PROVE  Tells(<<>>, c, n) <=> n = c
BY DEF Tells

LEMMA TellsOneMore ==
  ASSUME NEW box \in Seq(EventMessages), NEW c \in Nat, NEW n \in Nat, Tells(box, c, n)
  PROVE  Tells(Append(box, "security_event"), c, n + 1)
<1> DEFINE longer == Append(box, "security_event")
<1>1. Len(box) \in Nat /\ Len(longer) = Len(box) + 1
  BY DEF EventMessages
<1>2. /\ \A i \in 1..Len(box) : longer[i] = box[i]
      /\ longer[Len(box) + 1] = "security_event"
  BY DEF EventMessages
<1>3. PICK l \in 0..Len(box) :
        /\ l > 0 => box[l] = "security_events_resolved"
        /\ \A i \in 1..Len(box) : i > l => box[i] = "security_event"
        /\ n = (IF l = 0 THEN c ELSE 0) + Len(box) - l
  BY DEF Tells
<1>4. l \in 0..Len(longer) /\ (l > 0 => longer[l] = "security_events_resolved")
  BY <1>1, <1>2, <1>3
<1>5. ASSUME NEW i \in 1..Len(longer), i > l PROVE longer[i] = "security_event"
  <2>1. i = Len(box) + 1 \/ i \in 1..Len(box)
    BY <1>1
  <2> QED
    BY <1>2, <1>3, <1>5, <2>1
<1>6. n + 1 = (IF l = 0 THEN c ELSE 0) + Len(longer) - l
  BY <1>1, <1>3
<1> QED
  BY <1>4, <1>5, <1>6 DEF Tells

LEMMA TellsResolved ==
  ASSUME NEW box \in Seq(EventMessages), NEW c \in Nat
  PROVE  Tells(Append(box, "security_events_resolved"), c, 0)
<1> DEFINE longer == Append(box, "security_events_resolved")
<1>1. Len(box) \in Nat /\ Len(longer) = Len(box) + 1
  BY DEF EventMessages
<1>2. longer[Len(longer)] = "security_events_resolved"
  BY DEF EventMessages
<1>3. 0 = (IF Len(longer) = 0 THEN c ELSE 0) + Len(longer) - Len(longer)
  BY <1>1
<1>4. \A i \in 1..Len(longer) : ~ (i > Len(longer))
  BY <1>1
<1>5. Len(longer) \in 0..Len(longer)
  BY <1>1
<1> HIDE DEF longer
<1> QED
  BY <1>2, <1>3, <1>4, <1>5 DEF Tells

\* onmessage leaves what the page will show as it is.
LEMMA TellsHandled ==
  ASSUME NEW box \in Seq(EventMessages), box # <<>>, NEW c \in Nat, NEW n, Tells(box, c, n)
  PROVE  Tells(Tail(box), IF Head(box) = "security_event" THEN c + 1 ELSE 0, n)
<1> DEFINE rest == Tail(box)
           d == IF Head(box) = "security_event" THEN c + 1 ELSE 0
<1>1. Len(box) \in Nat /\ Len(box) > 0 /\ Len(rest) = Len(box) - 1 /\ Head(box) = box[1]
  OBVIOUS
<1>2. \A i \in 1..Len(rest) : rest[i] = box[i + 1]
  OBVIOUS
<1>3. PICK l \in 0..Len(box) :
        /\ l > 0 => box[l] = "security_events_resolved"
        /\ \A i \in 1..Len(box) : i > l => box[i] = "security_event"
        /\ n = (IF l = 0 THEN c ELSE 0) + Len(box) - l
  BY DEF Tells
<1> HIDE DEF rest
<1>4. CASE l = 0
  <2>1. d = c + 1
    BY <1>1, <1>3, <1>4
  <2>2. \A i \in 1..Len(rest) : rest[i] = "security_event"
    BY <1>1, <1>2, <1>3, <1>4
  <2>3. n = d + Len(rest) - 0
    BY <1>1, <1>3, <1>4, <2>1
  <2> HIDE DEF d
  <2>4. 0 \in 0..Len(rest)
    BY <1>1
  <2> QED
    BY <2>2, <2>3, <2>4, SMTT(20) DEF Tells, rest, d
<1>5. CASE l > 0
  <2>1. l = 1 => d = 0
    BY <1>1, <1>3
  <2>2. l - 1 \in 0..Len(rest) /\ (l - 1 > 0 => rest[l - 1] = "security_events_resolved")
    BY <1>1, <1>2, <1>3, <1>5
  <2>3. ASSUME NEW i \in 1..Len(rest), i > l - 1 PROVE rest[i] = "security_event"
    <3>1. i + 1 \in 1..Len(box) /\ i + 1 > l
      BY <1>1, <2>3
    <3> QED
      BY <1>2, <1>3, <3>1
  <2>4. n = (IF l - 1 = 0 THEN d ELSE 0) + Len(rest) - (l - 1)
    BY <1>1, <1>3, <1>5, <2>1
  <2> HIDE DEF d
  <2> QED
    BY <2>2, <2>3, <2>4, SMTT(20) DEF Tells, rest, d
<1> QED
  BY <1>3, <1>4, <1>5

\* The rows that are not resolved are finitely many.
LEMMA UnresolvedCount ==
  ASSUME NEW R \in Seq(Statuses), NEW U, U = {i \in DOMAIN R : R[i] # "resolved"}
  PROVE  IsFiniteSet(U) /\ Cardinality(U) \in Nat /\ (Cardinality(U) = 0 <=> U = {}) /\ U \subseteq 1..Len(R)
<1>1. Len(R) \in Nat /\ DOMAIN R = 1..Len(R)
  OBVIOUS
<1>2. IsFiniteSet(1..Len(R))
  BY <1>1, FS_Interval
<1>3. U \subseteq 1..Len(R)
  BY <1>1
<1>4. IsFiniteSet(U)
  BY <1>2, <1>3, FS_Subset
<1> QED
  BY <1>3, <1>4, FS_CardinalityType, FS_EmptySet

LEMMA LatestIsOfThem ==
  ASSUME NEW n \in Nat, NEW T \in SUBSET (1..n)
  PROVE  Latest(T) \in Nat /\ (Latest(T) = 0 => T = {}) /\ (Latest(T) # 0 => Latest(T) \in T)
<1>1. CASE T = {}
  BY <1>1 DEF Latest
<1>2. CASE T # {}
  <2>1. \E x \in T : \A y \in T : y <= x
    BY <1>2, HasGreatest
  <2>2. Latest(T) \in T
    BY <1>2, <2>1 DEF Latest
  <2>3. Latest(T) \in 1..n
    BY <2>2
  <2> QED
    BY <2>2, <2>3
<1> QED
  BY <1>1, <1>2

LEMMA EventsInvInit == EventsInit => EventsInv
<1> SUFFICES ASSUME EventsInit PROVE EventsInv
  OBVIOUS
<1>1. /\ rows = <<>> /\ cached = 0 /\ started = 0 /\ requestsOverlap = FALSE
      /\ dashboard = NoDashboard /\ \A r \in EventRequests : request[r] = NoRequest
      /\ request = [r \in EventRequests |-> NoRequest]
  BY DEF EventsInit
<1>2. NoRequest \in RequestRecord /\ NoRequest.at = "idle"
  BY DEF NoRequest, RequestRecord, RequestPlaces, Statuses
<1>3. /\ NoDashboard \in DashboardRecord /\ NoDashboard.list = "closed"
      /\ NoDashboard.socket = "none"
  <2>1. <<>> \in Seq(EventMessages)
    OBVIOUS
  <2> QED
    BY <2>1 DEF NoDashboard, DashboardRecord
<1>4. DOMAIN rows = {}
  BY <1>1
<1>5. Unresolved = {}
  BY <1>4 DEF Unresolved
<1>6. Cardinality(Unresolved) = 0
  BY <1>5, FS_EmptySet
<1>7. EventTypes
  <2>1. rows \in Seq(Statuses)
    BY <1>1
  <2> QED
    BY <1>1, <1>2, <1>3, <2>1 DEF EventTypes
<1>8. LoadsInQuiet /\ ListIsRight
  BY <1>1, <1>3 DEF LoadsInQuiet, ListIsRight, StillLoading
<1>9. InStep(NoRequest)
  BY <1>1, <1>2, <1>3, <1>6 DEF InStep, TableInStep, PageInStep, Listens
<1> QED
  BY <1>1, <1>2, <1>7, <1>8, <1>9 DEF EventsInv, RequestInStep

\* A step that leaves the rows alone leaves the count alone.
LEMMA CountsStay ==
  ASSUME UNCHANGED rows
  PROVE  Unresolved' = Unresolved /\ Cardinality(Unresolved)' = Cardinality(Unresolved)
BY DEF Unresolved

\* A step of request r, alone or one that begins alone, keeps the invariant if
\* it ends in step.
LEMMA RequestMoves ==
  ASSUME EventsInv, EventTypes', NEW r \in EventRequests, NEW rec \in RequestRecord,
         RequestGoes(r, rec),
         ~ requestsOverlap' => ~ requestsOverlap /\ \A q \in EventRequests : q # r => request[q].at = "idle",
         dashboard'.list = dashboard.list, dashboard'.socket = dashboard.socket,
         ~ dashboard'.astray => ~ dashboard.astray /\ ~ StillLoading,
         ~ requestsOverlap' => InStep(rec)'
  PROVE  EventsInv'
<1>1. request'[r] = rec /\ \A q \in EventRequests : q # r => request'[q] = request[q]
  BY DEF RequestGoes, EventsInv, EventTypes
<1>2. StillLoading' <=> StillLoading
  BY DEF StillLoading
<1>3. LoadsInQuiet'
  BY <1>2 DEF LoadsInQuiet
<1>4. ListIsRight'
  BY DEF ListIsRight, StillLoading
<1>5. ASSUME ~ requestsOverlap' PROVE RequestInStep'
  <2>1. \A q \in EventRequests : q # r => request'[q].at = "idle"
    BY <1>1, <1>5
  <2>2. InStep(rec)'
    BY <1>5
  <2>3. Quiet' => InStep(NoRequest)'
    <3>1. ASSUME rec.at = "idle" PROVE InStep(NoRequest)'
      BY <2>2, <3>1 DEF InStep, TableInStep, PageInStep, NoRequest
    <3> QED
      BY <1>1, <3>1 DEF Quiet
  <2>4. InStep(request[r])'
    BY <1>1, <2>2 DEF InStep, TableInStep, PageInStep
  <2>5. ASSUME NEW q \in EventRequests, request'[q].at # "idle"
        PROVE  (\A p \in EventRequests : p # q => request'[p].at = "idle") /\ InStep(request[q])'
    BY <2>1, <2>4, <2>5
  <2> QED
    BY <2>3, <2>5 DEF RequestInStep
<1> QED
  BY <1>3, <1>4, <1>5 DEF EventsInv

LEMMA RequestUnderWay ==
  ASSUME EventsInv, NEW r \in EventRequests, request[r].at # "idle"
  PROVE  /\ ~ dashboard.astray => ~ StillLoading
         /\ ~ requestsOverlap => /\ \A q \in EventRequests : q # r => request[q].at = "idle"
                                 /\ InStep(request[r])
BY DEF EventsInv, LoadsInQuiet, RequestInStep, Quiet

LEMMA RequestBegins ==
  ASSUME EventsInv, NEW r \in EventRequests, Begin(r)
  PROVE  /\ requestsOverlap' \in BOOLEAN /\ started' \in Nat
         /\ ~ requestsOverlap' => /\ ~ requestsOverlap
                                  /\ \A q \in EventRequests : request[q].at = "idle"
                                  /\ cached = Cardinality(Unresolved)
                                  /\ Listens => PageTells(Cardinality(Unresolved))
<1>1. requestsOverlap' = (requestsOverlap \/ \E q \in EventRequests : request[q].at # "idle")
  BY DEF Begin
<1>2. requestsOverlap' \in BOOLEAN /\ started' \in Nat
  <2>1. started' = started + 1 /\ started \in Nat
    BY DEF Begin, EventsInv, EventTypes
  <2>2. requestsOverlap' \in BOOLEAN
    BY <1>1 DEF EventsInv, EventTypes
  <2> QED
    BY <2>1, <2>2
<1>3. ASSUME ~ requestsOverlap'
      PROVE  /\ ~ requestsOverlap /\ Quiet /\ InStep(NoRequest)
  BY <1>1, <1>3 DEF EventsInv, RequestInStep, Quiet
<1>4. NoRequest.at = "idle"
  BY DEF NoRequest
<1> QED
  BY <1>2, <1>3, <1>4 DEF Quiet, InStep, TableInStep, PageInStep

LEMMA ReportKeeps ==
  ASSUME EventsInv, NEW r \in EventRequests, NEW kind \in {"sighting", "finding"}, Report(r, kind)
  PROVE  EventsInv'
<1> DEFINE i == Matching(kind)
           next == [NoRequest EXCEPT !.at = IF i = 0 THEN "creating"
                                            ELSE IF kind = "sighting" THEN "updating" ELSE "touching",
                                     !.row = i, !.status = IF i = 0 THEN "open" ELSE rows[i]]
<1>1. /\ Begin(r) /\ RequestGoes(r, next) /\ Disturbs(FALSE) /\ UNCHANGED <<rows, cached>>
  BY DEF Report
<1>2. rows \in Seq(Statuses) /\ Len(rows) \in Nat /\ DOMAIN rows = 1..Len(rows)
  BY DEF EventsInv, EventTypes
<1>3. Unresolved \subseteq 1..Len(rows) /\ (Cardinality(Unresolved) = 0 <=> Unresolved = {})
  BY <1>2, UnresolvedCount DEF Unresolved
<1>4. /\ i \in Nat /\ (i = 0 => Unresolved = {}) /\ (i # 0 => i \in DOMAIN rows)
  <2>1. CASE kind = "sighting"
    <3>1. i = Latest(1..Len(rows))
      BY <1>2, <2>1 DEF Matching
    <3>2. i \in Nat /\ (i = 0 => 1..Len(rows) = {}) /\ (i # 0 => i \in 1..Len(rows))
      BY <1>2, <3>1, LatestIsOfThem
    <3> QED
      BY <1>2, <1>3, <3>2
  <2>2. CASE kind # "sighting"
    <3>1. i = Latest(Unresolved)
      BY <2>2 DEF Matching
    <3>2. i \in Nat /\ (i = 0 => Unresolved = {}) /\ (i # 0 => i \in Unresolved)
      BY <1>2, <1>3, <3>1, LatestIsOfThem
    <3> QED
      BY <1>2, <1>3, <3>2
  <2> QED
    BY <2>1, <2>2
<1> HIDE DEF i
<1>5. PICK rec : rec = next
  OBVIOUS
<1>6. rec \in RequestRecord
  <2>1. i # 0 => rows[i] \in Statuses
    BY <1>2, <1>4
  <2> QED
    BY <1>4, <1>5, <2>1 DEF NoRequest, RequestRecord, RequestPlaces, Statuses
<1>7. /\ rec.at \in {"creating", "updating", "touching"}
      /\ rec.at = "creating" => Unresolved = {}
      /\ rec.at = "updating" => rec.row \in DOMAIN rows /\ rec.status = rows[rec.row]
  BY <1>4, <1>5 DEF NoRequest
<1>8. RequestGoes(r, rec)
  BY <1>1, <1>5
<1> HIDE DEF next
<1>9. /\ dashboard' \in DashboardRecord /\ dashboard'.list = dashboard.list
      /\ dashboard'.socket = dashboard.socket /\ dashboard'.inbox = dashboard.inbox
      /\ dashboard'.count = dashboard.count
      /\ ~ dashboard'.astray => ~ dashboard.astray /\ ~ StillLoading
  BY <1>1 DEF Disturbs, DashboardRecord, StillLoading, EventsInv, EventTypes
<1>10. request' \in [EventRequests -> RequestRecord]
  BY <1>6, <1>8 DEF RequestGoes, EventsInv, EventTypes
<1>11. EventTypes'
  BY <1>1, <1>9, <1>10, RequestBegins DEF EventsInv, EventTypes
<1>12. Unresolved' = Unresolved /\ Cardinality(Unresolved)' = Cardinality(Unresolved)
  BY <1>1, CountsStay
<1>13. ASSUME ~ requestsOverlap' PROVE InStep(rec)'
  <2>1. cached = Cardinality(Unresolved) /\ (Listens => PageTells(Cardinality(Unresolved)))
    BY <1>1, <1>13, RequestBegins
  <2>2. TableInStep(rec)'
    BY <1>1, <1>3, <1>7, <1>12, <2>1 DEF TableInStep
  <2>3. PageInStep(rec)'
    BY <1>7, <1>9, <1>12, <2>1 DEF PageInStep, Listens, PageTells
  <2> QED
    BY <2>2, <2>3 DEF InStep
<1>14. ~ requestsOverlap' => ~ requestsOverlap /\ \A q \in EventRequests : q # r => request[q].at = "idle"
  BY <1>1, RequestBegins
<1> QED
  BY <1>6, <1>8, <1>9, <1>11, <1>13, <1>14, RequestMoves

\* Of a step of a request under way: what it leaves alone.
LEMMA RequestKeepsTypes ==
  ASSUME EventsInv, NEW r \in EventRequests, NEW rec \in RequestRecord, RequestGoes(r, rec),
         rows' \in Seq(Statuses), cached' \in Nat, UNCHANGED <<started, requestsOverlap>>,
         dashboard' \in DashboardRecord
  PROVE  EventTypes'
<1>1. request' \in [EventRequests -> RequestRecord]
  BY DEF RequestGoes, EventsInv, EventTypes
<1> QED
  BY <1>1 DEF EventsInv, EventTypes

LEMMA BroadcastTells ==
  ASSUME EventsInv, NEW message \in EventMessages, Broadcast(message)
  PROVE  /\ dashboard' \in DashboardRecord /\ dashboard'.list = dashboard.list
         /\ dashboard'.socket = dashboard.socket /\ dashboard'.astray = dashboard.astray
         /\ dashboard'.count = dashboard.count
         /\ Listens => dashboard'.inbox = Append(dashboard.inbox, message)
<1>1. /\ dashboard \in DashboardRecord /\ dashboard.inbox \in Seq(EventMessages)
      /\ dashboard' = IF dashboard.socket = "open"
                        THEN [dashboard EXCEPT !.inbox = Append(@, message)] ELSE dashboard
  BY DEF Broadcast, EventsInv, EventTypes, DashboardRecord
<1>2. PICK box \in Seq(EventMessages) : box = Append(dashboard.inbox, message)
  <2>1. Append(dashboard.inbox, message) \in Seq(EventMessages)
    BY <1>1, AppendProperties
  <2> QED
    BY <2>1, Zenon
<1>3. CASE dashboard.socket = "open"
  <2>1. dashboard' = [dashboard EXCEPT !.inbox = box]
    BY <1>1, <1>2, <1>3
  <2> QED
    BY <1>1, <1>2, <2>1 DEF DashboardRecord
<1>4. CASE dashboard.socket # "open"
  BY <1>1, <1>4 DEF Listens
<1> QED
  BY <1>3, <1>4

LEMMA CreateKeeps ==
  ASSUME EventsInv, NEW r \in EventRequests, Create(r)
  PROVE  EventsInv'
<1>1. /\ request[r].at = "creating" /\ rows' = Append(rows, "open")
      /\ UNCHANGED <<cached, started, requestsOverlap, dashboard>>
  BY DEF Create
<1>2. PICK rec : rec = [NoRequest EXCEPT !.at = "created"] /\ RequestGoes(r, rec)
  BY DEF Create
<1>3. rec \in RequestRecord /\ rec.at = "created"
  BY <1>2 DEF NoRequest, RequestRecord, RequestPlaces, Statuses
<1>4. rows \in Seq(Statuses) /\ cached \in Nat /\ dashboard \in DashboardRecord
  BY DEF EventsInv, EventTypes
<1>5. rows' \in Seq(Statuses) /\ Len(rows) \in Nat
  BY <1>1, <1>4 DEF Statuses
<1>6. EventTypes'
  BY <1>1, <1>2, <1>3, <1>4, <1>5, RequestKeepsTypes
<1>7. ASSUME ~ requestsOverlap PROVE InStep(rec)'
  <2>1. Unresolved = {} /\ (Listens => PageTells(Cardinality(Unresolved)))
    BY <1>1, <1>7, RequestUnderWay DEF InStep, TableInStep, PageInStep
  <2>2. Unresolved' = {Len(rows) + 1}
    <3>1. \A i \in 1..Len(rows) : rows[i] = "resolved"
      BY <1>4, <2>1 DEF Unresolved
    <3>2. DOMAIN rows' = 1..(Len(rows) + 1) /\ rows'[Len(rows) + 1] = "open"
          /\ \A i \in 1..Len(rows) : rows'[i] = rows[i]
      BY <1>1, <1>4
    <3> QED
      BY <1>5, <3>1, <3>2 DEF Unresolved
  <2>3. Cardinality(Unresolved)' = 1
    BY <2>2, FS_Singleton
  <2>4. Cardinality(Unresolved) = 0
    BY <2>1, FS_EmptySet
  <2>5. Listens' => PageTells(0)'
    BY <1>1, <2>1, <2>4 DEF Listens, PageTells
  <2> QED
    BY <1>3, <2>3, <2>5 DEF InStep, TableInStep, PageInStep
<1> QED
  BY <1>1, <1>2, <1>3, <1>6, <1>7, RequestMoves, RequestUnderWay

LEMMA AnnounceKeeps ==
  ASSUME EventsInv, NEW r \in EventRequests, Announce(r)
  PROVE  EventsInv'
<1>1. /\ request[r].at = "created" /\ Broadcast("security_event")
      /\ UNCHANGED <<rows, cached, started, requestsOverlap>>
  BY DEF Announce
<1>2. PICK rec : rec = [NoRequest EXCEPT !.at = "written"] /\ RequestGoes(r, rec)
  BY DEF Announce
<1>3. rec \in RequestRecord /\ rec.at = "written" /\ rec.status = "none"
  BY <1>2 DEF NoRequest, RequestRecord, RequestPlaces, Statuses
<1>4. /\ dashboard' \in DashboardRecord /\ dashboard'.list = dashboard.list
      /\ dashboard'.socket = dashboard.socket /\ dashboard'.astray = dashboard.astray
      /\ dashboard'.count = dashboard.count
      /\ Listens => dashboard'.inbox = Append(dashboard.inbox, "security_event")
  BY <1>1, BroadcastTells DEF EventMessages
<1>5. EventTypes'
  BY <1>1, <1>2, <1>3, <1>4, RequestKeepsTypes DEF EventsInv, EventTypes
<1>6. ASSUME ~ requestsOverlap PROVE InStep(rec)'
  <2>1. Cardinality(Unresolved) = 1 /\ (Listens => PageTells(0))
    BY <1>1, <1>6, RequestUnderWay DEF InStep, TableInStep, PageInStep
  <2>2. Cardinality(Unresolved)' = 1
    BY <1>1, <2>1, CountsStay
  <2>3. ASSUME Listens' PROVE PageTells(1)'
    <3>1. Listens /\ dashboard.inbox \in Seq(EventMessages) /\ dashboard.count \in Nat
      BY <1>4, <2>3 DEF Listens, EventsInv, EventTypes, DashboardRecord
    <3>2. 0 \in Nat /\ 0 + 1 = 1
      OBVIOUS
    <3>3. Tells(Append(dashboard.inbox, "security_event"), dashboard.count, 1)
      BY <2>1, <3>1, <3>2, TellsOneMore DEF PageTells
    <3> QED
      BY <1>4, <3>1, <3>3 DEF PageTells
  <2> QED
    BY <1>3, <2>2, <2>3 DEF InStep, TableInStep, PageInStep
<1> QED
  BY <1>1, <1>2, <1>3, <1>4, <1>5, <1>6, RequestMoves, RequestUnderWay

LEMMA KnownEventKeeps ==
  ASSUME EventsInv, NEW r \in EventRequests, Update(r) \/ Touch(r)
  PROVE  EventsInv'
<1>1. /\ request[r].at \in {"updating", "touching"}
      /\ \/ rows' = rows
         \/ request[r].at = "updating" /\ rows' = [rows EXCEPT ![request[r].row] = request[r].status]
      /\ UNCHANGED <<cached, started, requestsOverlap, dashboard>>
  BY DEF Update, Touch
<1>2. PICK rec : rec = [NoRequest EXCEPT !.at = "written"] /\ RequestGoes(r, rec)
  BY DEF Update, Touch
<1>3. rec \in RequestRecord /\ rec.at = "written" /\ rec.status = "none"
  BY <1>2 DEF NoRequest, RequestRecord, RequestPlaces, Statuses
<1>4. /\ rows \in Seq(Statuses) /\ cached \in Nat /\ dashboard \in DashboardRecord
      /\ request[r] \in RequestRecord
  BY DEF EventsInv, EventTypes
<1>5. rows' \in Seq(Statuses)
  <2>1. CASE rows' = rows
    BY <1>4, <2>1
  <2>2. CASE request[r].at = "updating" /\ rows' = [rows EXCEPT ![request[r].row] = request[r].status]
    <3>1. request[r].status \in Statuses
      BY <1>4, <2>2 DEF RequestRecord
    <3>2. Len(rows) \in Nat /\ rows \in [1..Len(rows) -> Statuses]
      BY <1>4
    <3>3. rows' \in [1..Len(rows) -> Statuses]
      BY <2>2, <3>1, <3>2
    <3> QED
      BY <3>2, <3>3
  <2> QED
    BY <1>1, <2>1, <2>2
<1>6. EventTypes'
  BY <1>1, <1>2, <1>3, <1>4, <1>5, RequestKeepsTypes
<1>7. ASSUME ~ requestsOverlap PROVE InStep(rec)'
  <2>1. /\ Listens => PageTells(Cardinality(Unresolved))
        /\ request[r].at = "updating" =>
             request[r].row \in DOMAIN rows /\ request[r].status = rows[request[r].row]
    BY <1>1, <1>7, RequestUnderWay DEF InStep, TableInStep, PageInStep
  <2>2. rows' = rows
    BY <1>1, <1>4, <2>1
  <2>3. Cardinality(Unresolved)' = Cardinality(Unresolved)
    BY <2>2, CountsStay
  <2>4. Listens' => PageTells(Cardinality(Unresolved))'
    BY <1>1, <2>1, <2>3 DEF Listens, PageTells
  <2> QED
    BY <1>3, <2>4 DEF InStep, TableInStep, PageInStep
<1> QED
  BY <1>1, <1>2, <1>3, <1>6, <1>7, RequestMoves, RequestUnderWay

\* A request of a user: the rows are others, and the page is told of it or went
\* astray.
LEMMA UserRequestKeeps ==
  ASSUME EventsInv, NEW r \in EventRequests, Begin(r), rows' \in Seq(Statuses), cached' = cached,
         NEW status \in {"resolved", "none"},
         RequestGoes(r, [NoRequest EXCEPT !.at = "written", !.status = status]),
         NEW untold \in BOOLEAN, Disturbs(untold),
         ~ untold => Cardinality(Unresolved)' = IF status = "resolved" THEN 0 ELSE Cardinality(Unresolved)
  PROVE  EventsInv'
<1>1. PICK rec : /\ rec = [NoRequest EXCEPT !.at = "written", !.status = status]
                 /\ RequestGoes(r, rec)
  OBVIOUS
<1>2. rec \in RequestRecord /\ rec.at = "written" /\ rec.status = status
  BY <1>1 DEF NoRequest, RequestRecord, RequestPlaces, Statuses
<1>3. /\ dashboard' \in DashboardRecord /\ dashboard'.list = dashboard.list
      /\ dashboard'.socket = dashboard.socket /\ dashboard'.inbox = dashboard.inbox
      /\ dashboard'.count = dashboard.count
      /\ ~ dashboard'.astray => ~ dashboard.astray /\ ~ StillLoading /\ ~ untold
  BY DEF Disturbs, DashboardRecord, StillLoading, EventsInv, EventTypes
<1>4. request' \in [EventRequests -> RequestRecord]
  BY <1>1, <1>2 DEF RequestGoes, EventsInv, EventTypes
<1>5. EventTypes'
  BY <1>3, <1>4, RequestBegins DEF EventsInv, EventTypes
<1>6. ASSUME ~ requestsOverlap' PROVE InStep(rec)'
  <2>1. Listens => PageTells(Cardinality(Unresolved))
    BY <1>6, RequestBegins
  <2>2. ASSUME Listens'
        PROVE  /\ status = "resolved" => Cardinality(Unresolved)' = 0
               /\ status # "resolved" => PageTells(Cardinality(Unresolved))'
    <3>1. Listens /\ ~ untold
      BY <1>3, <2>2 DEF Listens
    <3>2. CASE status = "resolved"
      BY <3>1, <3>2
    <3>3. CASE status # "resolved"
      BY <1>3, <2>1, <3>1, <3>3 DEF PageTells
    <3> QED
      BY <3>2, <3>3
  <2> QED
    BY <1>2, <2>2 DEF InStep, TableInStep, PageInStep
<1>7. ~ requestsOverlap' => ~ requestsOverlap /\ \A q \in EventRequests : q # r => request[q].at = "idle"
  BY RequestBegins
<1> QED
  BY <1>1, <1>2, <1>3, <1>5, <1>6, <1>7, RequestMoves

LEMMA ResolveAllKeeps ==
  ASSUME EventsInv, NEW r \in EventRequests, ResolveAll(r)
  PROVE  EventsInv'
<1>1. /\ Begin(r) /\ rows' = [i \in DOMAIN rows |-> "resolved"] /\ Disturbs(FALSE)
      /\ cached' = cached
  BY DEF ResolveAll
<1>2. PICK status : status = Resolves(Unresolved, "resolved")
  OBVIOUS
<1>3. status = (IF Unresolved # {} THEN "resolved" ELSE "none")
  BY <1>2 DEF Resolves
<1>4. RequestGoes(r, [NoRequest EXCEPT !.at = "written", !.status = status])
  BY <1>2 DEF ResolveAll
<1>5. rows \in Seq(Statuses) /\ Len(rows) \in Nat /\ DOMAIN rows = 1..Len(rows)
  BY DEF EventsInv, EventTypes
<1>6. rows' \in Seq(Statuses)
  <2>1. rows' \in [1..Len(rows) -> Statuses]
    BY <1>1, <1>5 DEF Statuses
  <2> QED
    BY <1>5, <2>1
<1>7. Unresolved' = {}
  BY <1>1 DEF Unresolved
<1>8. Cardinality(Unresolved)' = 0
  BY <1>7, FS_EmptySet
<1>9. status = "none" => Cardinality(Unresolved) = 0
  BY <1>3, FS_EmptySet
<1>10. Cardinality(Unresolved)' = IF status = "resolved" THEN 0 ELSE Cardinality(Unresolved)
  BY <1>3, <1>8, <1>9
<1>11. status \in {"resolved", "none"} /\ FALSE \in BOOLEAN
  BY <1>3
<1> QED
  BY <1>1, <1>4, <1>6, <1>10, <1>11, UserRequestKeeps

LEMMA SetStatusKeeps ==
  ASSUME EventsInv, NEW r \in EventRequests, NEW S \in SUBSET DOMAIN rows, NEW new \in Statuses,
         SetStatus(r, S, new)
  PROVE  EventsInv'
<1>1. /\ Begin(r) /\ rows' = [i \in DOMAIN rows |-> IF i \in S THEN new ELSE rows[i]]
      /\ cached' = cached
  BY DEF SetStatus
<1>2. PICK status : status = Resolves(S, new)
  OBVIOUS
<1>3. status \in {"resolved", "none"}
  BY <1>2 DEF Resolves
<1>4. RequestGoes(r, [NoRequest EXCEPT !.at = "written", !.status = status])
  BY <1>2 DEF SetStatus
<1>5. PICK untold : untold = (Cardinality(Unresolved')
                                # IF status = "resolved" THEN 0 ELSE Cardinality(Unresolved))
  OBVIOUS
<1>6. untold \in BOOLEAN
  BY <1>5
<1>7. Disturbs(untold)
  BY <1>2, <1>5 DEF SetStatus
<1>8. ~ untold => Cardinality(Unresolved)' = IF status = "resolved" THEN 0 ELSE Cardinality(Unresolved)
  BY <1>5
<1>9. rows \in Seq(Statuses) /\ Len(rows) \in Nat /\ DOMAIN rows = 1..Len(rows)
  BY DEF EventsInv, EventTypes
<1>10. rows' \in Seq(Statuses)
  <2>1. rows' \in [1..Len(rows) -> Statuses]
    BY <1>1, <1>9
  <2> QED
    BY <1>9, <2>1
<1> QED
  BY <1>1, <1>3, <1>4, <1>6, <1>7, <1>8, <1>10, UserRequestKeeps

\* refreshSecurityCacheForMachine.
LEMMA CountOpenKeeps ==
  ASSUME EventsInv, NEW r \in EventRequests, CountOpen(r)
  PROVE  EventsInv'
<1>1. /\ request[r].at = "written" /\ UNCHANGED <<rows, cached, started, requestsOverlap, dashboard>>
  BY DEF CountOpen
<1>2. PICK rec : rec = [request[r] EXCEPT !.at = "counted", !.count = Cardinality(Unresolved)]
                 /\ RequestGoes(r, rec)
  BY DEF CountOpen
<1>3. /\ rows \in Seq(Statuses) /\ cached \in Nat /\ dashboard \in DashboardRecord
      /\ request[r] \in RequestRecord
  BY DEF EventsInv, EventTypes
<1>4. Cardinality(Unresolved) \in Nat
  BY <1>3, UnresolvedCount DEF Unresolved
<1>5. /\ rec \in RequestRecord /\ rec.at = "counted" /\ rec.status = request[r].status
      /\ rec.count = Cardinality(Unresolved)
  BY <1>2, <1>3, <1>4 DEF RequestRecord, RequestPlaces
<1>6. EventTypes'
  BY <1>1, <1>2, <1>3, <1>5, RequestKeepsTypes
<1>7. Unresolved' = Unresolved /\ Cardinality(Unresolved)' = Cardinality(Unresolved)
  BY <1>1, CountsStay
<1>8. ASSUME ~ requestsOverlap PROVE InStep(rec)'
  <2>1. PageInStep(request[r])
    BY <1>1, <1>8, RequestUnderWay DEF InStep
  <2>2. TableInStep(rec)'
    BY <1>5, <1>7 DEF TableInStep
  <2>3. PageInStep(rec)'
    BY <1>1, <1>5, <1>7, <2>1 DEF PageInStep, Listens, PageTells
  <2> QED
    BY <2>2, <2>3 DEF InStep
<1> QED
  BY <1>1, <1>2, <1>3, <1>5, <1>6, <1>8, RequestMoves, RequestUnderWay

LEMMA WriteCacheKeeps ==
  ASSUME EventsInv, NEW r \in EventRequests, WriteCache(r)
  PROVE  EventsInv'
<1>1. /\ request[r].at = "counted" /\ cached' = request[r].count
      /\ UNCHANGED <<rows, started, requestsOverlap>>
  BY DEF WriteCache
<1>2. PICK rec : rec = NoRequest /\ RequestGoes(r, rec)
  BY DEF WriteCache
<1>3. rec \in RequestRecord /\ rec.at = "idle"
  BY <1>2 DEF NoRequest, RequestRecord, RequestPlaces, Statuses
<1>4. /\ rows \in Seq(Statuses) /\ dashboard \in DashboardRecord /\ request[r] \in RequestRecord
      /\ dashboard.inbox \in Seq(EventMessages) /\ dashboard.count \in Nat
  BY DEF EventsInv, EventTypes, DashboardRecord
<1>5. /\ dashboard' \in DashboardRecord /\ dashboard'.list = dashboard.list
      /\ dashboard'.socket = dashboard.socket /\ dashboard'.astray = dashboard.astray
      /\ dashboard'.count = dashboard.count
      /\ Listens => dashboard'.inbox = IF request[r].status = "resolved"
                                         THEN Append(dashboard.inbox, "security_events_resolved")
                                         ELSE dashboard.inbox
  <2>1. CASE request[r].status = "resolved"
    <3>1. Broadcast("security_events_resolved") /\ "security_events_resolved" \in EventMessages
      BY <2>1 DEF WriteCache, EventMessages
    <3> QED
      BY <2>1, <3>1, BroadcastTells
  <2>2. CASE request[r].status # "resolved"
    BY <1>4, <2>2 DEF WriteCache
  <2> QED
    BY <2>1, <2>2
<1>6. cached' \in Nat
  BY <1>1, <1>4 DEF RequestRecord
<1>7. EventTypes'
  BY <1>1, <1>2, <1>3, <1>4, <1>5, <1>6, RequestKeepsTypes
<1>8. Unresolved' = Unresolved /\ Cardinality(Unresolved)' = Cardinality(Unresolved)
  BY <1>1, CountsStay
<1>9. ASSUME ~ requestsOverlap PROVE InStep(rec)'
  <2>1. PageInStep(request[r]) /\ request[r].count = Cardinality(Unresolved)
    BY <1>1, <1>9, RequestUnderWay DEF InStep, TableInStep
  <2>2. TableInStep(rec)'
    BY <1>1, <1>3, <1>8, <2>1 DEF TableInStep
  <2>3. ASSUME Listens' PROVE PageTells(Cardinality(Unresolved))'
    <3>1. Listens
      BY <1>5, <2>3 DEF Listens
    <3>2. CASE request[r].status = "resolved"
      <4>1. Cardinality(Unresolved) = 0
        BY <1>1, <2>1, <3>1, <3>2 DEF PageInStep
      <4>2. Tells(Append(dashboard.inbox, "security_events_resolved"), dashboard.count, 0)
        BY <1>4, TellsResolved
      <4> QED
        BY <1>5, <1>8, <3>1, <3>2, <4>1, <4>2 DEF PageTells
    <3>3. CASE request[r].status # "resolved"
      BY <1>1, <1>5, <1>8, <2>1, <3>1, <3>3 DEF PageInStep, PageTells
    <3> QED
      BY <3>2, <3>3
  <2> QED
    BY <1>3, <2>2, <2>3 DEF InStep, PageInStep
<1> QED
  BY <1>1, <1>2, <1>3, <1>5, <1>7, <1>9, RequestMoves, RequestUnderWay

\* A step of the page: the table and the requests stay as they are.
LEMMA PageMovesKeep ==
  ASSUME EventsInv, PageGoes(dashboard'), dashboard' \in DashboardRecord, LoadsInQuiet',
         ~ requestsOverlap => ListIsRight',
         ~ requestsOverlap /\ Listens' =>
           (\A n : (Listens /\ PageTells(n)) \/ (Quiet /\ n = Cardinality(Unresolved)) =>
                     Tells(dashboard'.inbox, dashboard'.count, n)),
         ~ requestsOverlap /\ Listens' => Listens \/ Quiet
  PROVE  EventsInv'
<1>1. UNCHANGED <<rows, cached, request, started, requestsOverlap>>
  BY DEF PageGoes
<1>2. EventTypes'
  BY <1>1 DEF EventsInv, EventTypes
<1>3. Unresolved' = Unresolved /\ Cardinality(Unresolved)' = Cardinality(Unresolved)
  BY <1>1, CountsStay
<1>4. ASSUME ~ requestsOverlap PROVE RequestInStep'
  <2>1. ASSUME NEW rec, InStep(rec), rec.at = "idle" => Quiet, Quiet => rec.at = "idle" PROVE InStep(rec)'
    <3>1. TableInStep(rec)'
      BY <1>1, <1>3, <2>1 DEF InStep, TableInStep
    <3>2. PageInStep(rec)'
      <4>1. SUFFICES ASSUME Listens' PROVE PageInStep(rec)'
        BY DEF PageInStep
      <4>2. CASE Listens
        BY <1>3, <1>4, <2>1, <4>1, <4>2 DEF InStep, PageInStep, PageTells
      <4>3. CASE Quiet
        <5>1. PageTells(Cardinality(Unresolved))'
          BY <1>3, <1>4, <4>1, <4>3 DEF PageTells
        <5> QED
          BY <2>1, <4>3, <5>1 DEF PageInStep
      <4> QED
        BY <1>4, <4>1, <4>2, <4>3
    <3> QED
      BY <3>1, <3>2 DEF InStep
  <2>2. NoRequest.at = "idle"
    BY DEF NoRequest
  <2>3. Quiet' => InStep(NoRequest)'
    BY <1>1, <1>4, <2>1, <2>2 DEF EventsInv, RequestInStep, Quiet
  <2>4. ASSUME NEW r \in EventRequests, request[r].at # "idle" PROVE InStep(request[r])'
    <3>1. PICK rec : rec = request[r]
      OBVIOUS
    <3>2. InStep(rec)'
      BY <1>4, <2>1, <2>4, <3>1 DEF EventsInv, RequestInStep, Quiet
    <3> QED
      BY <1>1, <3>1, <3>2 DEF InStep, TableInStep, PageInStep
  <2> QED
    BY <1>1, <1>4, <2>3, <2>4 DEF EventsInv, RequestInStep
<1> QED
  BY <1>1, <1>2, <1>4 DEF EventsInv

LEMMA OpenDashboardKeeps ==
  ASSUME EventsInv, OpenDashboard
  PROVE  EventsInv'
<1>1. /\ UNCHANGED <<rows, cached, request, started, requestsOverlap>>
      /\ dashboard' = [NoDashboard EXCEPT !.list = "asked", !.socket = "connecting",
                         !.astray = \E r \in EventRequests : request[r].at # "idle"]
  BY DEF OpenDashboard, PageGoes
<1>2. /\ dashboard' \in DashboardRecord /\ dashboard'.list = "asked" /\ dashboard'.inbox = <<>>
      /\ dashboard'.astray <=> ~ Quiet
  <2>1. <<>> \in Seq(EventMessages)
    OBVIOUS
  <2> QED
    BY <1>1, <2>1 DEF NoDashboard, DashboardRecord, Quiet
<1>3. LoadsInQuiet' /\ ListIsRight' /\ ~ Listens'
  BY <1>1, <1>2 DEF LoadsInQuiet, ListIsRight, Listens, Quiet
<1>4. PageGoes(dashboard')
  BY <1>1 DEF PageGoes
<1> QED
  BY <1>2, <1>3, <1>4, PageMovesKeep

LEMMA ListMachinesKeeps ==
  ASSUME EventsInv, ListMachines
  PROVE  EventsInv'
<1>1. PICK n \in {cached, Cardinality(Unresolved)} :
        PageGoes([dashboard EXCEPT !.list = "answered", !.count = n])
  BY DEF ListMachines
<1>2. /\ dashboard.list = "asked" /\ UNCHANGED <<rows, cached, request, started, requestsOverlap>>
      /\ dashboard' = [dashboard EXCEPT !.list = "answered", !.count = n]
  BY <1>1 DEF ListMachines, PageGoes
<1>3. rows \in Seq(Statuses) /\ cached \in Nat /\ dashboard \in DashboardRecord
  BY DEF EventsInv, EventTypes
<1>4. n \in Nat
  BY <1>3, UnresolvedCount DEF Unresolved
<1>5. /\ dashboard' \in DashboardRecord /\ dashboard'.list = "answered" /\ dashboard'.count = n
      /\ dashboard'.inbox = dashboard.inbox /\ dashboard'.astray = dashboard.astray
  BY <1>2, <1>3, <1>4 DEF DashboardRecord
<1>6. StillLoading
  BY <1>2 DEF StillLoading
<1>7. LoadsInQuiet' /\ ~ Listens'
  BY <1>2, <1>5, <1>6 DEF EventsInv, LoadsInQuiet, Listens, Quiet
<1>8. Cardinality(Unresolved)' = Cardinality(Unresolved)
  BY <1>2, CountsStay
<1>9. ASSUME ~ requestsOverlap PROVE ListIsRight'
  <2>1. ~ dashboard.astray => cached = Cardinality(Unresolved)
    <3>1. InStep(NoRequest) => cached = Cardinality(Unresolved)
      BY DEF InStep, TableInStep, NoRequest
    <3> QED
      BY <1>6, <1>9, <3>1 DEF EventsInv, LoadsInQuiet, RequestInStep
  <2> QED
    BY <1>5, <1>8, <2>1 DEF ListIsRight
<1>10. PageGoes(dashboard')
  BY <1>2 DEF PageGoes
<1> QED
  BY <1>5, <1>7, <1>9, <1>10, PageMovesKeep

\* The list arrives, or the socket opens: the page listens as soon as it has both.
LEMMA BecomesReadyKeeps ==
  ASSUME EventsInv, ApplyList \/ SocketOpens
  PROVE  EventsInv'
<1>1. /\ UNCHANGED <<rows, cached, request, started, requestsOverlap>>
      /\ \/ dashboard.list = "answered" /\ dashboard' = [dashboard EXCEPT !.list = "loaded"]
         \/ dashboard.socket = "connecting" /\ dashboard' = [dashboard EXCEPT !.socket = "open"]
  BY DEF ApplyList, SocketOpens, PageGoes
<1>2. dashboard \in DashboardRecord /\ dashboard.count \in Nat /\ StillLoading
  BY <1>1 DEF EventsInv, EventTypes, DashboardRecord, StillLoading
<1>3. /\ dashboard' \in DashboardRecord /\ dashboard'.inbox = dashboard.inbox
      /\ dashboard'.astray = dashboard.astray /\ dashboard'.count = dashboard.count
      /\ \/ dashboard.list = "answered" /\ dashboard'.list = "loaded"
            /\ dashboard'.socket = dashboard.socket
         \/ dashboard.socket = "connecting" /\ dashboard'.list = dashboard.list
            /\ dashboard'.socket = "open"
  BY <1>1, <1>2 DEF DashboardRecord
<1>4. LoadsInQuiet'
  BY <1>1, <1>2, <1>3 DEF EventsInv, LoadsInQuiet, Quiet
<1>5. Cardinality(Unresolved)' = Cardinality(Unresolved)
  BY <1>1, CountsStay
<1>6. ~ requestsOverlap => ListIsRight'
  BY <1>1, <1>3, <1>5 DEF EventsInv, ListIsRight
<1>7. PageGoes(dashboard')
  BY <1>1 DEF PageGoes
<1>8. ASSUME ~ requestsOverlap, Listens'
      PROVE  /\ Quiet
             /\ \A n : (Listens /\ PageTells(n)) \/ (Quiet /\ n = Cardinality(Unresolved)) =>
                         Tells(dashboard'.inbox, dashboard'.count, n)
  <2>1. Quiet /\ dashboard.inbox = <<>> /\ ~ Listens /\ dashboard.count = Cardinality(Unresolved)
    BY <1>2, <1>3, <1>8 DEF EventsInv, LoadsInQuiet, ListIsRight, Listens
  <2>2. Tells(<<>>, dashboard.count, Cardinality(Unresolved))
    BY <1>2, <2>1, TellsWhenEmpty
  <2> QED
    BY <1>3, <2>1, <2>2
<1> QED
  BY <1>3, <1>4, <1>6, <1>7, <1>8, PageMovesKeep

\* The list fails, or the socket is gone: the page listens no more.
LEMMA GivesUpKeeps ==
  ASSUME EventsInv, ListFails \/ SocketGone
  PROVE  EventsInv'
<1>1. /\ UNCHANGED <<rows, cached, request, started, requestsOverlap>>
      /\ \/ dashboard.list \in {"asked", "answered"} /\ dashboard' = [dashboard EXCEPT !.list = "failed"]
         \/ dashboard' = [dashboard EXCEPT !.socket = "gone", !.inbox = <<>>]
  BY DEF ListFails, SocketGone, PageGoes
<1>2. dashboard \in DashboardRecord
  BY DEF EventsInv, EventTypes
<1>3. /\ dashboard' \in DashboardRecord /\ dashboard'.inbox \in {dashboard.inbox, <<>>}
      /\ dashboard'.astray = dashboard.astray /\ dashboard'.count = dashboard.count
      /\ \/ dashboard'.list = "failed" /\ dashboard'.socket = dashboard.socket
         \/ dashboard'.list = dashboard.list /\ dashboard'.socket = "gone"
  <2>1. <<>> \in Seq(EventMessages)
    OBVIOUS
  <2> QED
    BY <1>1, <1>2, <2>1 DEF DashboardRecord
<1>4. LoadsInQuiet' /\ ~ Listens'
  BY <1>1, <1>3 DEF EventsInv, LoadsInQuiet, StillLoading, Quiet, Listens
<1>5. Cardinality(Unresolved)' = Cardinality(Unresolved)
  BY <1>1, CountsStay
<1>6. ~ requestsOverlap => ListIsRight'
  BY <1>3, <1>5 DEF EventsInv, ListIsRight
<1>7. PageGoes(dashboard')
  BY <1>1 DEF PageGoes
<1> QED
  BY <1>3, <1>4, <1>6, <1>7, PageMovesKeep

LEMMA onmessageKeeps ==
  ASSUME EventsInv, onmessage
  PROVE  EventsInv'
<1>1. PICK c : c = IF dashboard.list # "loaded" THEN dashboard.count
                   ELSE IF Head(dashboard.inbox) = "security_event" THEN dashboard.count + 1 ELSE 0
  OBVIOUS
<1>2. /\ UNCHANGED <<rows, cached, request, started, requestsOverlap>>
      /\ dashboard.inbox # <<>>
      /\ dashboard' = [dashboard EXCEPT !.inbox = Tail(dashboard.inbox), !.count = c]
  BY <1>1 DEF onmessage, PageGoes
<1>3. dashboard \in DashboardRecord /\ dashboard.count \in Nat /\ dashboard.inbox \in Seq(EventMessages)
  BY DEF EventsInv, EventTypes, DashboardRecord
<1>4. PICK rest \in Seq(EventMessages) : rest = Tail(dashboard.inbox)
  <2>1. Tail(dashboard.inbox) \in Seq(EventMessages)
    BY <1>2, <1>3
  <2> QED
    BY <2>1, Zenon
<1>5. c \in Nat
  BY <1>1, <1>3
<1>6. /\ dashboard' \in DashboardRecord /\ dashboard'.inbox = rest /\ dashboard'.count = c
      /\ dashboard'.astray = dashboard.astray /\ dashboard'.list = dashboard.list
      /\ dashboard'.socket = dashboard.socket
  BY <1>2, <1>3, <1>4, <1>5 DEF DashboardRecord
<1>7. dashboard.astray \/ ~ StillLoading
  BY <1>2 DEF EventsInv, LoadsInQuiet
<1>8. LoadsInQuiet' /\ ListIsRight'
  BY <1>6, <1>7 DEF LoadsInQuiet, ListIsRight, StillLoading
<1>9. PageGoes(dashboard')
  BY <1>2 DEF PageGoes
<1>10. ASSUME Listens'
       PROVE  /\ Listens
              /\ \A n : PageTells(n) => Tells(dashboard'.inbox, dashboard'.count, n)
  <2>1. Listens /\ dashboard.list = "loaded"
    BY <1>6, <1>10 DEF Listens
  <2>2. ASSUME NEW n, PageTells(n) PROVE Tells(rest, c, n)
    <3>1. c = IF Head(dashboard.inbox) = "security_event" THEN dashboard.count + 1 ELSE 0
      BY <1>1, <2>1
    <3>2. Tells(dashboard.inbox, dashboard.count, n)
      BY <2>2 DEF PageTells
    <3>3. Tells(Tail(dashboard.inbox), IF Head(dashboard.inbox) = "security_event"
                                         THEN dashboard.count + 1 ELSE 0, n)
      BY <1>2, <1>3, <3>2, TellsHandled
    <3> QED
      BY <1>4, <3>1, <3>3
  <2> QED
    BY <1>6, <2>1, <2>2
<1>11. ASSUME ~ requestsOverlap, Listens, Quiet PROVE PageTells(Cardinality(Unresolved))
  BY <1>11 DEF EventsInv, RequestInStep, InStep, PageInStep, NoRequest
<1> QED
  BY <1>6, <1>8, <1>9, <1>10, <1>11, PageMovesKeep

LEMMA EventsInvKept == EventsInv /\ [EventsNext]_eventsVars => EventsInv'
<1> SUFFICES ASSUME EventsInv, [EventsNext]_eventsVars PROVE EventsInv'
  OBVIOUS
<1>1. CASE UNCHANGED eventsVars
  BY <1>1 DEF eventsVars, EventsInv, EventTypes, LoadsInQuiet, ListIsRight, RequestInStep, InStep,
     TableInStep, PageInStep, Listens, PageTells, StillLoading, Quiet, Unresolved
<1> QED
  BY <1>1, OpenDashboardKeeps, ListMachinesKeeps, BecomesReadyKeeps, GivesUpKeeps, onmessageKeeps,
     ReportKeeps, CreateKeeps, AnnounceKeeps, KnownEventKeeps, ResolveAllKeeps, SetStatusKeeps,
     CountOpenKeeps, WriteCacheKeeps DEF EventsNext

\* THEOREM.  Requests that come one after the other keep the rows, the count in
\* the state cache and the number on the dashboard in step, for any number of
\* rows, requests and messages under way, but for what OneAfterTheOther excuses;
\* a subject gets a row of its own only when all its earlier rows were resolved
\* (api/agent/security-events, api/vms/[id]/security, app/page.tsx).
THEOREM OneAfterTheOtherHolds == EventsSpec => []OneAfterTheOther
<1>1. ASSUME EventsInv PROVE OneAfterTheOther
  <2>1. SUFFICES ASSUME ~ requestsOverlap PROVE OneAfterTheOther
    BY DEF OneAfterTheOther
  <2>2. NoRequest.at = "idle"
    BY DEF NoRequest
  <2>3. Quiet => cached = Cardinality(Unresolved)
    BY <1>1, <2>1, <2>2 DEF EventsInv, RequestInStep, InStep, TableInStep
  <2>4. ASSUME Quiet, dashboard.list = "loaded", dashboard.socket = "open",
               dashboard.inbox = <<>>, ~ dashboard.astray
        PROVE  dashboard.count = Cardinality(Unresolved)
    <3>1. Tells(<<>>, dashboard.count, Cardinality(Unresolved))
      BY <1>1, <2>1, <2>2, <2>4 DEF EventsInv, RequestInStep, InStep, PageInStep, Listens, PageTells
    <3>2. dashboard.count \in Nat
      BY <1>1 DEF EventsInv, EventTypes, DashboardRecord
    <3> QED
      BY <3>1, <3>2, TellsWhenEmpty
  <2>5. \A r \in EventRequests : request[r].at = "creating" => Unresolved = {}
    BY <1>1, <2>1 DEF EventsInv, RequestInStep, InStep, TableInStep
  <2> QED
    BY <2>3, <2>4, <2>5 DEF OneAfterTheOther
<1> QED
  BY <1>1, EventsInvInit, EventsInvKept, PTL DEF EventsSpec


-----------------------------------------------------------------------------
(* NotificationsPage: the settings of the mails.                           *)

Forms == [mail : Nat, complete : BOOLEAN, schedule : Nat, password : Nat, number : Nat]
Submissions == [for : {"nothing", "save", "schedule", "test"},
                at : {"idle", "asked", "served", "refused"}, config : Forms]

SettingsTypes ==
  /\ configRow \in Forms /\ form \in Forms /\ autoSaveTimer \in Forms
  /\ pageState \in {"loading", "fresh", "ready"}
  /\ submissions \in [Posts -> Submissions]
  /\ edits \in Nat /\ lastSent \in Nat /\ lastServed \in Nat
  /\ kept \in [mail : Nat, password : Nat]

\* Requests that store something, and those of them that have not yet.
Storing(p) == submissions[p].for \in {"save", "schedule"}
StillAsked(p) == Storing(p) /\ submissions[p].at = "asked"
Stored(p) == Storing(p) /\ submissions[p].at = "served"

\* Requests are numbered as they are sent, and there is none before the row
\* is there, nor anything in the timer.
Numbered ==
  /\ lastServed <= lastSent
  /\ \A p \in Posts : Storing(p) => submissions[p].config.number \in 1..lastSent
  /\ \A p \in Posts : StillAsked(p) => submissions[p].config.number # lastServed
  /\ \A p, q \in Posts : Storing(p) /\ Storing(q) /\ p # q =>
       submissions[p].config.number # submissions[q].config.number
  /\ pageState # "ready" => autoSaveTimer = NoForm
  /\ pageState = "loading" => form = NoForm /\ edits = 0 /\ \A p \in Posts : submissions[p] = NoPost

\* What the timer holds is the schedule of the form and, if the mail was not
\* edited since, all of it; passwords typed later are greater.
FormIsNewest ==
  /\ form.mail <= edits + 1 /\ form.password <= edits + 2
  /\ autoSaveTimer.mail <= form.mail /\ autoSaveTimer.password <= edits + 2
  /\ autoSaveTimer # NoForm =>
       /\ autoSaveTimer.schedule = form.schedule
       /\ autoSaveTimer.mail = form.mail => autoSaveTimer.password = form.password
  /\ \A p \in Posts : Storing(p) =>
       submissions[p].config.mail <= form.mail /\ submissions[p].config.password <= edits + 2
  /\ form.password > Masked =>
       /\ autoSaveTimer.password <= form.password
       /\ \A p \in Posts : Storing(p) => submissions[p].config.password <= form.password

\* A field that is masked has a password behind it.
MaskedIsStored ==
  /\ configRow.password # Masked
  /\ Masked = form.password \/ Masked = autoSaveTimer.password
       \/ (\E p \in Posts : Storing(p) /\ Masked = submissions[p].config.password)
     => configRow.password > Masked

RowIsOfTheForm ==
  /\ configRow.password <= edits + 2
  /\ form.password > Masked => configRow.password <= form.password
  /\ pageState # "loading" /\ "unloaded" \notin trouble => configRow.mail <= form.mail
  /\ pageState = "loading" => configRow.mail = 1

\* The schedule of the form is in the timer, in the request sent last, or in
\* the row, and then what is still on its way is older.
InRow == configRow.schedule = form.schedule
           /\ \A p \in Posts : StillAsked(p) => submissions[p].config.number < lastServed
OnItsWay(p) ==
  /\ StillAsked(p) /\ submissions[p].config.schedule = form.schedule
  /\ lastServed < submissions[p].config.number
  /\ \A q \in Posts : StillAsked(q) => submissions[q].config.number <= submissions[p].config.number

ScheduleIsSomewhere ==
  \/ pageState = "loading" \/ autoSaveTimer # NoForm \/ InRow \/ \E p \in Posts : OnItsWay(p)
  \/ \E t \in {"unloaded", "early", "overtaken", "refused", "failed"} : t \in trouble

\* Requests sent later hold newer fields and passwords, the row is older than
\* those to come and newer than those it has seen.
InOrder ==
  /\ \A p, q \in Posts : Storing(p) /\ Storing(q)
                         /\ submissions[p].config.number < submissions[q].config.number =>
       /\ submissions[p].config.mail <= submissions[q].config.mail
       /\ submissions[q].config.password > Masked =>
            submissions[p].config.password <= submissions[q].config.password
  /\ \A p \in Posts : StillAsked(p) /\ lastServed < submissions[p].config.number =>
       /\ configRow.mail <= submissions[p].config.mail
       /\ submissions[p].config.password > Masked => configRow.password <= submissions[p].config.password
  /\ \A p \in Posts : Stored(p) =>
       submissions[p].config.mail <= configRow.mail /\ submissions[p].config.password <= configRow.password
  /\ kept.mail <= configRow.mail /\ kept.password <= configRow.password

NothingIsOvertaken ==
  "stale" \notin trouble /\ "overtaken" \notin trouble /\ "unloaded" \notin trouble => InOrder

SettingsInv ==
  /\ SettingsTypes /\ Numbered /\ FormIsNewest /\ MaskedIsStored /\ RowIsOfTheForm
  /\ ScheduleIsSomewhere /\ NothingIsOvertaken


\* Every step keeps the types.
LEMMA SettingsTypesStep ==
  ASSUME SettingsTypes, [NotificationsPageNext]_notificationsPageVars
  PROVE  SettingsTypes'
<1> USE NotificationsPageAssumption DEF SettingsTypes
<1>0. NoForm \in Forms /\ NoPost \in Submissions
  BY DEF NoForm, NoPost, NoSecretYet, Forms, Submissions
<1>1. CASE loadConfig
  <2>1. \/ form' = form
        \/ form' = [configRow EXCEPT !.password = IF @ = NoSecretYet THEN @ ELSE Masked]
    BY <1>1 DEF loadConfig
  <2>2. form' \in Forms
    BY <2>1 DEF Forms, NoSecretYet, Masked
  <2> QED
    BY <1>1, <2>2 DEF loadConfig
<1>2. CASE FirstLoadOver
  BY <1>2 DEF FirstLoadOver
<1>3. CASE EditMail
  <2>1. PICK complete \in BOOLEAN, password \in {form.password, NoSecretYet, edits + 3} :
           form' = [form EXCEPT !.mail = edits + 2, !.complete = complete, !.password = password]
    BY <1>3 DEF EditMail
  <2>2. password \in Nat
    BY <2>1 DEF Forms, NoSecretYet
  <2>3. edits + 2 \in Nat
    OBVIOUS
  <2>4. form' \in Forms
    BY <2>1, <2>2, <2>3, Zenon DEF Forms
  <2> QED
    BY <1>3, <2>4 DEF EditMail, Edits
<1>4. CASE EditEvents
  BY <1>4 DEF EditEvents, Edits, Forms
<1>5. CASE EditSchedule
  <2>1. form' = [form EXCEPT !.schedule = edits + 2] /\ edits' = edits + 1
    BY <1>5 DEF EditSchedule, ScheduleCard, Edits
  <2>2. form' \in Forms
    BY <2>1 DEF Forms
  <2>3. autoSaveTimer' \in {autoSaveTimer, form'} /\ UNCHANGED <<configRow, pageState, submissions, lastSent, lastServed, kept>>
    BY <1>5 DEF EditSchedule
  <2> QED
    BY <2>1, <2>2, <2>3
<1>6. ASSUME NEW p \in Posts, SaveServed(p) PROVE SettingsTypes'
  <2> DEFINE new == submissions[p].config
  <2>1. new \in Forms /\ new.number \in Nat
    BY DEF Forms, Submissions
  <2>2. configRow' \in Forms
    <3>1. FinalPassword(new.password, configRow.password) \in Nat
      BY <2>1 DEF FinalPassword, Forms
    <3>2. [new EXCEPT !.password = FinalPassword(@, configRow.password), !.number = 0] \in Forms
      BY <2>1, <3>1 DEF Forms
    <3> QED
      BY <1>6, <3>2 DEF SaveServed
  <2>3. submissions' \in [Posts -> Submissions]
    BY <1>6 DEF SaveServed, Submissions
  <2> QED
    BY <1>6, <2>1, <2>2, <2>3 DEF SaveServed
<1>7. ASSUME NEW p \in Posts, TestServed(p) PROVE SettingsTypes'
  <2> DEFINE old == submissions[p].config
             password == TestPassword(old.password, configRow.password)
  <2>1. [old EXCEPT !.password = password] \in Forms
    BY DEF Submissions, TestPassword, Forms
  <2>2. submissions' = [submissions EXCEPT ![p].at = "served", ![p].config.password = password]
    BY <1>7 DEF TestServed
  <2>3. submissions' \in [Posts -> Submissions]
    BY <2>1, <2>2, ZenonT(60) DEF Submissions
  <2> QED
    BY <1>7, <2>3 DEF TestServed
<1>8. ASSUME NEW p \in Posts, handleSave(p) \/ saveSchedule(p) \/ handleTest(p) PROVE SettingsTypes'
  BY <1>0, <1>8
     DEF handleSave, saveSchedule, handleTest, SaveButton, TestButton, Edits, Submits, Submissions, Forms
<1>9. ASSUME NEW p \in Posts,
             SaveReported(p) \/ ScheduleReported(p) \/ TestReported(p) \/ SaveFails(p)
      PROVE  SettingsTypes'
  BY <1>0, <1>9
     DEF SaveReported, ScheduleReported, TestReported, SaveFails, PostOver, Submissions, Later, Forms
<1>10. CASE UNCHANGED notificationsPageVars
  BY <1>10 DEF notificationsPageVars
<1> QED
  BY <1>1, <1>2, <1>3, <1>4, <1>5, <1>6, <1>7, <1>8, <1>9, <1>10 DEF NotificationsPageNext


-----------------------------------------------------------------------------
(* What a step does to the requests.                                       *)

\* A request to store that is served.
LEMMA Served ==
  ASSUME SettingsTypes, NEW p \in Posts, SaveServed(p)
  PROVE  /\ StillAsked(p) /\ submissions'[p].for = submissions[p].for
         /\ submissions'[p].config = submissions[p].config
         /\ \/ /\ submissions'[p].at = "served"
               /\ IF submissions[p].config.number < lastServed
                    THEN "overtaken" \in trouble' /\ lastServed' = lastServed
                    ELSE lastServed' = submissions[p].config.number
               /\ configRow'.mail = submissions[p].config.mail
               /\ configRow'.schedule = submissions[p].config.schedule
               /\ configRow'.password =
                    FinalPassword(submissions[p].config.password, configRow.password)
            \/ /\ submissions'[p].at = "refused" /\ "refused" \in trouble'
               /\ UNCHANGED <<configRow, lastServed>>
         /\ \A q \in Posts : q # p => submissions'[q] = submissions[q]
         /\ trouble \subseteq trouble'
         /\ UNCHANGED <<form, pageState, autoSaveTimer, edits, lastSent, kept>>
<1>1. submissions[p] \in Submissions /\ submissions[p].config \in Forms
  BY DEF SettingsTypes, Submissions
<1>2. /\ submissions'[p].for = submissions[p].for
      /\ submissions'[p].config = submissions[p].config
      /\ submissions'[p].at = IF submissions[p].config.complete THEN "served" ELSE "refused"
      /\ \A q \in Posts : q # p => submissions'[q] = submissions[q]
  BY <1>1 DEF SaveServed, SettingsTypes, Submissions
<1>3. StillAsked(p)
  BY DEF SaveServed, StillAsked, Storing
<1>4. CASE submissions[p].config.complete
  <2> DEFINE new == submissions[p].config
  <2>1. configRow' = [new EXCEPT !.password = FinalPassword(@, configRow.password), !.number = 0]
    BY <1>4 DEF SaveServed
  <2>2. /\ configRow'.mail = new.mail /\ configRow'.schedule = new.schedule
        /\ configRow'.password = FinalPassword(new.password, configRow.password)
    BY <1>1, <2>1 DEF Forms
  <2> QED
    BY <1>2, <1>3, <1>4, <2>2 DEF SaveServed
<1>5. CASE ~submissions[p].config.complete
  BY <1>2, <1>3, <1>5 DEF SaveServed
<1> QED
  BY <1>4, <1>5

\* A test that is served stores nothing.
LEMMA TestsStoreNothing ==
  ASSUME SettingsTypes, NEW p \in Posts, TestServed(p)
  PROVE  /\ ~Storing(p) /\ ~Storing(p)'
         /\ \A q \in Posts : q # p => submissions'[q] = submissions[q]
         /\ UNCHANGED <<configRow, form, pageState, autoSaveTimer, edits, lastSent, lastServed, kept, trouble>>
BY DEF SettingsTypes, Submissions, TestServed, Storing


-----------------------------------------------------------------------------
(* The parts of the invariant, one by one.                                 *)

\* A request gets the next number, and is served once.
LEMMA NumberedStep ==
  ASSUME SettingsTypes, Numbered, NotificationsPageNext
  PROVE  Numbered'
<1> USE DEF SettingsTypes, Submissions, Forms, Numbered, Storing, StillAsked, NoForm, NoPost
<1>1. CASE loadConfig \/ FirstLoadOver \/ EditMail \/ EditEvents \/ EditSchedule
  <2>1. CASE loadConfig
    BY <2>1 DEF loadConfig
  <2>2. CASE FirstLoadOver
    BY <2>2 DEF FirstLoadOver
  <2>3. CASE EditMail
    BY <2>3 DEF EditMail, Edits, Loaded
  <2>4. CASE EditEvents
    BY <2>4 DEF EditEvents, Edits, Loaded
  <2>5. CASE EditSchedule
    BY <2>5 DEF EditSchedule, ScheduleCard, Edits, Loaded
  <2> QED
    BY <1>1, <2>1, <2>2, <2>3, <2>4, <2>5
<1>2. ASSUME NEW p \in Posts, handleSave(p) PROVE Numbered'
  BY <1>2 DEF handleSave, SaveButton, Edits, Loaded, Submits
<1>3. ASSUME NEW p \in Posts, saveSchedule(p) PROVE Numbered'
  BY <1>3 DEF saveSchedule, Submits
<1>4. ASSUME NEW p \in Posts, handleTest(p) PROVE Numbered'
  BY <1>4 DEF handleTest, TestButton, Edits, Loaded, Submits
<1>5. ASSUME NEW p \in Posts, SaveServed(p) PROVE Numbered'
  <2> HIDE DEF SettingsTypes, Submissions, Forms, Numbered, Storing, StillAsked
  <2>1. \A q \in Posts : /\ Storing(q)' <=> Storing(q)
                         /\ StillAsked(q)' => StillAsked(q) /\ q # p
                         /\ submissions'[q].config = submissions[q].config
    BY <1>5, Served DEF Storing, StillAsked
  <2>2. /\ lastServed' = lastServed \/ lastServed' = submissions[p].config.number
        /\ Storing(p) /\ StillAsked(p) /\ pageState # "loading"
    BY <1>5, Served DEF StillAsked, Storing, Numbered
  <2>3. UNCHANGED <<form, pageState, autoSaveTimer, edits, lastSent>>
    BY <1>5, Served
  <2>4. lastServed' <= lastSent' /\ lastSent \in Nat
    BY <2>2, <2>3 DEF Numbered, SettingsTypes
  <2>5. ASSUME NEW q \in Posts, StillAsked(q)' PROVE submissions'[q].config.number # lastServed'
    BY <2>1, <2>2, <2>5 DEF Numbered, StillAsked
  <2> QED
    BY <2>1, <2>2, <2>3, <2>4, <2>5 DEF Numbered
<1>6. ASSUME NEW p \in Posts, TestServed(p) PROVE Numbered'
  <2>1. pageState # "loading"
    BY <1>6 DEF TestServed
  <2> QED
    BY <1>6, <2>1, TestsStoreNothing, SMTT(20)
<1>7. ASSUME NEW p \in Posts, SaveReported(p) \/ ScheduleReported(p) \/ TestReported(p) \/ SaveFails(p)
      PROVE  Numbered'
  BY <1>7, SMTT(60) DEF SaveReported, ScheduleReported, TestReported, SaveFails, PostOver
<1> QED
  BY <1>1, <1>2, <1>3, <1>4, <1>5, <1>6, <1>7 DEF NotificationsPageNext

\* Whatever is typed is newer than what is on its way.
LEMMA FormIsNewestStep ==
  ASSUME SettingsTypes, Numbered, FormIsNewest, RowIsOfTheForm, NotificationsPageNext
  PROVE  FormIsNewest'
<1> USE DEF SettingsTypes, Submissions, Forms, FormIsNewest, Storing, NoForm, NoPost, Masked, NoSecretYet
<1>1. CASE loadConfig
  <2>1. /\ \A p \in Posts : submissions[p] = NoPost
        /\ autoSaveTimer = NoForm /\ edits = 0 /\ form = NoForm /\ configRow.mail = 1
    BY <1>1 DEF loadConfig, Numbered, RowIsOfTheForm
  <2>2. UNCHANGED <<submissions, autoSaveTimer, edits>>
    BY <1>1 DEF loadConfig
  <2>3. CASE form' = form
    BY <2>1, <2>2, <2>3
  <2>4. CASE form' = [configRow EXCEPT !.password = IF @ = NoSecretYet THEN @ ELSE Masked]
    <3>1. form'.mail = 1 /\ (form'.password = 0 \/ form'.password = 1)
      BY <2>1, <2>4
    <3> QED
      BY <2>1, <2>2, <3>1
  <2> QED
    BY <1>1, <2>3, <2>4 DEF loadConfig
<1>2. CASE FirstLoadOver \/ EditMail \/ EditEvents
  <2>1. CASE FirstLoadOver
    BY <2>1 DEF FirstLoadOver
  <2>2. CASE EditMail
    BY <2>2 DEF EditMail, Edits, Loaded
  <2>3. CASE EditEvents
    BY <2>3 DEF EditEvents, Edits, Loaded
  <2> QED
    BY <1>2, <2>1, <2>2, <2>3
<1>3. CASE EditSchedule
  BY <1>3 DEF EditSchedule, ScheduleCard, Edits, Loaded, Numbered
<1>4. ASSUME NEW p \in Posts, handleSave(p) PROVE FormIsNewest'
  BY <1>4 DEF handleSave, SaveButton, Edits, Loaded, Submits
<1>5. ASSUME NEW p \in Posts, saveSchedule(p) PROVE FormIsNewest'
  BY <1>5 DEF saveSchedule, Submits
<1>6. ASSUME NEW p \in Posts, handleTest(p) PROVE FormIsNewest'
  BY <1>6 DEF handleTest, TestButton, Edits, Loaded, Submits
<1>7. ASSUME NEW p \in Posts, SaveServed(p) PROVE FormIsNewest'
  BY <1>7, Served
<1>8. ASSUME NEW p \in Posts, TestServed(p) PROVE FormIsNewest'
  BY <1>8, TestsStoreNothing
<1>9. ASSUME NEW p \in Posts, SaveReported(p) \/ ScheduleReported(p) \/ TestReported(p) \/ SaveFails(p)
      PROVE  FormIsNewest'
  BY <1>9 DEF SaveReported, ScheduleReported, TestReported, SaveFails, PostOver
<1> QED
  BY <1>1, <1>2, <1>3, <1>4, <1>5, <1>6, <1>7, <1>8, <1>9 DEF NotificationsPageNext

\* The page masks a password only if one is stored, and none is ever deleted.
LEMMA MaskedIsStoredStep ==
  ASSUME SettingsTypes, Numbered, MaskedIsStored, NotificationsPageNext
  PROVE  MaskedIsStored'
<1> USE DEF SettingsTypes, Submissions, Forms, MaskedIsStored, Storing, NoForm, NoPost, Masked, NoSecretYet
<1>1. CASE loadConfig \/ FirstLoadOver \/ EditMail \/ EditEvents \/ EditSchedule
  <2>1. CASE loadConfig
    BY <2>1 DEF loadConfig, Numbered
  <2>2. CASE FirstLoadOver
    BY <2>2 DEF FirstLoadOver, Numbered
  <2>3. CASE EditMail
    BY <2>3 DEF EditMail, Edits, Loaded, Numbered
  <2>4. CASE EditEvents
    BY <2>4 DEF EditEvents, Edits, Loaded, Numbered
  <2>5. CASE EditSchedule
    BY <2>5 DEF EditSchedule, ScheduleCard, Edits, Loaded, Numbered
  <2> QED
    BY <1>1, <2>1, <2>2, <2>3, <2>4, <2>5
<1>2. ASSUME NEW p \in Posts, handleSave(p) PROVE MaskedIsStored'
  BY <1>2 DEF handleSave, SaveButton, Edits, Loaded, Submits
<1>3. ASSUME NEW p \in Posts, saveSchedule(p) PROVE MaskedIsStored'
  BY <1>3 DEF saveSchedule, Submits
<1>4. ASSUME NEW p \in Posts, handleTest(p) PROVE MaskedIsStored'
  BY <1>4 DEF handleTest, TestButton, Edits, Loaded, Submits
<1>5. ASSUME NEW p \in Posts, SaveServed(p) PROVE MaskedIsStored'
  <2>1. Storing(p) /\ UNCHANGED <<form, autoSaveTimer>>
    BY <1>5, Served DEF StillAsked
  <2>2. \A q \in Posts : /\ Storing(q)' <=> Storing(q)
                         /\ submissions'[q].config.password = submissions[q].config.password
    BY <1>5, Served
  <2>3. \/ configRow' = configRow
        \/ configRow'.password = FinalPassword(submissions[p].config.password, configRow.password)
    BY <1>5, Served
  <2>4. configRow'.password = configRow.password \/ configRow'.password > Masked
    BY <2>1, <2>3 DEF FinalPassword
  <2>5. CASE configRow'.password = configRow.password
    BY <2>1, <2>2, <2>5
  <2>6. CASE configRow'.password > Masked
    BY <2>6
  <2> QED
    BY <2>4, <2>5, <2>6
<1>6. ASSUME NEW p \in Posts, TestServed(p) PROVE MaskedIsStored'
  BY <1>6, TestsStoreNothing
<1>7. ASSUME NEW p \in Posts, SaveReported(p) \/ ScheduleReported(p) \/ TestReported(p) \/ SaveFails(p)
      PROVE  MaskedIsStored'
  BY <1>7 DEF SaveReported, ScheduleReported, TestReported, SaveFails, PostOver
<1> QED
  BY <1>1, <1>2, <1>3, <1>4, <1>5, <1>6, <1>7 DEF NotificationsPageNext

\* What the row holds was typed before what the form holds.
LEMMA RowIsOfTheFormStep ==
  ASSUME SettingsTypes, Numbered, FormIsNewest, RowIsOfTheForm, NotificationsPageNext
  PROVE  RowIsOfTheForm'
<1> USE DEF SettingsTypes, Submissions, Forms, RowIsOfTheForm, Masked, NoSecretYet
<1>1. CASE loadConfig \/ FirstLoadOver \/ EditMail \/ EditEvents \/ EditSchedule
  <2>1. CASE loadConfig
    BY <2>1 DEF loadConfig, Numbered, FormIsNewest, NoForm
  <2>2. CASE FirstLoadOver
    BY <2>2 DEF FirstLoadOver, Numbered, FormIsNewest, NoForm
  <2>3. CASE EditMail
    BY <2>3 DEF EditMail, Edits, Loaded, Numbered, FormIsNewest, NoForm
  <2>4. CASE EditEvents
    BY <2>4 DEF EditEvents, Edits, Loaded, Numbered, FormIsNewest, NoForm
  <2>5. CASE EditSchedule
    BY <2>5 DEF EditSchedule, ScheduleCard, Edits, Loaded, Numbered, FormIsNewest, NoForm
  <2> QED
    BY <1>1, <2>1, <2>2, <2>3, <2>4, <2>5
<1>2. ASSUME NEW p \in Posts, handleSave(p) \/ saveSchedule(p) \/ handleTest(p) PROVE RowIsOfTheForm'
  BY <1>2 DEF handleSave, saveSchedule, handleTest, SaveButton, TestButton, Edits
<1>3. ASSUME NEW p \in Posts, SaveServed(p) PROVE RowIsOfTheForm'
  <2>1. Storing(p) /\ pageState # "loading"
    BY <1>3, Served DEF StillAsked, Storing, Numbered, NoPost
  <2>2. UNCHANGED <<form, pageState, edits>> /\ trouble \subseteq trouble'
    BY <1>3, Served
  <2>3. \/ configRow' = configRow
        \/ /\ configRow'.mail = submissions[p].config.mail
           /\ \/ configRow'.password = configRow.password
              \/ configRow'.password = submissions[p].config.password
    BY <1>3, Served DEF FinalPassword
  <2> QED
    BY <2>1, <2>2, <2>3 DEF FormIsNewest
<1>4. ASSUME NEW p \in Posts, TestServed(p) PROVE RowIsOfTheForm'
  BY <1>4, TestsStoreNothing
<1>5. ASSUME NEW p \in Posts, SaveReported(p) \/ ScheduleReported(p) \/ TestReported(p) \/ SaveFails(p)
      PROVE  RowIsOfTheForm'
  BY <1>5 DEF SaveReported, ScheduleReported, TestReported, SaveFails
<1> QED
  BY <1>1, <1>2, <1>3, <1>4, <1>5 DEF NotificationsPageNext

\* A served request stores its schedule, and only an overtaking one replaces it.
LEMMA ScheduleIsSomewhereStep ==
  ASSUME SettingsTypes, Numbered, FormIsNewest, ScheduleIsSomewhere, NotificationsPageNext
  PROVE  ScheduleIsSomewhere'
<1> USE DEF SettingsTypes, Submissions, Forms, ScheduleIsSomewhere, InRow, OnItsWay, Storing, StillAsked,
            NoForm, NoPost
<1>1. CASE loadConfig
  <2>1. /\ \A p \in Posts : submissions[p] = NoPost /\ UNCHANGED submissions
        /\ UNCHANGED configRow
    BY <1>1 DEF loadConfig, Numbered
  <2>2. \/ form'.schedule = configRow.schedule
        \/ "unloaded" \in trouble'
    BY <1>1 DEF loadConfig
  <2> QED
    BY <2>1, <2>2
<1>2. CASE FirstLoadOver
  BY <1>2 DEF FirstLoadOver
<1>3. CASE EditMail
  BY <1>3 DEF EditMail, Edits, Loaded
<1>4. CASE EditEvents
  BY <1>4 DEF EditEvents, Edits, Loaded
<1>5. CASE EditSchedule
  BY <1>5 DEF EditSchedule, ScheduleCard, Edits, Loaded
<1>6. ASSUME NEW p \in Posts, handleSave(p) PROVE ScheduleIsSomewhere'
  BY <1>6, SMTT(60) DEF handleSave, SaveButton, Edits, Submits, Numbered
<1>7. ASSUME NEW p \in Posts, saveSchedule(p) PROVE ScheduleIsSomewhere'
  BY <1>7 DEF saveSchedule, Submits, Numbered, FormIsNewest
<1>8. ASSUME NEW p \in Posts, handleTest(p) PROVE ScheduleIsSomewhere'
  BY <1>8 DEF handleTest, TestButton, Edits, Submits
<1>9. ASSUME NEW p \in Posts, SaveServed(p) PROVE ScheduleIsSomewhere'
  <2>0. lastServed \in Nat /\ \A q \in Posts : submissions[q].config.number \in Nat
    OBVIOUS
  <2>1. /\ UNCHANGED <<form, pageState, autoSaveTimer>> /\ trouble \subseteq trouble'
        /\ StillAsked(p) /\ ~StillAsked(p)'
    BY <1>9, Served
  <2>2. \A q \in Posts : q # p => /\ StillAsked(q)' <=> StillAsked(q)
                                  /\ submissions'[q].config = submissions[q].config
    BY <1>9, Served
  <2>3. CASE "refused" \in trouble' \/ "overtaken" \in trouble'
    BY <2>3
  <2>4. CASE /\ configRow'.schedule = submissions[p].config.schedule
             /\ lastServed' = submissions[p].config.number
             /\ ~(submissions[p].config.number < lastServed)
    <3>1. CASE OnItsWay(p)
      <4>1. ASSUME NEW q \in Posts, StillAsked(q)'
            PROVE  submissions'[q].config.number < lastServed'
        <5>1. q # p /\ submissions'[q].config = submissions[q].config /\ StillAsked(q)
          BY <2>1, <2>2, <4>1
        <5>2. submissions[q].config.number # submissions[p].config.number
          BY <2>1, <5>1 DEF Numbered
        <5>3. submissions[q].config.number <= submissions[p].config.number
          BY <3>1, <5>1
        <5>4. submissions[q].config.number < submissions[p].config.number
          <6> HIDE DEF SettingsTypes, Submissions, Forms, ScheduleIsSomewhere, OnItsWay, StillAsked, Storing
          <6> QED
            BY <2>0, <5>2, <5>3
        <5> QED
          BY <2>4, <5>1, <5>4
      <4> QED
        BY <2>1, <2>4, <3>1, <4>1
    <3>2. ASSUME NEW r \in Posts, r # p, OnItsWay(r) PROVE ScheduleIsSomewhere'
      <4>1. submissions[p].config.number < submissions[r].config.number
        <5>1. submissions[p].config.number # submissions[r].config.number
          BY <2>1, <3>2 DEF Numbered
        <5>2. submissions[p].config.number <= submissions[r].config.number
          BY <2>1, <3>2
        <5> HIDE DEF SettingsTypes, Submissions, Forms, ScheduleIsSomewhere, OnItsWay, StillAsked, Storing
        <5> QED
          BY <2>0, <5>1, <5>2
      <4> QED
        BY <2>1, <2>2, <2>4, <3>2, <4>1
    <3>3. CASE InRow
      BY <2>1, <2>4, <3>3
    <3> QED
      BY <2>1, <3>1, <3>2, <3>3
  <2> QED
    BY <1>9, <2>3, <2>4, Served
<1>10. ASSUME NEW p \in Posts, TestServed(p) PROVE ScheduleIsSomewhere'
  BY <1>10, TestsStoreNothing
<1>11. ASSUME NEW p \in Posts, SaveReported(p) \/ ScheduleReported(p) \/ TestReported(p)
       PROVE  ScheduleIsSomewhere'
  <2>1. CASE SaveReported(p)
    BY <2>1 DEF SaveReported, PostOver
  <2>2. CASE ScheduleReported(p)
    BY <2>2 DEF ScheduleReported, PostOver
  <2>3. CASE TestReported(p)
    BY <2>3 DEF TestReported, PostOver
  <2> QED
    BY <1>11, <2>1, <2>2, <2>3
<1>12. ASSUME NEW p \in Posts, SaveFails(p) PROVE ScheduleIsSomewhere'
  BY <1>12 DEF SaveFails, PostOver
<1> QED
  BY <1>1, <1>2, <1>3, <1>4, <1>5, <1>6, <1>7, <1>8, <1>9, <1>10, <1>11, <1>12 DEF NotificationsPageNext

\* Without a stale timer requests hold newer fields the later they are sent.
LEMMA NothingIsOvertakenStep ==
  ASSUME SettingsInv, NotificationsPageNext
  PROVE  NothingIsOvertaken'
<1> USE DEF SettingsInv, SettingsTypes, Submissions, Forms, NothingIsOvertaken, InOrder, Storing,
            StillAsked, Stored, NoForm, NoPost, Masked, NoSecretYet
<1>1. CASE loadConfig
  BY <1>1 DEF loadConfig
<1>2. CASE FirstLoadOver \/ EditMail \/ EditEvents \/ EditSchedule
  <2>1. UNCHANGED <<configRow, submissions, lastServed, kept>> /\ trouble \subseteq trouble'
    BY <1>2 DEF FirstLoadOver, EditMail, EditEvents, EditSchedule
  <2> QED
    BY <2>1
<1>3. ASSUME NEW p \in Posts, handleSave(p) PROVE NothingIsOvertaken'
  BY <1>3 DEF handleSave, SaveButton, Edits, Loaded, Submits, Numbered, FormIsNewest, RowIsOfTheForm
<1>4. ASSUME NEW p \in Posts, saveSchedule(p), "stale" \notin trouble', "unloaded" \notin trouble
      PROVE  NothingIsOvertaken'
  <2>1. /\ Submits(p, "schedule", autoSaveTimer) /\ UNCHANGED <<configRow, lastServed, kept>>
        /\ trouble' = trouble /\ autoSaveTimer # NoForm /\ pageState # "loading"
    BY <1>4 DEF saveSchedule, Numbered
  <2>2. ~(autoSaveTimer.mail < form.mail)
    BY <1>4 DEF saveSchedule
  <2>3. autoSaveTimer.mail = form.mail /\ autoSaveTimer.password = form.password
    <3>1. autoSaveTimer.mail <= form.mail /\ autoSaveTimer.mail \in Nat /\ form.mail \in Nat
      BY DEF FormIsNewest
    <3>2. autoSaveTimer.mail = form.mail
      BY <2>2, <3>1
    <3> QED
      BY <2>1, <3>2 DEF FormIsNewest
  <2> QED
    BY <1>4, <2>1, <2>3 DEF Submits, Numbered, FormIsNewest, RowIsOfTheForm
<1>5. ASSUME NEW p \in Posts, handleTest(p) PROVE NothingIsOvertaken'
  BY <1>5 DEF handleTest, TestButton, Edits, Loaded, Submits
<1>6. ASSUME NEW p \in Posts, SaveServed(p) PROVE NothingIsOvertaken'
  <2> SUFFICES ASSUME "stale" \notin trouble', "overtaken" \notin trouble', "unloaded" \notin trouble'
               PROVE  InOrder'
    OBVIOUS
  <2> DEFINE new == submissions[p].config
  <2>1. /\ UNCHANGED kept /\ InOrder /\ StillAsked(p) /\ ~StillAsked(p)'
        /\ \A q \in Posts : q # p => submissions'[q] = submissions[q]
        /\ submissions'[p].config = new /\ Storing(p)'
    BY <1>6, Served
  <2>2. CASE UNCHANGED <<configRow, lastServed>> /\ ~Stored(p)'
    BY <2>1, <2>2
  <2>3. CASE /\ lastServed' = new.number /\ ~(new.number < lastServed)
             /\ configRow'.mail = new.mail
             /\ configRow'.password = FinalPassword(new.password, configRow.password)
    <3>1. lastServed < new.number
      BY <2>1, <2>3 DEF Numbered
    <3>2. configRow.mail <= new.mail /\ (new.password > Masked => configRow.password <= new.password)
      BY <2>1, <3>1
    <3>3. /\ configRow.password <= configRow'.password /\ new.password <= configRow'.password
          /\ configRow'.password \in Nat
      BY <2>1, <2>3, <3>2 DEF FinalPassword, MaskedIsStored
    <3>4. \A q \in Posts : /\ Storing(q)' <=> Storing(q)
                           /\ submissions'[q].config = submissions[q].config
                           /\ StillAsked(q)' => (StillAsked(q) /\ q # p)
                           /\ Stored(q)' => (Stored(q) \/ q = p)
      BY <2>1
    <3>5. /\ \A q \in Posts : /\ submissions[q].config.number \in Nat
                              /\ submissions[q].config.mail \in Nat
                              /\ submissions[q].config.password \in Nat
          /\ configRow.mail \in Nat /\ configRow.password \in Nat
          /\ lastServed \in Nat /\ kept.mail \in Nat /\ kept.password \in Nat
      OBVIOUS
    <3>6. Storing(p) /\ \A q \in Posts : StillAsked(q) => Storing(q)
      BY <2>1
    <3> HIDE DEF SettingsInv, SettingsTypes, Submissions, Forms, Storing, StillAsked, Stored
    <3>7. ASSUME NEW q \in Posts, StillAsked(q)', lastServed' < submissions'[q].config.number
          PROVE  /\ configRow'.mail <= submissions'[q].config.mail
                 /\ submissions'[q].config.password > Masked =>
                      configRow'.password <= submissions'[q].config.password
      <4>1. new.number < submissions[q].config.number /\ StillAsked(q) /\ lastServed < submissions[q].config.number
        <5>1. StillAsked(q) /\ new.number < submissions[q].config.number
          BY <2>3, <3>4, <3>7
        <5> QED
          BY <3>1, <3>5, <5>1
      <4>2. new.mail <= submissions[q].config.mail
        BY <2>1, <3>6, <4>1
      <4>3. submissions[q].config.password > Masked =>
              new.password <= submissions[q].config.password
              /\ configRow.password <= submissions[q].config.password
        BY <2>1, <3>6, <4>1
      <4>4. configRow'.password = new.password \/ configRow'.password = configRow.password
        BY <2>3 DEF FinalPassword
      <4> QED
        BY <2>3, <3>4, <4>2, <4>3, <4>4
    <3>8. ASSUME NEW q \in Posts, Stored(q)'
          PROVE  /\ submissions'[q].config.mail <= configRow'.mail
                 /\ submissions'[q].config.password <= configRow'.password
      <4>1. CASE q = p
        BY <2>1, <2>3, <3>3, <3>5, <4>1
      <4>2. CASE Stored(q)
        <5>1. /\ submissions[q].config.mail <= configRow.mail
              /\ submissions[q].config.password <= configRow.password
          BY <2>1, <4>2
        <5> QED
          BY <2>3, <3>2, <3>3, <3>4, <3>5, <5>1
      <4> QED
        BY <3>4, <3>8, <4>1, <4>2
    <3>9. kept'.mail <= configRow'.mail /\ kept'.password <= configRow'.password
      BY <2>1, <2>3, <3>2, <3>3, <3>5
    <3>10. \A q, r \in Posts : Storing(q)' /\ Storing(r)'
                               /\ submissions'[q].config.number < submissions'[r].config.number =>
            /\ submissions'[q].config.mail <= submissions'[r].config.mail
            /\ submissions'[r].config.password > Masked =>
                 submissions'[q].config.password <= submissions'[r].config.password
      BY <2>1, <3>4
    <3> QED
      BY <3>7, <3>8, <3>9, <3>10
  <2> QED
    BY <1>6, <2>2, <2>3, Served
<1>7. ASSUME NEW p \in Posts, TestServed(p) PROVE NothingIsOvertaken'
  BY <1>7, TestsStoreNothing
<1>8. ASSUME NEW p \in Posts, SaveReported(p) PROVE NothingIsOvertaken'
  BY <1>8 DEF SaveReported, PostOver, Later
<1>9. ASSUME NEW p \in Posts, ScheduleReported(p) \/ TestReported(p) \/ SaveFails(p)
      PROVE  NothingIsOvertaken'
  <2>1. CASE ScheduleReported(p)
    BY <2>1 DEF ScheduleReported, PostOver
  <2>2. CASE TestReported(p)
    BY <2>2 DEF TestReported, PostOver
  <2>3. CASE SaveFails(p)
    BY <2>3 DEF SaveFails, PostOver
  <2> QED
    BY <1>9, <2>1, <2>2, <2>3
<1> QED
  BY <1>1, <1>2, <1>3, <1>4, <1>5, <1>6, <1>7, <1>8, <1>9 DEF NotificationsPageNext, saveSchedule

\* The form is empty, and no request was sent.
LEMMA SettingsInvInit ==
  ASSUME NotificationsPageInit
  PROVE  SettingsInv
<1>1. PICK p \in {NoSecretYet, 2} : configRow = [NoForm EXCEPT !.mail = 1, !.schedule = 1, !.password = p]
  BY DEF NotificationsPageInit
<1>2. /\ configRow \in Forms /\ configRow.mail = 1
      /\ configRow.password = 0 \/ configRow.password = 2
  <2>1. configRow = [mail |-> 1, complete |-> TRUE, schedule |-> 1, password |-> p, number |-> 0]
    BY <1>1 DEF NoForm
  <2>2. p = 0 \/ p = 2
    BY <1>1 DEF NoSecretYet
  <2> QED
    BY <2>1, <2>2 DEF Forms
<1>3. NoForm \in Forms /\ NoPost \in Submissions
  BY DEF NoForm, NoPost, NoSecretYet, Forms, Submissions
<1>4. SettingsTypes
  BY <1>2, <1>3 DEF NotificationsPageInit, SettingsTypes, Forms
<1>5. \A q \in Posts : ~Storing(q)
  BY DEF NotificationsPageInit, Storing, NoPost
<1>6. Numbered /\ FormIsNewest /\ MaskedIsStored
  BY <1>2, <1>5 DEF NotificationsPageInit, Numbered, FormIsNewest, MaskedIsStored, StillAsked,
                    NoForm, Masked, NoSecretYet
<1>7. RowIsOfTheForm /\ ScheduleIsSomewhere
  BY <1>2 DEF NotificationsPageInit, RowIsOfTheForm, ScheduleIsSomewhere, NoForm, Masked, NoSecretYet
<1>8. NothingIsOvertaken
  BY <1>2, <1>5 DEF NotificationsPageInit, NothingIsOvertaken, InOrder, StillAsked, Stored
<1> QED
  BY <1>4, <1>6, <1>7, <1>8 DEF SettingsInv

\* Every step keeps all parts.
LEMMA SettingsInvStep ==
  ASSUME SettingsInv, [NotificationsPageNext]_notificationsPageVars
  PROVE  SettingsInv'
<1>1. CASE NotificationsPageNext
  BY <1>1, SettingsTypesStep, NumberedStep, FormIsNewestStep, MaskedIsStoredStep, RowIsOfTheFormStep,
     ScheduleIsSomewhereStep, NothingIsOvertakenStep DEF SettingsInv
<1>2. CASE UNCHANGED notificationsPageVars
  <2>1. UNCHANGED <<configRow, form, pageState, autoSaveTimer, submissions, edits, lastSent, lastServed,
                    kept, trouble>>
    BY <1>2 DEF notificationsPageVars
  <2>2. SettingsTypes' /\ Numbered' /\ FormIsNewest' /\ MaskedIsStored' /\ RowIsOfTheForm'
    BY <2>1 DEF SettingsInv, SettingsTypes, Numbered, FormIsNewest, MaskedIsStored, RowIsOfTheForm,
                Storing, StillAsked
  <2>3. ScheduleIsSomewhere' /\ NothingIsOvertaken'
    BY <2>1 DEF SettingsInv, ScheduleIsSomewhere, NothingIsOvertaken, InRow, OnItsWay, InOrder,
                Storing, StillAsked, Stored
  <2> QED
    BY <2>2, <2>3 DEF SettingsInv
<1> QED
  BY <1>1, <1>2

\* The inductive invariant of the settings page.
LEMMA SettingsInvHolds == NotificationsPageSpec => []SettingsInv
<1> QED
  BY SettingsInvInit, SettingsInvStep, PTL DEF NotificationsPageSpec

\* On a quiet page the schedule shown is the one stored, and what a save
\* reported as saved is not replaced by older fields or deleted - unless the
\* timer of the schedule still held those, a request overtook another or the
\* row was not loaded (page.tsx of settings/notifications,
\* api/notification-config/route.ts).
THEOREM SavedIsShownHolds == NotificationsPageSpec => []SavedIsShown
<1>1. ASSUME SettingsInv PROVE SavedIsShown
  <2>1. ASSUME pageState = "ready", autoSaveTimer = NoForm, trouble \subseteq {"stale"},
               \A p \in Posts : submissions[p].for = "nothing"
        PROVE  configRow.schedule = form.schedule
    <3>1. \A p \in Posts : ~StillAsked(p)
      BY <2>1 DEF StillAsked, Storing
    <3>2. \A t \in {"unloaded", "early", "overtaken", "refused", "failed"} : t \notin trouble
      BY <2>1
    <3> QED
      BY <1>1, <2>1, <3>1, <3>2 DEF SettingsInv, ScheduleIsSomewhere, InRow, OnItsWay
  <2>2. ASSUME trouble \cap {"stale", "overtaken", "unloaded"} = {}
        PROVE  configRow.mail >= kept.mail /\ configRow.password >= kept.password
    <3>1. "stale" \notin trouble /\ "overtaken" \notin trouble /\ "unloaded" \notin trouble
      <4>1. \A t \in {"stale", "overtaken", "unloaded"} : t \notin trouble
        BY <2>2, Zenon
      <4> QED
        BY <4>1
    <3> QED
      BY <1>1, <3>1 DEF SettingsInv, SettingsTypes, Forms, NothingIsOvertaken, InOrder
  <2> QED
    BY <2>1, <2>2 DEF SavedIsShown
<1> QED
  BY <1>1, SettingsInvHolds, PTL

-----------------------------------------------------------------------------
(* The waves of a job.                                                     *)

LEMMA Products ==
  ASSUME NEW a \in Nat, NEW b \in Nat, NEW s \in Nat \ {0}
  PROVE  /\ a * s \in Nat
         /\ a <= b => a * s <= b * s
         /\ a < b => a * s < b * s
         /\ (a + 1) * s = (a * s) + s
OBVIOUS

LEMMA Quotients ==
  ASSUME NEW x \in Nat, NEW s \in Nat \ {0}
  PROVE  /\ x \div s \in Nat /\ x % s \in 0..(s - 1)
         /\ x = ((x \div s) * s) + (x % s)
         /\ \A q \in Nat : q <= x \div s <=> q * s <= x
OBVIOUS

\* What is counted in ones may be counted in grains.
LEMMA InGrains ==
  ASSUME NEW a \in Nat
  PROVE  /\ a * Grain \in Nat /\ (a > 0 => a * Grain >= Grain)
         /\ \A b \in Nat : a * Grain <= b * Grain <=> a <= b
         /\ \A b \in Nat : a * Grain < b * Grain <=> a < b
<1>1. Grain \in Nat \ {0}
  BY GrainAssumption DEF GrainAssumption
<1>2. a * Grain \in Nat
  BY <1>1, Products
<1>3. ASSUME NEW b \in Nat
      PROVE  (a * Grain <= b * Grain <=> a <= b) /\ (a * Grain < b * Grain <=> a < b)
  <2>1. /\ a <= b => a * Grain <= b * Grain
        /\ a < b => a * Grain < b * Grain
        /\ b <= a => b * Grain <= a * Grain
        /\ b < a => b * Grain < a * Grain
        /\ b * Grain \in Nat
    BY <1>1, Products
  <2> DEFINE x == a * Grain
             y == b * Grain
  <2>2. x \in Nat /\ y \in Nat
    BY <1>2, <2>1
  <2>3. (a <= b => x <= y) /\ (a < b => x < y) /\ (b <= a => y <= x) /\ (b < a => y < x)
    BY <2>1
  <2> HIDE DEF x, y
  <2>4. (x <= y <=> a <= b) /\ (x < y <=> a < b)
    BY <2>2, <2>3
  <2> QED
    BY <2>4 DEF x, y
<1>4. a > 0 => a * Grain >= Grain
  <2>1. 1 \in Nat /\ 1 * Grain = Grain
    BY <1>1
  <2>2. 1 <= a => 1 * Grain <= a * Grain
    BY <1>1, <2>1, Products
  <2> QED
    BY <1>1, <1>2, <2>1, <2>2
<1> QED
  BY <1>2, <1>3, <1>4

\* The size of a wave, for numbers as normalizeStrategy leaves them.
LEMMA BatchSizes ==
  ASSUME NEW total \in Nat \ {0}, NEW batchSize \in Nat, NEW batchPercent \in Nat,
         batchSize = 0 \/ batchSize >= Grain
  PROVE  LET size == calculateBatchSize(total, batchSize, batchPercent)
         IN  /\ size \in Nat /\ Grain <= size /\ size <= total * Grain
             /\ batchSize > 0 => size <= batchSize
             /\ batchSize = 0 => \E q \in 1..total :
                  size = q * Grain /\ (batchPercent > 0 => q = 1 \/ q * (100 * Grain) <= total * batchPercent)
             /\ batchSize > 0 => size = batchSize \/ size = total * Grain
<1>1. Grain \in Nat \ {0} /\ total * Grain \in Nat /\ total * Grain >= Grain
  BY GrainAssumption, InGrains DEF GrainAssumption
<1> DEFINE all == total * Grain
<1>2. CASE batchSize > 0
  <2>1. calculateBatchSize(total, batchSize, batchPercent) = Least(all, Greatest(Grain, batchSize))
    BY <1>2 DEF calculateBatchSize, Missing
  <2>2. all \in Nat /\ all >= Grain
    BY <1>1
  <2> HIDE DEF all
  <2>3. LET size == Least(all, Greatest(Grain, batchSize))
        IN  size \in Nat /\ Grain <= size /\ size <= all /\ size <= batchSize /\ (size = batchSize \/ size = all)
    BY <1>1, <1>2, <2>2 DEF Least, Greatest
  <2> QED
    BY <1>2, <2>1, <2>3 DEF all
<1>3. CASE batchSize = 0 /\ batchPercent > 0
  <2> DEFINE x == total * batchPercent
             s == 100 * Grain
             q == x \div s
             k == Least(total, Greatest(1, q))
  <2>1. x \in Nat /\ s \in Nat \ {0}
    BY <1>1
  <2>2. calculateBatchSize(total, batchSize, batchPercent) = k * Grain
    BY <1>3 DEF calculateBatchSize, Missing
  <2>3. q \in Nat /\ (\A r \in Nat : r <= q => r * s <= x)
    BY <2>1, Quotients
  <2> HIDE DEF x, s, q
  <2>4. k \in 1..total /\ (k = 1 \/ k <= q)
    BY <2>3 DEF Least, Greatest
  <2>5. k = 1 \/ k * s <= x
    BY <2>3, <2>4
  <2> HIDE DEF k
  <2>6. k * Grain \in Nat /\ Grain <= k * Grain /\ k * Grain <= total * Grain
    BY <2>4, InGrains
  <2> QED
    BY <1>3, <2>2, <2>4, <2>5, <2>6 DEF x, s
<1>4. CASE batchSize = 0 /\ batchPercent = 0
  <2>1. calculateBatchSize(total, batchSize, batchPercent) = 1 * Grain /\ 1 * Grain = Grain
    BY <1>1, <1>4 DEF calculateBatchSize, Missing
  <2>2. 1 \in 1..total
    OBVIOUS
  <2> QED
    BY <1>1, <1>4, <2>1, <2>2
<1> QED
  BY <1>2, <1>3, <1>4

\* Where a list is cut: the cut lies less than one before the multiple of the
\* size, the next one behind it and at most a size, rounded up, further.
LEMMA Cuts ==
  ASSUME NEW n \in Nat \ {0}, NEW size \in Nat, Grain <= size, NEW w \in Nat, w * size < n * Grain
  PROVE  LET from == (w * size) \div Grain
             to   == ((w + 1) * size) \div Grain
         IN  /\ from \in Nat /\ to \in Nat /\ from < n /\ from < to
             /\ (to - from) * Grain < size + Grain
             /\ size < ((to - from) * Grain) + Grain
<1>1. Grain \in Nat \ {0} /\ size \in Nat \ {0}
  BY GrainAssumption DEF GrainAssumption
<1> DEFINE x == w * size
           y == (w + 1) * size
           from == x \div Grain
           to == y \div Grain
           a == from * Grain
           b == to * Grain
<1>2. x \in Nat /\ y \in Nat /\ y = x + size /\ x < n * Grain
  BY <1>1, Products
<1> HIDE DEF x, y
<1>3. /\ from \in Nat /\ x = a + (x % Grain) /\ x % Grain \in 0..(Grain - 1)
      /\ to \in Nat /\ y = b + (y % Grain) /\ y % Grain \in 0..(Grain - 1)
  BY <1>1, <1>2, Quotients
<1> HIDE DEF from, to
<1>4. a \in Nat /\ b \in Nat /\ n * Grain \in Nat
  BY <1>3, InGrains
<1>5. a <= x /\ x < a + Grain /\ b <= y /\ y < b + Grain
  <2> DEFINE r == x % Grain
             t == y % Grain
  <2>1. r \in 0..(Grain - 1) /\ t \in 0..(Grain - 1) /\ x = a + r /\ y = b + t
    BY <1>3
  <2> HIDE DEF r, t, a, b
  <2> QED
    BY <1>1, <1>2, <1>4, <2>1
<1>6. a < n * Grain
  BY <1>2, <1>4, <1>5
<1>7. from < n
  BY <1>3, <1>6, InGrains
<1>8. a < b
  BY <1>1, <1>2, <1>4, <1>5
<1>9. from < to
  BY <1>3, <1>8, InGrains
<1>10. (to - from) * Grain = b - a
  BY <1>1, <1>3
<1> HIDE DEF a, b
<1>11. b - a < size + Grain /\ size < (b - a) + Grain
  BY <1>1, <1>2, <1>4, <1>5
<1> QED
  BY <1>3, <1>7, <1>9, <1>10, <1>11 DEF from, to, x, y

\* The waves of a list that is not empty are cut behind one another, and each
\* is less than one target larger or, but for the last, smaller than the size.
LEMMA Chunks ==
  ASSUME NEW T, NEW list \in Seq(T), list # <<>>, NEW size \in Nat, Grain <= size
  PROVE  LET waves == chunkArray(list, size)
         IN  /\ Len(waves) \in Nat \ {0} /\ DOMAIN waves = 1..Len(waves)
             /\ InTheirOrder(list, waves)
             /\ \A w \in 1..Len(waves) :
                  /\ Len(waves[w]) \in 1..Len(list)
                  /\ Len(waves[w]) * Grain < size + Grain
                  /\ w < Len(waves) => size < (Len(waves[w]) * Grain) + Grain
<1> DEFINE n == Len(list)
           all == n * Grain
           last == (all - 1) \div size
           waves == chunkArray(list, size)
           To(w) == (w * size) \div Grain
           ends == [w \in 0..(last + 1) |-> Cut(list, size, w)]
<1>1. Grain \in Nat \ {0} /\ size \in Nat \ {0} /\ n \in Nat \ {0}
  BY GrainAssumption DEF GrainAssumption
<1>2. all \in Nat /\ all - 1 \in Nat
  <2>1. all \in Nat /\ all >= Grain
    BY <1>1, InGrains
  <2> QED
    BY <1>1, <2>1
<1> HIDE DEF n, all
<1>3. last \in Nat /\ \A q \in Nat : q <= last <=> q * size <= all - 1
  BY <1>1, <1>2, Quotients
<1>4. (all + size - 1) \div size = last + 1
  BY <1>1, <1>2
<1>5. waves = [w \in 1..(last + 1) |-> SubSeq(list, Cut(list, size, w - 1) + 1, Cut(list, size, w))]
  BY <1>4, Zenon DEF chunkArray, n, all
<1> HIDE DEF last, waves
<1>6. Len(waves) = last + 1 /\ DOMAIN waves = 1..(last + 1)
  BY <1>3, <1>5
<1>7. \A w \in Nat : Cut(list, size, w) = Least(To(w), n)
  BY DEF Cut, n
<1> HIDE DEF To
<1>8. ASSUME NEW v \in 0..last
      PROVE  /\ To(v) \in Nat /\ To(v + 1) \in Nat /\ To(v) < n /\ To(v) < To(v + 1)
             /\ (To(v + 1) - To(v)) * Grain < size + Grain
             /\ size < ((To(v + 1) - To(v)) * Grain) + Grain
  <2>1. v \in Nat /\ v * size \in Nat /\ v * size <= all - 1
    BY <1>1, <1>3, Products
  <2>2. v * size < n * Grain
    BY <1>2, <2>1 DEF all
  <2> QED
    BY <1>1, <2>1, <2>2, Cuts DEF To
<1>9. To(0) = 0
  BY <1>1 DEF To
<1>10. n <= To(last + 1)
  <2>1. last + 1 \in Nat /\ ~(last + 1 <= last)
    BY <1>3
  <2>2. (last + 1) * size \in Nat /\ ~((last + 1) * size <= all - 1)
    BY <1>1, <1>3, <2>1, Products
  <2>3. n * Grain <= (last + 1) * size
    BY <1>2, <2>2 DEF all
  <2> QED
    BY <1>1, <2>2, <2>3, Quotients DEF To
<1>11. /\ ends[0] = 0 /\ ends[last + 1] = n
       /\ \A w \in 0..(last + 1) : ends[w] = Least(To(w), n) /\ ends[w] \in Nat
  <2>1. \A w \in 0..(last + 1) : w \in Nat /\ ends[w] = Least(To(w), n)
    BY <1>3, <1>7
  <2>2. \A w \in 0..(last + 1) : To(w) \in Nat
    <3>1. \A w \in 0..last : To(w) \in Nat
      BY <1>8
    <3>2. To(last + 1) \in Nat
      BY <1>3, <1>8
    <3> QED
      BY <1>3, <3>1, <3>2
  <2>3. 0 \in 0..(last + 1) /\ last + 1 \in 0..(last + 1)
    BY <1>3
  <2> HIDE DEF ends
  <2> QED
    BY <1>1, <1>9, <1>10, <2>1, <2>2, <2>3 DEF Least
<1>12. ASSUME NEW w \in 1..(last + 1)
       PROVE  /\ ends[w - 1] < ends[w] /\ ends[w] <= n
              /\ waves[w] = SubSeq(list, ends[w - 1] + 1, ends[w])
              /\ (ends[w] - ends[w - 1]) * Grain < size + Grain
              /\ w < last + 1 => size < ((ends[w] - ends[w - 1]) * Grain) + Grain
  <2> DEFINE v == w - 1
  <2>1. v \in 0..last /\ v \in 0..(last + 1) /\ w \in 0..(last + 1) /\ v + 1 = w /\ (w < last + 1 => w \in 0..last)
    BY <1>3
  <2>2. ends[v] = Least(To(v), n) /\ ends[w] = Least(To(w), n)
    BY <1>11, <2>1
  <2>3. waves[w] = SubSeq(list, ends[v] + 1, ends[w])
    <3>1. ends[v] = Cut(list, size, v) /\ ends[w] = Cut(list, size, w)
      BY <2>1
    <3> QED
      BY <1>5, <3>1
  <2> HIDE DEF ends, v
  <2>4. /\ To(v) \in Nat /\ To(w) \in Nat /\ To(v) < n /\ To(v) < To(w)
        /\ (To(w) - To(v)) * Grain < size + Grain
        /\ size < ((To(w) - To(v)) * Grain) + Grain
    BY <1>8, <2>1
  <2>5. w < last + 1 => To(w) < n
    BY <1>8, <2>1
  <2>6. ends[v] = To(v) /\ ends[w] \in Nat /\ ends[w] <= To(w) /\ ends[w] <= n /\ ends[v] < ends[w]
        /\ (w < last + 1 => ends[w] = To(w))
    BY <1>1, <2>2, <2>4, <2>5 DEF Least
  <2>7. (ends[w] - ends[v]) * Grain <= (To(w) - To(v)) * Grain
    <3>1. ends[w] - ends[v] \in Nat /\ To(w) - To(v) \in Nat /\ ends[w] - ends[v] <= To(w) - To(v)
      BY <2>4, <2>6
    <3> QED
      BY <1>1, <3>1, Products
  <2>8. (ends[w] - ends[v]) * Grain \in Nat /\ (To(w) - To(v)) * Grain \in Nat
    <3>1. ends[w] - ends[v] \in Nat /\ To(w) - To(v) \in Nat
      BY <2>4, <2>6
    <3> QED
      BY <1>1, <3>1, Products
  <2>9. (ends[w] - ends[v]) * Grain < size + Grain
    BY <1>1, <2>4, <2>7, <2>8
  <2>10. w < last + 1 => size < ((ends[w] - ends[v]) * Grain) + Grain
    BY <2>4, <2>6
  <2> QED
    BY <2>3, <2>6, <2>9, <2>10 DEF v
<1>13. InTheirOrder(list, waves)
  <2>1. ends \in [0..Len(waves) -> Nat]
    BY <1>6, <1>11
  <2>2. /\ ends[0] = 0 /\ ends[Len(waves)] = Len(list)
        /\ \A w \in 1..Len(waves) : /\ ends[w - 1] < ends[w]
                                    /\ waves[w] = SubSeq(list, ends[w - 1] + 1, ends[w])
    BY <1>6, <1>11, <1>12 DEF n
  <2> HIDE DEF ends
  <2> QED
    BY <2>1, <2>2 DEF InTheirOrder
<1>14. ASSUME NEW w \in 1..(last + 1)
       PROVE  Len(waves[w]) = ends[w] - ends[w - 1] /\ Len(waves[w]) \in 1..n
  <2>1. w \in 0..(last + 1) /\ w - 1 \in 0..(last + 1)
    BY <1>3
  <2>2. ends[w] \in Nat /\ ends[w - 1] \in Nat
    BY <1>11, <2>1
  <2>3. ends[w - 1] < ends[w] /\ ends[w] <= Len(list) /\ waves[w] = SubSeq(list, ends[w - 1] + 1, ends[w])
    BY <1>12 DEF n
  <2> DEFINE a == ends[w - 1]
             b == ends[w]
  <2>4. a \in Nat /\ b \in Nat /\ a < b /\ b <= Len(list) /\ waves[w] = SubSeq(list, a + 1, b)
    BY <2>2, <2>3
  <2> HIDE DEF a, b
  <2>5. \A i \in (a + 1)..b : list[i] \in T
    BY <2>4
  <2>6. Len(SubSeq(list, a + 1, b)) = b - a
    BY <2>4, <2>5
  <2> QED
    BY <2>4, <2>6 DEF a, b, n
<1> HIDE DEF ends
<1>15. ASSUME NEW w \in 1..Len(waves)
       PROVE  /\ Len(waves[w]) \in 1..Len(list)
              /\ Len(waves[w]) * Grain < size + Grain
              /\ w < Len(waves) => size < (Len(waves[w]) * Grain) + Grain
  BY <1>6, <1>12, <1>14 DEF n
<1> QED
  BY <1>3, <1>6, <1>13, <1>15 DEF waves

\* normalizeStrategy never lets a job run on more machines at once than the
\* server allows, nor on none; and whatever numbers a client sends, fractions
\* included, chunkArray cuts every list of targets into waves in which every
\* target is once, in its order, of which none is larger than what was asked
\* for, rounded up, and that differ by at most one target, but for the last, or
\* are equally large if a whole number was asked for.
THEOREM TargetsAreCut ==
  ASSUME NEW T, NEW targets \in Seq(T), targets # <<>>, NEW strategy,
         strategy.concurrency \in Int, strategy.batchSize \in Int, strategy.batchPercent \in Int
  PROVE  /\ normalizeStrategy(strategy).concurrency \in Grain..(MAX_GLOBAL_CONCURRENCY * Grain)
         /\ ProperSizes(targets, strategy)
         /\ InTheirOrder(targets, Waves(targets, strategy))
<1> DEFINE n == Len(targets)
           normal == normalizeStrategy(strategy)
           size == calculateBatchSize(n, normal.batchSize, normal.batchPercent)
           waves == Waves(targets, strategy)
           b == strategy.batchSize
           p == strategy.batchPercent
<1>1. n \in Nat \ {0} /\ Grain \in Nat \ {0}
  BY GrainAssumption DEF GrainAssumption
<1>2. normal.concurrency \in Grain..(MAX_GLOBAL_CONCURRENCY * Grain)
  <2> DEFINE c == strategy.concurrency
             most == MAX_GLOBAL_CONCURRENCY * Grain
  <2>1. normal.concurrency = Bounded(Grain, IF c = 0 THEN most ELSE c, most)
    BY Zenon DEF normalizeStrategy, Missing
  <2>2. c \in Int
    OBVIOUS
  <2>3. most \in Nat /\ most >= Grain
    BY InGrains, ConcurrencyAssumption DEF ConcurrencyAssumption
  <2> HIDE DEF c, normal, most
  <2>4. normal.concurrency \in Grain..most
    BY <1>1, <2>1, <2>2, <2>3 DEF Bounded, Least, Greatest
  <2> QED
    BY <2>4 DEF most
<1>3. /\ normal.batchSize \in Nat /\ normal.batchPercent \in Nat
      /\ normal.batchSize = 0 \/ normal.batchSize >= Grain
      /\ normal.batchSize = 0 <=> b = 0
      /\ b > 0 => normal.batchSize = Greatest(b, Grain)
      /\ b < 0 => normal.batchSize = Grain
      /\ p \in Grain..(100 * Grain) => normal.batchPercent = p /\ p > 0
  <2>1. /\ normal.batchSize = IF b = 0 THEN 0 ELSE Greatest(Grain, b)
        /\ normal.batchPercent = IF p = 0 THEN 0 ELSE Bounded(Grain, p, 100 * Grain)
    BY Zenon DEF normalizeStrategy, Missing
  <2>2. b \in Int /\ p \in Int
    OBVIOUS
  <2> HIDE DEF b, p, normal
  <2>3. /\ normal.batchSize \in Nat /\ (normal.batchSize = 0 \/ normal.batchSize >= Grain)
        /\ normal.batchSize = 0 <=> b = 0
        /\ b > 0 => normal.batchSize = Greatest(b, Grain)
        /\ b < 0 => normal.batchSize = Grain
    BY <1>1, <2>1, <2>2 DEF Greatest
  <2>4. normal.batchPercent \in Nat /\ (p \in Grain..(100 * Grain) => normal.batchPercent = p /\ p > 0)
    BY <1>1, <2>1, <2>2 DEF Bounded, Least, Greatest
  <2> QED
    BY <2>3, <2>4
<1>4. waves = chunkArray(targets, size)
  BY DEF Waves
<1>5. /\ size \in Nat /\ Grain <= size /\ size <= n * Grain
      /\ normal.batchSize > 0 => size <= normal.batchSize
      /\ normal.batchSize = 0 => \E q \in 1..n :
           size = q * Grain
           /\ (normal.batchPercent > 0 => q = 1 \/ q * (100 * Grain) <= n * normal.batchPercent)
      /\ normal.batchSize > 0 => size = normal.batchSize \/ size = n * Grain
  <2> HIDE DEF n, normal
  <2> QED
    BY <1>1, <1>3, BatchSizes
<1> HIDE DEF size, waves, normal
<1>6. /\ Len(waves) \in Nat \ {0} /\ DOMAIN waves = 1..Len(waves)
      /\ InTheirOrder(targets, waves)
      /\ \A w \in 1..Len(waves) :
           /\ Len(waves[w]) \in 1..n
           /\ Len(waves[w]) * Grain < size + Grain
           /\ w < Len(waves) => size < (Len(waves[w]) * Grain) + Grain
  BY <1>4, <1>5, Chunks
<1>7. b \in Int /\ p \in Int
  OBVIOUS
\* A size that is a whole number.
<1>8. b % Grain = 0 => \E m \in Nat : size = m * Grain
  <2>1. CASE b = 0
    BY <1>3, <1>5, <2>1
  <2>2. CASE b < 0
    <3>1. size = Grain \/ size = n * Grain
      BY <1>1, <1>3, <1>5, <2>2
    <3>2. Grain = 1 * Grain /\ 1 \in Nat
      BY <1>1
    <3> QED
      BY <1>1, <3>1, <3>2
  <2>3. ASSUME b > 0, b % Grain = 0 PROVE \E m \in Nat : size = m * Grain
    <3>1. b \in Nat /\ b = (b \div Grain) * Grain /\ b \div Grain \in Nat
      <4> HIDE DEF b
      <4>1. b \in Nat
        BY <1>7, <2>3
      <4>2. b \div Grain \in Nat /\ b = ((b \div Grain) * Grain) + (b % Grain)
        BY <1>1, <4>1, Quotients
      <4>3. (b \div Grain) * Grain \in Nat
        BY <4>2, InGrains
      <4> QED
        BY <2>3, <4>1, <4>2, <4>3
    <3>2. size = b \/ size = Grain \/ size = n * Grain
      <4> HIDE DEF b
      <4> QED
        BY <1>1, <1>3, <1>5, <2>3, <3>1 DEF Greatest
    <3>3. Grain = 1 * Grain /\ 1 \in Nat
      BY <1>1
    <3> HIDE DEF b
    <3> QED
      BY <1>1, <3>1, <3>2, <3>3
  <2> QED
    BY <1>7, <2>1, <2>2, <2>3
<1> HIDE DEF n, b, p
<1>9. ASSUME NEW w \in DOMAIN waves
      PROVE  Len(waves[w]) \in Nat \ {0} /\ NotLarger(waves[w], n, strategy)
  <2> DEFINE l == Len(waves[w])
             x == l * Grain
  <2>1. l \in 1..n /\ x < size + Grain
    BY <1>6
  <2> HIDE DEF l
  <2>2. l \in Nat \ {0} /\ x \in Nat
    BY <1>1, <2>1, InGrains
  <2>3. b > 0 => x < Greatest(b, Grain) + Grain
    <3> HIDE DEF x
    <3> QED
      BY <1>1, <1>3, <1>5, <1>7, <2>1, <2>2 DEF Greatest
  <2>4. b = 0 /\ p \in Grain..(100 * Grain) => l = 1 \/ l * 100 * Grain <= n * p
    <3>1. SUFFICES ASSUME b = 0, p \in Grain..(100 * Grain)
                   PROVE  l = 1 \/ l * 100 * Grain <= n * p
      OBVIOUS
    <3>2. PICK q \in 1..n : size = q * Grain /\ (q = 1 \/ q * (100 * Grain) <= n * p)
      BY <1>3, <1>5, <3>1
    <3>3. x < (q + 1) * Grain
      BY <1>1, <2>1, <3>2
    <3>4. l < q + 1
      BY <1>1, <2>2, <3>2, <3>3, InGrains
    <3>5. l <= q /\ l \in Nat /\ q \in Nat /\ 100 * Grain \in Nat \ {0}
      BY <1>1, <2>2, <3>2, <3>4
    <3>6. l * (100 * Grain) <= q * (100 * Grain) /\ l * (100 * Grain) \in Nat /\ q * (100 * Grain) \in Nat
      BY <3>5, Products
    <3>7. l * 100 * Grain = l * (100 * Grain)
      BY <1>1, <3>5
    <3>8. p \in Nat /\ n * p \in Nat
      BY <1>1, <3>1
    <3>9. q = 1 => l = 1
      BY <2>2, <3>5
    <3> QED
      BY <3>2, <3>6, <3>7, <3>8, <3>9
  <2> QED
    BY <2>2, <2>3, <2>4 DEF NotLarger, Missing, b, p, l
<1>10. ASSUME NEW v \in DOMAIN waves, NEW w \in DOMAIN waves, v < Len(waves)
       PROVE  /\ Len(waves[w]) <= Len(waves[v]) + 1
              /\ b % Grain = 0 => Len(waves[w]) <= Len(waves[v])
  <2> DEFINE j == Len(waves[v])
             l == Len(waves[w])
  <2>1. /\ j \in Nat /\ l \in Nat
        /\ l * Grain < size + Grain
        /\ size < (j * Grain) + Grain
    <3>1. v \in 1..Len(waves) /\ w \in 1..Len(waves)
      BY <1>6
    <3>2. j \in 1..n /\ l \in 1..n
      BY <1>6, <3>1
    <3>3. j \in Nat /\ l \in Nat
      <4> HIDE DEF j, l
      <4> QED
        BY <1>1, <3>2
    <3> QED
      BY <1>6, <1>10, <3>1, <3>3
  <2> HIDE DEF j, l
  <2>2. /\ (j + 2) * Grain = ((j * Grain) + Grain) + Grain
        /\ (j + 1) * Grain = (j * Grain) + Grain
        /\ j * Grain \in Nat /\ l * Grain \in Nat
    BY <1>1, <2>1, InGrains
  <2>3. l * Grain < (j + 2) * Grain
    <3> DEFINE x == j * Grain
               y == l * Grain
    <3>1. x \in Nat /\ y \in Nat /\ y < size + Grain /\ size < x + Grain
      BY <2>1, <2>2
    <3> HIDE DEF x, y
    <3>2. y < (x + Grain) + Grain
      BY <1>1, <1>5, <3>1
    <3> QED
      BY <2>2, <3>2 DEF x, y
  <2>4. l <= j + 1
    <3>1. j + 2 \in Nat
      BY <2>1
    <3>2. l < j + 2
      BY <2>1, <2>3, <3>1, InGrains
    <3> QED
      BY <2>1, <3>2
  <2>5. ASSUME b % Grain = 0 PROVE l <= j
    <3>1. PICK m \in Nat : size = m * Grain
      BY <1>8, <2>5
    <3>2. m * Grain < (j + 1) * Grain /\ l * Grain < (m + 1) * Grain
      BY <1>1, <2>1, <2>2, <3>1, Products
    <3>3. m < j + 1 /\ l < m + 1
      BY <2>1, <3>2, InGrains
    <3> QED
      BY <2>1, <3>3
  <2> QED
    BY <2>4, <2>5 DEF j, l
<1>11. ProperSizes(targets, strategy)
  BY <1>9, <1>10 DEF ProperSizes, waves, n, b
<1> QED
  BY <1>2, <1>6, <1>11 DEF normal, waves

=============================================================================
