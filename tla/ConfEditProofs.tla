--------------------------- MODULE ConfEditProofs ---------------------------
(***************************************************************************)
(* The queue of a key lets one call in at a time, in the order they came,  *)
(* and the edits of configuration files that go through it are whole: for  *)
(* any calls, users, servers and databases.                                *)
(***************************************************************************)
EXTENDS ConfEdit, TLAPS

-----------------------------------------------------------------------------
(* Lines of calls *)

InLine(c) == place[c] \in {"waiting", "running"}

Has(l, c) == \E i \in 1 .. Len(l) : l[i] = c
LastOf(l) == IF l = <<>> THEN NoCall ELSE l[Len(l)]
Once(l)   == \A i, j \in 1 .. Len(l) : l[i] = l[j] => i = j

\* The calls of l are in the line of k, and each but the first waits for the one
\* before it; p, a and q are place, after and key.
Linked(l, k, p, a, q) ==
  \A i \in 1 .. Len(l) :
    /\ p[l[i]] \in {"waiting", "running"} /\ q[l[i]] = k
    /\ i > 1 => p[l[i]] = "waiting" /\ a[l[i]] = l[i - 1]

LEMMA LastHas ==
  ASSUME NEW l \in Seq(Calls)
  PROVE  /\ LastOf(l) = NoCall <=> l = <<>>
         /\ l # <<>> => LastOf(l) \in Calls /\ Has(l, LastOf(l))
<1>1. l # <<>> => Len(l) \in 1 .. Len(l) /\ l[Len(l)] \in Calls  OBVIOUS
<1> QED  BY <1>1, NoCallAssumption DEF LastOf, Has

LEMMA HasMember == ASSUME NEW l \in Seq(Calls), NEW c, Has(l, c) PROVE c \in Calls /\ l # <<>>
BY DEF Has

LEMMA Appended ==
  ASSUME NEW l \in Seq(Calls), NEW c \in Calls
  PROVE  /\ Append(l, c) \in Seq(Calls) /\ Append(l, c) # <<>> /\ LastOf(Append(l, c)) = c
         /\ Len(Append(l, c)) = Len(l) + 1 /\ Len(l) \in Nat
         /\ Append(l, c)[Len(l) + 1] = c
         /\ \A i \in 1 .. Len(l) : Append(l, c)[i] = l[i]
         /\ \A d : Has(Append(l, c), d) <=> Has(l, d) \/ d = c
         /\ Once(l) /\ ~Has(l, c) => Once(Append(l, c))
<1> DEFINE m == Append(l, c)
<1>1. /\ m \in Seq(Calls) /\ Len(m) = Len(l) + 1 /\ Len(l) \in Nat /\ m[Len(l) + 1] = c
      /\ \A i \in 1 .. Len(l) : m[i] = l[i]
  OBVIOUS
<1>2. m # <<>>  BY <1>1
<1> HIDE DEF m
<1>3. \A i \in 1 .. Len(m) : i \in 1 .. Len(l) \/ i = Len(l) + 1  BY <1>1
<1>4. \A d : Has(m, d) <=> Has(l, d) \/ d = c  BY <1>1, <1>3 DEF Has
<1>5. Once(l) /\ ~Has(l, c) => Once(m)  BY <1>1, <1>3 DEF Has, Once
<1> QED  BY <1>1, <1>2, <1>4, <1>5 DEF m, LastOf

LEMMA Tailed ==
  ASSUME NEW l \in Seq(Calls), l # <<>>, Once(l)
  PROVE  /\ Tail(l) \in Seq(Calls) /\ Len(Tail(l)) = Len(l) - 1 /\ Len(l) \in Nat \ {0}
         /\ \A i \in 1 .. Len(Tail(l)) : i + 1 \in 1 .. Len(l) /\ Tail(l)[i] = l[i + 1]
         /\ Once(Tail(l)) /\ ~Has(Tail(l), l[1])
         /\ \A d : d # l[1] => (Has(Tail(l), d) <=> Has(l, d))
         /\ LastOf(Tail(l)) = IF LastOf(l) = l[1] THEN NoCall ELSE LastOf(l)
<1> DEFINE m == Tail(l)
<1>1. /\ m \in Seq(Calls) /\ Len(m) = Len(l) - 1 /\ Len(l) \in Nat \ {0}
      /\ \A i \in 1 .. Len(m) : i + 1 \in 1 .. Len(l) /\ m[i] = l[i + 1]
  OBVIOUS
<1> HIDE DEF m
<1>2. m = <<>> <=> Len(m) = 0  BY <1>1
<1>3. Once(m) /\ ~Has(m, l[1])  BY <1>1 DEF Once, Has
<1>4. ASSUME NEW d, d # l[1]
      PROVE  Has(m, d) <=> Has(l, d)
  <2>1. Has(m, d) => Has(l, d)  BY <1>1 DEF Has
  <2>2. ASSUME NEW i \in 1 .. Len(l), l[i] = d PROVE Has(m, d)
    <3>1. i - 1 \in 1 .. Len(m) /\ m[i - 1] = l[(i - 1) + 1]  BY <1>1, <1>4, <2>2
    <3>2. (i - 1) + 1 = i  BY <1>1
    <3> QED  BY <2>2, <3>1, <3>2 DEF Has
  <2> QED  BY <2>1, <2>2 DEF Has
<1>5. LastOf(m) = IF LastOf(l) = l[1] THEN NoCall ELSE LastOf(l)
  <2>1. LastOf(l) = l[Len(l)]  BY DEF LastOf
  <2>2. CASE Len(l) = 1  BY <1>1, <1>2, <2>1, <2>2 DEF LastOf
  <2>3. CASE Len(l) # 1
    <3>1. Len(l) \in 1 .. Len(l) /\ 1 \in 1 .. Len(l) /\ Len(m) \in 1 .. Len(m) /\ Len(m) + 1 = Len(l)
      BY <1>1, <2>3
    <3>2. l[Len(l)] # l[1]  BY <2>3, <3>1 DEF Once
    <3>3. LastOf(m) = m[Len(m)]  BY <1>2, <3>1 DEF LastOf
    <3> QED  BY <1>1, <2>1, <3>1, <3>2, <3>3
  <2> QED  BY <2>2, <2>3
<1> QED  BY <1>1, <1>3, <1>4, <1>5 DEF m

\* A line c is not in stays linked, whatever becomes of c.
LEMMA LinkedKept ==
  ASSUME NEW l \in Seq(Calls), NEW k, NEW c, ~Has(l, c),
         NEW p, NEW a, NEW q, NEW p2, NEW a2, NEW q2,
         \A d \in Calls : d # c => p2[d] = p[d] /\ a2[d] = a[d] /\ q2[d] = q[d],
         Linked(l, k, p, a, q)
  PROVE  Linked(l, k, p2, a2, q2)
<1>1. \A i \in 1 .. Len(l) : l[i] \in Calls /\ l[i] # c  BY DEF Has
<1> QED  BY <1>1 DEF Linked

LEMMA LinkedAppended ==
  ASSUME NEW l \in Seq(Calls), NEW k, NEW c \in Calls, ~Has(l, c),
         NEW p, NEW a, NEW q,
         p[c] = "waiting", a[c] = LastOf(l), q[c] = k,
         Linked(l, k, p, a, q)
  PROVE  Linked(Append(l, c), k, p, a, q)
<1> DEFINE m == Append(l, c)
<1>1. /\ Len(m) = Len(l) + 1 /\ Len(l) \in Nat /\ m[Len(l) + 1] = c
      /\ \A i \in 1 .. Len(l) : m[i] = l[i]
  BY Appended
<1> HIDE DEF m
<1>2. ASSUME NEW i \in 1 .. Len(m)
      PROVE  /\ p[m[i]] \in {"waiting", "running"} /\ q[m[i]] = k
             /\ i > 1 => p[m[i]] = "waiting" /\ a[m[i]] = m[i - 1]
  <2>1. CASE i \in 1 .. Len(l)
    <3>1. i > 1 => i - 1 \in 1 .. Len(l)  BY <1>1, <2>1
    <3>2. m[i] = l[i] /\ (i > 1 => m[i - 1] = l[i - 1])  BY <1>1, <2>1, <3>1
    <3> QED  BY <2>1, <3>2 DEF Linked
  <2>2. CASE i = Len(l) + 1
    <3>1. i > 1 => i - 1 \in 1 .. Len(l) /\ i - 1 = Len(l) /\ l # <<>>  BY <1>1, <2>2
    <3>2. i > 1 => m[i - 1] = LastOf(l)  BY <1>1, <3>1 DEF LastOf
    <3>3. m[i] = c  BY <1>1, <2>2
    <3> QED  BY <3>2, <3>3
  <2> QED  BY <1>1, <2>1, <2>2
<1> QED  BY <1>2 DEF m, Linked

LEMMA LinkedTailed ==
  ASSUME NEW l \in Seq(Calls), NEW k, l # <<>>, Once(l),
         NEW p, NEW a, NEW q, Linked(l, k, p, a, q)
  PROVE  Linked(Tail(l), k, p, a, q)
<1> DEFINE m == Tail(l)
<1>1. /\ Len(m) = Len(l) - 1 /\ Len(l) \in Nat
      /\ \A i \in 1 .. Len(m) : i + 1 \in 1 .. Len(l) /\ m[i] = l[i + 1]
  BY Tailed
<1> HIDE DEF m
<1>2. ASSUME NEW i \in 1 .. Len(m)
      PROVE  /\ p[m[i]] \in {"waiting", "running"} /\ q[m[i]] = k
             /\ i > 1 => p[m[i]] = "waiting" /\ a[m[i]] = m[i - 1]
  <2>1. i + 1 > 1 /\ (i + 1) - 1 = i  BY <1>1
  <2>2. /\ p[l[i + 1]] \in {"waiting", "running"} /\ q[l[i + 1]] = k
        /\ p[l[i + 1]] = "waiting" /\ a[l[i + 1]] = l[i]
    BY <1>1, <2>1 DEF Linked
  <2>3. i > 1 => i - 1 \in 1 .. Len(m) /\ (i - 1) + 1 = i  BY <1>1
  <2>4. i > 1 => m[i - 1] = l[i]  BY <1>1, <2>3
  <2> QED  BY <1>1, <2>2, <2>4
<1> QED  BY <1>2 DEF m, Linked

-----------------------------------------------------------------------------
(* The queue *)

\* Who is in line, each once, behind the one it waits for; the map has the last.
LineInv ==
  /\ \A k \in Keys :
       tail[k] = LastOf(line[k]) /\ Once(line[k]) /\ Linked(line[k], k, place, after, key)
  /\ \A c \in Calls : InLine(c) => key[c] \in Keys /\ Has(line[key[c]], c)

QueueInv == QueueTypeOK /\ LineInv

LEMMA QueueAtStart == QueueInit => QueueInv
<1> SUFFICES ASSUME QueueInit PROVE QueueInv  OBVIOUS
<1>1. \A k \in Keys : tail[k] = NoCall /\ line[k] = <<>>  BY DEF QueueInit
<1>2. QueueTypeOK  BY DEF QueueInit, QueueTypeOK
<1>3. \A c \in Calls : ~InLine(c)  BY DEF QueueInit, InLine
<1> QED  BY <1>1, <1>2, <1>3 DEF QueueInv, LineInv, LastOf, Once, Linked

\* Of a key's line only the calls of that key are members.
LEMMA InOneLine ==
  ASSUME QueueInv, NEW k \in Keys, NEW c, Has(line[k], c)
  PROVE  c \in Calls /\ InLine(c) /\ key[c] = k
<1>1. line[k] \in Seq(Calls) /\ Linked(line[k], k, place, after, key)
  BY DEF QueueInv, QueueTypeOK, LineInv
<1>2. PICK i \in 1 .. Len(line[k]) : line[k][i] = c  BY DEF Has
<1>3. c \in Calls  BY <1>1, <1>2
<1> QED  BY <1>1, <1>2, <1>3 DEF Linked, InLine

LEMMA AfterEnter ==
  ASSUME QueueInv, NEW c \in Calls, NEW k \in Keys, Enter(c, k)
  PROVE  QueueInv'
<1>1. QueueTypeOK'
  <2>1. Append(line[k], c) \in Seq(Calls)  BY DEF QueueInv, QueueTypeOK
  <2> QED  BY <2>1 DEF Enter, QueueInv, QueueTypeOK
<1>2. /\ line'[k] = Append(line[k], c) /\ line[k] \in Seq(Calls)
      /\ \A h \in Keys : h # k => line'[h] = line[h] /\ tail'[h] = tail[h]
      /\ tail'[k] = c /\ place'[c] = "waiting" /\ key'[c] = k /\ after'[c] = LastOf(line[k])
      /\ \A d \in Calls : d # c => place'[d] = place[d] /\ after'[d] = after[d] /\ key'[d] = key[d]
      /\ \A h \in Keys : line[h] \in Seq(Calls)
  BY DEF Enter, QueueInv, QueueTypeOK, LineInv
<1>3. \A h \in Keys : ~Has(line[h], c)
  BY InOneLine DEF Enter, InLine
<1>4. ASSUME NEW h \in Keys
      PROVE  tail'[h] = LastOf(line'[h]) /\ Once(line'[h]) /\ Linked(line'[h], h, place', after', key')
  <2>1. /\ tail[h] = LastOf(line[h]) /\ Once(line[h]) /\ Linked(line[h], h, place, after, key)
        /\ ~Has(line[h], c)
    BY <1>3 DEF QueueInv, LineInv
  <2>2. Linked(line[h], h, place', after', key')  BY <1>2, <2>1, LinkedKept
  <2>3. CASE h = k
    <3>1. LastOf(Append(line[k], c)) = c /\ Once(Append(line[k], c))
      BY <1>2, <2>1, <2>3, Appended
    <3>2. Linked(Append(line[k], c), k, place', after', key')
      BY <1>2, <2>1, <2>2, <2>3, LinkedAppended
    <3> QED  BY <1>2, <2>3, <3>1, <3>2
  <2>4. CASE h # k  BY <1>2, <2>1, <2>2, <2>4
  <2> QED  BY <2>3, <2>4
<1>5. ASSUME NEW d \in Calls, InLine(d)'
      PROVE  key'[d] \in Keys /\ Has(line'[key'[d]], d)
  <2>0. \A e : Has(Append(line[k], c), e) <=> Has(line[k], e) \/ e = c  BY <1>2, Appended
  <2>1. CASE d = c  BY <1>2, <2>0, <2>1
  <2>2. CASE d # c
    <3>1. InLine(d)  BY <1>2, <1>5, <2>2 DEF InLine
    <3>2. key'[d] = key[d] /\ key[d] \in Keys /\ Has(line[key[d]], d)
      BY <1>2, <2>2, <3>1 DEF QueueInv, LineInv
    <3> QED  BY <1>2, <2>0, <3>2
  <2> QED  BY <2>1, <2>2
<1> QED  BY <1>1, <1>4, <1>5 DEF QueueInv, LineInv

\* Only the first in line can start, and only it leaves.
LEMMA FirstInLine ==
  ASSUME QueueInv, NEW c \in Calls,
         place[c] = "running" \/ (place[c] = "waiting" /\ Turn(c))
  PROVE  /\ key[c] \in Keys /\ line[key[c]] \in Seq(Calls)
         /\ line[key[c]] # <<>> /\ line[key[c]][1] = c
<1>1. key[c] \in Keys /\ Has(line[key[c]], c)
  BY DEF QueueInv, LineInv, InLine
<1>2. PICK i \in 1 .. Len(line[key[c]]) : line[key[c]][i] = c  BY <1>1 DEF Has
<1>3. line[key[c]] \in Seq(Calls) /\ Linked(line[key[c]], key[c], place, after, key)
  BY <1>1 DEF QueueInv, QueueTypeOK, LineInv
<1>4. CASE i > 1
  <2>1. /\ place[c] = "waiting" /\ after[c] = line[key[c]][i - 1]
        /\ i - 1 \in 1 .. Len(line[key[c]])
    <3>1. place[line[key[c]][i]] = "waiting" /\ after[line[key[c]][i]] = line[key[c]][i - 1]
      BY <1>3, <1>4 DEF Linked
    <3>2. Len(line[key[c]]) \in Nat  BY <1>3
    <3> QED  BY <1>2, <1>4, <3>1, <3>2
  <2>2. after[c] \in Calls  BY <1>3, <2>1
  <2>3. InLine(after[c])  BY <1>3, <2>1 DEF Linked, InLine
  <2> QED  BY <2>1, <2>2, <2>3, NoCallAssumption DEF Turn, InLine
<1>5. CASE i = 1  BY <1>1, <1>2, <1>3, <1>5
<1> QED  BY <1>2, <1>3, <1>4, <1>5

LEMMA AfterStart ==
  ASSUME QueueInv, NEW c \in Calls, Start(c)
  PROVE  QueueInv'
<1>1. key[c] \in Keys /\ line[key[c]] \in Seq(Calls) /\ line[key[c]] # <<>> /\ line[key[c]][1] = c
  BY FirstInLine DEF Start
<1>2. QueueTypeOK'  BY DEF Start, QueueInv, QueueTypeOK
<1>3. /\ UNCHANGED <<tail, after, key, line>> /\ place'[c] = "running" /\ place[c] = "waiting"
      /\ \A d \in Calls : d # c => place'[d] = place[d]
  BY DEF Start, QueueInv, QueueTypeOK
<1>4. \A d \in Calls : InLine(d)' <=> InLine(d)  BY <1>3 DEF InLine
<1>5. ASSUME NEW k \in Keys
      PROVE  Linked(line[k], k, place', after, key)
  <2>1. /\ line[k] \in Seq(Calls) /\ Once(line[k]) /\ Linked(line[k], k, place, after, key)
    BY DEF QueueInv, QueueTypeOK, LineInv
  <2>2. CASE Has(line[k], c)
    <3>1. key[c] = k  BY <2>2, InOneLine
    <3>2. \A i \in 1 .. Len(line[k]) : line[k][i] \in Calls /\ (i > 1 => line[k][i] # c)
      BY <1>1, <2>1, <3>1 DEF Once
    <3> QED  BY <1>3, <2>1, <3>2 DEF Linked
  <2>3. CASE ~Has(line[k], c)  BY <1>3, <2>1, <2>3, LinkedKept
  <2> QED  BY <2>2, <2>3
<1> QED  BY <1>2, <1>3, <1>4, <1>5 DEF QueueInv, LineInv

LEMMA AfterLeave ==
  ASSUME QueueInv, NEW c \in Calls, Leave(c)
  PROVE  QueueInv'
<1>1. key[c] \in Keys /\ line[key[c]] \in Seq(Calls) /\ line[key[c]] # <<>> /\ line[key[c]][1] = c
  BY FirstInLine DEF Leave
<1>2. PICK k \in Keys : k = key[c]  BY <1>1
<1>3. /\ UNCHANGED <<after, key>> /\ place'[c] = "left"
      /\ \A d \in Calls : d # c => place'[d] = place[d]
      /\ tail'[k] = IF tail[k] = c THEN NoCall ELSE tail[k]
      /\ \A h \in Keys : h # k => line'[h] = line[h] /\ tail'[h] = tail[h]
      /\ line'[k] = Tail(line[k])
      /\ \A h \in Keys : line[h] \in Seq(Calls)
  BY <1>2 DEF Leave, QueueInv, QueueTypeOK
<1>4. \A h \in Keys : /\ tail[h] = LastOf(line[h]) /\ Once(line[h])
                      /\ Linked(line[h], h, place, after, key)
  BY DEF QueueInv, LineInv
<1>5. QueueTypeOK'
  <2>1. Tail(line[k]) \in Seq(Calls)  BY <1>1, <1>2
  <2> QED  BY <1>2, <2>1 DEF Leave, QueueInv, QueueTypeOK
<1>6. ASSUME NEW h \in Keys
      PROVE  tail'[h] = LastOf(line'[h]) /\ Once(line'[h]) /\ Linked(line'[h], h, place', after', key')
  <2>1. CASE h # k
    <3>1. ~Has(line[h], c)  BY <1>2, <2>1, InOneLine
    <3>2. Linked(line[h], h, place', after', key')  BY <1>3, <1>4, <3>1, LinkedKept
    <3> QED  BY <1>3, <1>4, <2>1, <3>2
  <2>2. CASE h = k
    <3>1. /\ Tail(line[k]) \in Seq(Calls) /\ Once(Tail(line[k])) /\ ~Has(Tail(line[k]), c)
          /\ LastOf(Tail(line[k])) = IF LastOf(line[k]) = c THEN NoCall ELSE LastOf(line[k])
      BY <1>1, <1>2, <1>4, Tailed
    <3>2. Linked(Tail(line[k]), k, place, after, key)  BY <1>1, <1>2, <1>4, LinkedTailed
    <3>3. Linked(Tail(line[k]), k, place', after', key')
      <4>1. PICK m \in Seq(Calls) : m = Tail(line[k])  BY <3>1
      <4>2. ~Has(m, c) /\ Linked(m, k, place, after, key)  BY <3>1, <3>2, <4>1
      <4>3. Linked(m, k, place', after', key')  BY <1>3, <4>2, LinkedKept
      <4> QED  BY <4>1, <4>3
    <3> QED  BY <1>3, <1>4, <2>2, <3>1, <3>3
  <2> QED  BY <2>1, <2>2
<1>7. ASSUME NEW d \in Calls, InLine(d)'
      PROVE  key'[d] \in Keys /\ Has(line'[key'[d]], d)
  <2>1. d # c /\ InLine(d)  BY <1>3, <1>7 DEF InLine
  <2>2. key'[d] = key[d] /\ key[d] \in Keys /\ Has(line[key[d]], d)
    BY <1>3, <2>1 DEF QueueInv, LineInv
  <2>3. CASE key[d] = k
    <3>1. Has(Tail(line[k]), d)  BY <1>1, <1>2, <1>4, <2>1, <2>2, <2>3, Tailed
    <3> QED  BY <1>3, <2>2, <2>3, <3>1
  <2>4. CASE key[d] # k  BY <1>3, <2>2, <2>4
  <2> QED  BY <2>3, <2>4
<1> QED  BY <1>5, <1>6, <1>7 DEF QueueInv, LineInv

LEMMA QueueKept == ASSUME QueueInv, [QueueNext]_queueVars PROVE QueueInv'
<1>1. CASE UNCHANGED queueVars
  BY <1>1 DEF queueVars, QueueInv, QueueTypeOK, LineInv, InLine
<1>2. CASE QueueNext
  BY <1>2, AfterEnter, AfterStart, AfterLeave DEF QueueNext
<1> QED  BY <1>1, <1>2

LEMMA QueueGives == QueueInv => InOrder /\ EntryWhileBusy
<1> SUFFICES ASSUME QueueInv PROVE InOrder /\ EntryWhileBusy  OBVIOUS
<1>1. InOrder  BY FirstInLine DEF InOrder
<1>2. EntryWhileBusy
  <2>1. \A k \in Keys : line[k] \in Seq(Calls) /\ tail[k] = LastOf(line[k])
    BY DEF QueueInv, QueueTypeOK, LineInv
  <2> QED  BY <2>1, LastHas DEF EntryWhileBusy
<1> QED  BY <1>1, <1>2

-----------------------------------------------------------------------------
(* Edits are calls of the queue *)

StepLabels == {"new", "open", "waiting", "read", "write", "done", "refused"}

ShapeInv ==
  /\ entry \in [Users -> Servers]
  /\ DOMAIN conf = Servers /\ DOMAIN plans = Servers
  /\ step \in [Calls -> StepLabels]
  /\ \A c \in Calls : place[c] = PlaceAt(step[c])
  /\ DOMAIN edit = Calls /\ DOMAIN by = Calls /\ DOMAIN read = Calls
  /\ DOMAIN from = Calls /\ DOMAIN loaded = Calls
  /\ \A c \in Calls : step[c] # "new" => by[c] \in Users

LEMMA Places ==
  /\ PlaceAt("new") = "new" /\ PlaceAt("open") = "new" /\ PlaceAt("waiting") = "waiting"
  /\ PlaceAt("read") = "running" /\ PlaceAt("write") = "running"
  /\ PlaceAt("done") = "left" /\ PlaceAt("refused") = "left"
BY DEF PlaceAt

LEMMA StepOfQueue == ASSUME ShapeInv, [Next]_vars PROVE [QueueNext]_queueVars
<1>1. ASSUME NEW c \in Calls, NEW e \in Requests, NEW u \in Users, Call(c, e, u)
      PROVE  QueueNext
  <2>1. KeyOf(e, u) \in Keys  BY KeysAssumption DEF KeyOf, ShapeInv
  <2> QED  BY <1>1, <2>1 DEF Call, QueueNext
<1>2. ASSUME NEW c \in Calls, EditStep(c)
      PROVE  QueueNext \/ UNCHANGED queueVars
  <2>1. Start(c) \/ Leave(c) \/ UNCHANGED queueVars
    BY <1>2 DEF EditStep, Begin, Read, Write, Fails
  <2> QED  BY <2>1 DEF QueueNext
<1>3. ASSUME NEW c \in Calls, NEW u \in Users, Open(c, u)
      PROVE  UNCHANGED queueVars
  BY <1>3 DEF Open
<1>4. CASE \/ \E u \in Users, list \in PlanLists : SetPlans(u, list)
           \/ \E m \in Moves, u \in Users, s \in Servers : Move(m, u, s)
           \/ \E u \in Users : HostLogin(u)
           \/ UNCHANGED vars
  BY <1>4 DEF SetPlans, Move, HostLogin, vars
<1> QED  BY <1>1, <1>2, <1>3, <1>4 DEF Next

LEMMA ShapeAtStart == Init => ShapeInv
  BY Places, KeysAssumption DEF Init, QueueInit, ShapeInv, StepLabels

\* A call that moves on does so in the queue and in step alike.
LEMMA ShapeOfMove ==
  ASSUME ShapeInv, NEW c \in Calls, NEW label \in StepLabels, Goto(c, label),
         place'[c] = PlaceAt(label), \A d \in Calls : d # c => place'[d] = place[d]
  PROVE  /\ step' \in [Calls -> StepLabels] /\ \A d \in Calls : place'[d] = PlaceAt(step'[d])
         /\ step'[c] = label /\ \A d \in Calls : d # c => step'[d] = step[d]
  BY DEF Goto, ShapeInv

LEMMA ShapeKept ==
  ASSUME QueueInv, ShapeInv, [Next]_vars
  PROVE  ShapeInv'
<1>0. DOMAIN place = Calls  BY DEF QueueInv, QueueTypeOK
<1>1. ASSUME NEW c \in Calls, NEW u \in Users, Open(c, u)
      PROVE  ShapeInv'
  <2>1. place'[c] = PlaceAt("open") /\ UNCHANGED place
    BY <1>1, Places DEF Open, ShapeInv, queueVars
  <2>2. /\ step' \in [Calls -> StepLabels] /\ \A d \in Calls : place'[d] = PlaceAt(step'[d])
        /\ \A d \in Calls : d # c => step'[d] = step[d]
    <3>1. Goto(c, "open") /\ "open" \in StepLabels  BY <1>1 DEF Open, StepLabels
    <3> QED  BY <2>1, <3>1, ShapeOfMove
  <2> QED  BY <1>1, <2>2 DEF Open, ShapeInv, hostVars, fileVars
<1>2. ASSUME NEW c \in Calls, NEW e \in Requests, NEW u \in Users, Call(c, e, u)
      PROVE  ShapeInv'
  <2>1. place'[c] = PlaceAt("waiting") /\ \A d \in Calls : d # c => place'[d] = place[d]
    BY <1>0, <1>2, Places DEF Call, Enter
  <2>2. /\ step' \in [Calls -> StepLabels] /\ \A d \in Calls : place'[d] = PlaceAt(step'[d])
        /\ \A d \in Calls : d # c => step'[d] = step[d]
    <3>1. Goto(c, "waiting") /\ "waiting" \in StepLabels  BY <1>2 DEF Call, StepLabels
    <3> QED  BY <2>1, <3>1, ShapeOfMove
  <2> QED  BY <1>2, <2>2 DEF Call, ShapeInv, hostVars, fileVars
<1>3. ASSUME NEW c \in Calls, EditStep(c)
      PROVE  ShapeInv'
  <2>1. PICK label \in {"read", "write", "done", "refused"} :
           /\ Goto(c, label)
           /\ place'[c] = PlaceAt(label) /\ \A d \in Calls : d # c => place'[d] = place[d]
    <3>1. CASE Begin(c)  BY <1>0, <3>1, Places DEF Begin, Start
    <3>2. CASE Read(c)
      <4>1. place[c] = "running"  BY <3>2, Places DEF Read, ShapeInv
      <4> QED  BY <1>0, <3>2, <4>1, Places DEF Read, Leave, queueVars
    <3>3. CASE Write(c)  BY <1>0, <3>3, Places DEF Write, Leave
    <3>4. CASE Fails(c)  BY <1>0, <3>4, Places DEF Fails, Leave
    <3> QED  BY <1>3, <3>1, <3>2, <3>3, <3>4 DEF EditStep
  <2>2. /\ step' \in [Calls -> StepLabels] /\ \A d \in Calls : place'[d] = PlaceAt(step'[d])
        /\ \A d \in Calls : d # c => step'[d] = step[d]
    <3>1. label \in StepLabels  BY DEF StepLabels
    <3> QED  BY <2>1, <3>1, ShapeOfMove
  <2>3. step[c] # "new"  BY <1>3, Places DEF EditStep, Begin, Start, Read, Write, Fails, ShapeInv
  <2>4. /\ UNCHANGED <<entry, by, edit, loaded>> /\ DOMAIN conf' = DOMAIN conf
        /\ DOMAIN plans' = DOMAIN plans /\ DOMAIN read' = DOMAIN read /\ DOMAIN from' = DOMAIN from
    BY <1>3 DEF EditStep, Begin, Read, Write, Fails, hostVars, fileVars
  <2> QED  BY <2>2, <2>3, <2>4 DEF ShapeInv
<1>4. CASE \/ \E u \in Users, list \in PlanLists : SetPlans(u, list)
           \/ \E m \in Moves, u \in Users, s \in Servers : Move(m, u, s)
           \/ \E u \in Users : HostLogin(u)
           \/ UNCHANGED vars
  <2>1. /\ UNCHANGED <<place, step, edit, by, read, from, loaded, conf>>
        /\ DOMAIN plans' = DOMAIN plans
    BY <1>4 DEF SetPlans, Move, HostLogin, vars, queueVars, callVars, fileVars
  <2>2. entry' \in [Users -> Servers]
    BY <1>4 DEF SetPlans, Move, HostLogin, vars, hostVars, ShapeInv
  <2> QED  BY <2>1, <2>2 DEF ShapeInv
<1> QED  BY <1>1, <1>2, <1>3, <1>4 DEF Next

LEMMA EditsAreQueued == Spec => [](QueueInv /\ ShapeInv)
<1>1. Init => QueueInv /\ ShapeInv  BY QueueAtStart, ShapeAtStart DEF Init
<1>2. QueueInv /\ ShapeInv /\ [Next]_vars => (QueueInv /\ ShapeInv)'
  BY StepOfQueue, QueueKept, ShapeKept
<1> QED  BY <1>1, <1>2, PTL DEF Spec

\* InOrder: calls of one key, from withHostConfigMutex or withQueryPlanMutex, run
\* one at a time and in the order they came.
THEOREM OneAtATime == Spec => []InOrder
<1>1. QueueInv => InOrder  BY QueueGives
<1> QED  BY <1>1, EditsAreQueued, PTL

\* EntryWhileBusy: the map of promises has an entry exactly for the keys at work.
THEOREM NothingKept == Spec => []EntryWhileBusy
<1>1. QueueInv => EntryWhileBusy  BY QueueGives
<1> QED  BY <1>1, EditsAreQueued, PTL

-----------------------------------------------------------------------------
(* Edits are whole *)

\* While no host has moved, edits of cubrid.conf are all in one queue.
KeyInv ==
  moved = {} =>
    /\ \A u \in Users : entry[u] = FirstServer
    /\ \A c \in Calls :
         step[c] \in {"waiting", "read", "write"} /\ ~OfPlans(edit[c]) => key[c] = FirstServer

DisturbedInv ==
  /\ disturbed \subseteq Calls
  /\ \A c \in disturbed : step[c] \notin {"new", "open"} /\ (OfPlans(edit[c]) \/ moved # {})

\* What a call is about to write over is what it read.
ReadInv ==
  \A c \in Calls : step[c] = "write" =>
    /\ from[c] \in Servers
    /\ edit[c].kind = "raw" => read[c] = loaded[c]
    /\ c \in disturbed \/ read[c] = File(edit[c], from[c])

EditInv == KeyInv /\ DisturbedInv /\ ReadInv

\* The calls of one key are never two at their file.
LEMMA OneAtFile ==
  ASSUME QueueInv, ShapeInv, NEW c \in Calls, NEW d \in Calls,
         step[c] \in {"read", "write"}, step[d] \in {"read", "write"}, key[c] = key[d]
  PROVE  c = d
<1>1. place[c] = "running" /\ place[d] = "running"  BY Places DEF ShapeInv
<1>2. line[key[c]][1] = c /\ line[key[d]][1] = d  BY <1>1, FirstInLine
<1> QED  BY <1>2

\* A call that is new or open moves: it alone changes, and no file does.
LEMMA EditAfterBeginning ==
  ASSUME EditInv, ShapeInv, QueueInv, NEW c \in Calls, step[c] \in {"new", "open"},
         step'[c] \notin {"read", "write"}, step' \in [Calls -> StepLabels],
         \A d \in Calls : d # c =>
           /\ step'[d] = step[d] /\ edit'[d] = edit[d] /\ key'[d] = key[d]
           /\ read'[d] = read[d] /\ from'[d] = from[d] /\ loaded'[d] = loaded[d],
         UNCHANGED <<entry, conf, plans, moved, disturbed>>,
         moved = {} /\ step'[c] = "waiting" /\ ~OfPlans(edit'[c]) => key'[c] = FirstServer
  PROVE  EditInv'
<1>1. c \notin disturbed  BY DEF EditInv, DisturbedInv
<1>2. KeyInv'  BY DEF EditInv, KeyInv
<1>3. DisturbedInv'  BY <1>1 DEF EditInv, DisturbedInv, OfPlans
<1>4. ReadInv'
  <2>1. ASSUME NEW d \in Calls, step'[d] = "write"
        PROVE  /\ from'[d] \in Servers /\ (edit'[d].kind = "raw" => read'[d] = loaded'[d])
               /\ d \in disturbed' \/ read'[d] = (IF OfPlans(edit'[d]) THEN plans'[from'[d]] ELSE conf'[from'[d]])
    <3>1. d # c  BY <2>1
    <3>2. step[d] = "write"  BY <2>1, <3>1
    <3> QED  BY <3>1, <3>2 DEF EditInv, ReadInv, File
  <2> QED  BY <2>1 DEF ReadInv, File
<1> QED  BY <1>2, <1>3, <1>4 DEF EditInv

LEMMA EditKept ==
  ASSUME QueueInv, ShapeInv, EditInv, [Next]_vars
  PROVE  EditInv'
<1>0. ShapeInv'  BY ShapeKept
<1>1. ASSUME NEW c \in Calls, NEW u \in Users, Open(c, u)
      PROVE  EditInv'
  <2>1. step[c] = "new" /\ step'[c] = "open"  BY <1>1 DEF Open, Goto, ShapeInv
  <2>2. /\ UNCHANGED <<entry, conf, plans, moved, disturbed, key>>
        /\ \A d \in Calls : d # c =>
             /\ step'[d] = step[d] /\ edit'[d] = edit[d]
             /\ read'[d] = read[d] /\ from'[d] = from[d] /\ loaded'[d] = loaded[d]
    BY <1>1 DEF Open, Goto, ShapeInv, queueVars, hostVars, fileVars, history
  <2> QED  BY <1>0, <2>1, <2>2, EditAfterBeginning DEF ShapeInv
<1>2. ASSUME NEW c \in Calls, NEW e \in Requests, NEW u \in Users, Call(c, e, u)
      PROVE  EditInv'
  <2>1. step[c] \in {"new", "open"} /\ step'[c] = "waiting"  BY <1>2 DEF Call, Goto, ShapeInv
  <2>2. /\ UNCHANGED <<entry, conf, plans, moved, disturbed>>
        /\ \A d \in Calls : d # c =>
             /\ step'[d] = step[d] /\ edit'[d] = edit[d] /\ key'[d] = key[d]
             /\ read'[d] = read[d] /\ from'[d] = from[d] /\ loaded'[d] = loaded[d]
        /\ edit'[c] = e /\ key'[c] = KeyOf(e, u)
    BY <1>2 DEF Call, Goto, Enter, ShapeInv, QueueInv, QueueTypeOK, hostVars, fileVars, history
  <2>3. moved = {} /\ ~OfPlans(e) => key'[c] = FirstServer
    BY <2>2 DEF EditInv, KeyInv, KeyOf
  <2> QED  BY <1>0, <2>1, <2>2, <2>3, EditAfterBeginning DEF ShapeInv
<1>3. ASSUME NEW c \in Calls, EditStep(c)
      PROVE  EditInv'
  <2>1. /\ UNCHANGED <<entry, key, edit, by, loaded, moved>>
        /\ step[c] \in {"waiting", "read", "write"} /\ step'[c] \notin {"new", "open"}
        /\ \A d \in Calls : d # c => step'[d] = step[d] /\ read'[d] = read[d] /\ from'[d] = from[d]
    <3>1. CASE Begin(c)
      BY <3>1, Places DEF Begin, Start, Goto, ShapeInv, StepLabels, hostVars, history
    <3>2. CASE Read(c)
      BY <3>2 DEF Read, Leave, Goto, ShapeInv, queueVars, hostVars, history
    <3>3. CASE Write(c)
      BY <3>3 DEF Write, Leave, Goto, ShapeInv, hostVars
    <3>4. CASE Fails(c)
      BY <3>4 DEF Fails, Leave, Goto, ShapeInv, hostVars, history
    <3> QED  BY <1>3, <3>1, <3>2, <3>3, <3>4 DEF EditStep
  <2>2. step'[c] \in {"waiting", "read", "write"} => step[c] \in {"waiting", "read", "write"}
    BY <2>1
  <2>3. KeyInv'  BY <2>1 DEF EditInv, KeyInv
  <2>4. CASE UNCHANGED <<conf, plans, disturbed>>
    <3>1. DisturbedInv'  BY <2>1, <2>4 DEF EditInv, DisturbedInv
    <3>2. ASSUME step'[c] = "write"
          PROVE  /\ from'[c] \in Servers /\ (edit[c].kind = "raw" => read'[c] = loaded[c])
                 /\ read'[c] = File(edit[c], from'[c])
      <4>1. Read(c)
        BY <1>3, <3>2 DEF EditStep, Begin, Write, Fails, Goto, ShapeInv
      <4>2. /\ from'[c] = entry[by[c]] /\ read'[c] = File(edit[c], entry[by[c]])
            /\ by[c] \in Users
        BY <4>1 DEF Read, ShapeInv
      <4>3. ~Rejected(c, edit[c], read'[c])
        BY <3>2, <4>1, <4>2 DEF Read, Goto, ShapeInv
      <4> QED  BY <4>2, <4>3 DEF Rejected, File, OfPlans, ShapeInv
    <3>3. ReadInv'  BY <2>1, <2>4, <3>2 DEF EditInv, ReadInv, File
    <3> QED  BY <2>3, <3>1, <3>3 DEF EditInv
  <2>5. CASE Write(c)
    <3> DEFINE s == entry[by[c]]
    <3>1. /\ step[c] = "write" /\ step'[c] # "write"
          /\ disturbed' = disturbed \cup Disturbed(c, s)
          /\ \A t \in Servers :
               /\ conf'[t] # conf[t] => t = s /\ ~OfPlans(edit[c])
               /\ plans'[t] # plans[t] => t = s /\ OfPlans(edit[c])
      BY <2>5 DEF Write, Goto, ShapeInv
    <3>2. Disturbed(c, s) \subseteq Calls  BY DEF Disturbed
    <3>3. ASSUME NEW d \in Disturbed(c, s)
          PROVE  step[d] = "write" /\ (OfPlans(edit[d]) \/ moved # {}) /\ d # c
      <4>1. /\ d \in Calls /\ step[d] = "write" /\ key[d] # key[c]
            /\ OfPlans(edit[d]) = OfPlans(edit[c])
        BY DEF Disturbed
      <4> QED  BY <3>1, <4>1 DEF EditInv, KeyInv
    <3>4. DisturbedInv'
      BY <2>1, <3>1, <3>2, <3>3 DEF EditInv, DisturbedInv
    <3>5. ASSUME NEW d \in Calls, step'[d] = "write", d \notin disturbed'
          PROVE  File(edit[d], from[d])' = File(edit[d], from[d])
      <4>1. d # c /\ step[d] = "write" /\ from'[d] = from[d] /\ from[d] \in Servers
        BY <2>1, <3>1, <3>5 DEF EditInv, ReadInv
      <4>2. key[d] # key[c]  BY <3>1, <4>1, OneAtFile
      <4>3. from[d] # s \/ OfPlans(edit[d]) # OfPlans(edit[c])
        BY <3>1, <3>5, <4>1, <4>2 DEF Disturbed
      <4> QED  BY <2>1, <3>1, <4>1, <4>3 DEF File, OfPlans
    <3>6. ReadInv'
      <4>1. ASSUME NEW d \in Calls, step'[d] = "write"
            PROVE  /\ from'[d] \in Servers /\ (edit'[d].kind = "raw" => read'[d] = loaded'[d])
                   /\ d \in disturbed' \/ read'[d] = File(edit[d], from[d])'
        <5>1. d # c /\ step[d] = "write"  BY <2>1, <3>1, <4>1
        <5>2. d \notin disturbed' => d \notin disturbed  BY <3>1
        <5> QED  BY <2>1, <3>5, <4>1, <5>1, <5>2 DEF EditInv, ReadInv
      <4> QED  BY <4>1 DEF ReadInv
    <3> QED  BY <2>3, <3>4, <3>6 DEF EditInv
  <2> QED  BY <1>3, <2>4, <2>5 DEF EditStep, Begin, Read, Fails, fileVars, history
<1>4. ASSUME NEW u \in Users, NEW list \in PlanLists, SetPlans(u, list)
      PROVE  EditInv'
  <2>1. /\ UNCHANGED <<entry, key, step, edit, read, from, loaded, moved, conf>>
        /\ disturbed' = disturbed \cup {d \in Calls : step[d] = "write" /\ from[d] = entry[u] /\ OfPlans(edit[d])}
        /\ \A t \in Servers : plans'[t] # plans[t] => t = entry[u]
    BY <1>4 DEF SetPlans, ShapeInv, queueVars, hostVars, callVars
  <2>2. KeyInv'  BY <2>1 DEF EditInv, KeyInv
  <2>3. DisturbedInv'  BY <2>1 DEF EditInv, DisturbedInv
  <2>4. ReadInv'  BY <2>1 DEF EditInv, ReadInv, File
  <2> QED  BY <2>2, <2>3, <2>4 DEF EditInv
<1>5. ASSUME NEW m \in Moves, NEW u \in Users, NEW s \in Servers, Move(m, u, s)
      PROVE  EditInv'
  <2>1. /\ UNCHANGED <<step, edit, read, from, loaded, conf, plans, disturbed>> /\ moved' # {}
    BY <1>5 DEF Move, callVars, fileVars
  <2> QED  BY <2>1 DEF EditInv, KeyInv, DisturbedInv, ReadInv, File
<1>6. CASE UNCHANGED vars \/ \E u \in Users : HostLogin(u)
  <2>1. UNCHANGED <<entry, key, step, edit, read, from, loaded, moved, conf, plans, disturbed>>
    BY <1>6 DEF HostLogin, vars, queueVars, hostVars, fileVars, callVars, history
  <2> QED  BY <2>1 DEF EditInv, KeyInv, DisturbedInv, ReadInv, File
<1> QED  BY <1>1, <1>2, <1>3, <1>4, <1>5, <1>6 DEF Next

LEMMA EditAtStart == Init => EditInv
  BY KeysAssumption DEF Init, QueueInit, EditInv, KeyInv, DisturbedInv, ReadInv

\* What one step makes of a file some call was about to write.
Whole(s, c) ==
  step[c] = "write" /\ place'[c] = "left" /\ File(edit[c], s) # File(edit[c], s)' =>
    \/ Interfered(c) \/ from[c] # s
    \/ /\ File(edit[c], s)' = Edited(c, edit[c], File(edit[c], s))
       /\ edit[c].kind = "raw" => conf[s] = loaded[c]

LEMMA StepIsWhole ==
  ASSUME QueueInv, ShapeInv, EditInv, Next, NEW s \in Servers, NEW c \in Calls
  PROVE  Whole(s, c)
<1> SUFFICES ASSUME step[c] = "write", place'[c] = "left",
                    File(edit[c], s) # File(edit[c], s)', ~Interfered(c), from[c] = s
             PROVE  /\ File(edit[c], s)' = Edited(c, edit[c], File(edit[c], s))
                    /\ edit[c].kind = "raw" => conf[s] = loaded[c]
  BY DEF Whole
<1>1. place[c] = "running" /\ DOMAIN place = Calls
  BY Places DEF ShapeInv, QueueInv, QueueTypeOK
<1>2. Write(c) \/ Fails(c)
  <2>1. ASSUME NEW d \in Calls, d # c, EditStep(d)
        PROVE  FALSE
    <3>1. place'[c] = place[c]
      BY <1>1, <2>1 DEF EditStep, Begin, Start, Read, Write, Fails, Leave, queueVars
    <3> QED  BY <1>1, <3>1
  <2>2. ASSUME NEW d \in Calls, NEW u \in Users, Open(d, u) \/ \E e \in Requests : Call(d, e, u)
        PROVE  FALSE
    <3>1. place'[c] = place[c] \/ place'[c] = "waiting"
      BY <1>1, <2>2 DEF Open, Call, Enter, queueVars
    <3> QED  BY <1>1, <3>1
  <2>3. ~(\/ \E u \in Users, list \in PlanLists : SetPlans(u, list)
          \/ \E m \in Moves, u \in Users, t \in Servers : Move(m, u, t)
          \/ \E u \in Users : HostLogin(u))
    <3>1. ASSUME UNCHANGED queueVars PROVE FALSE  BY <1>1, <3>1 DEF queueVars
    <3> QED  BY <3>1 DEF SetPlans, Move, HostLogin
  <2>4. EditStep(c)  BY <2>1, <2>2, <2>3 DEF Next
  <2> QED  BY <1>1, <2>4 DEF EditStep, Begin, Start, Read
<1>3. ~Fails(c)  BY DEF Fails, fileVars, File
<1>4. Write(c)  BY <1>2, <1>3
<1>5. /\ edit' = edit
      /\ OfPlans(edit[c]) => plans'[s] # plans[s]
      /\ ~OfPlans(edit[c]) => conf'[s] # conf[s]
  BY <1>4 DEF Write, File
<1>6. s = entry[by[c]]  BY <1>4, <1>5 DEF Write, ShapeInv
<1>7. File(edit[c], s)' = Edited(c, edit[c], read[c])
  BY <1>4, <1>5, <1>6 DEF Write, File, ShapeInv
<1>8. read[c] = File(edit[c], s) /\ (edit[c].kind = "raw" => read[c] = loaded[c])
  BY DEF EditInv, DisturbedInv, ReadInv, Interfered
<1>9. edit[c].kind = "raw" => File(edit[c], s) = conf[s]  BY DEF File, OfPlans
<1> QED  BY <1>7, <1>8, <1>9

\* EditsAreWhole: withHostConfigMutex and withQueryPlanMutex keep the read and the
\* write of an edit together, and the raw save compares under the same mutex.
THEOREM WholeEdits == Spec => EditsAreWhole
<1>1. Init => EditInv  BY EditAtStart
<1>2. QueueInv /\ ShapeInv /\ EditInv /\ [Next]_vars => EditInv'  BY EditKept
<1>3. QueueInv /\ ShapeInv /\ EditInv /\ [Next]_vars =>
        [\A s \in Servers, c \in Calls :
           step[c] = "write" /\ place'[c] = "left" /\ File(edit[c], s) # File(edit[c], s)' =>
             \/ Interfered(c) \/ from[c] # s
             \/ /\ File(edit[c], s)' = Edited(c, edit[c], File(edit[c], s))
                /\ edit[c].kind = "raw" => conf[s] = loaded[c]]_vars
  BY StepIsWhole DEF Whole
<1> QED  BY <1>1, <1>2, <1>3, EditsAreQueued, PTL DEF Spec, EditsAreWhole
=============================================================================
