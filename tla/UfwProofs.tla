---- MODULE UfwProofs ----
(***************************************************************************)
(* What the calls of the ufw store preserve: typed stores stay typed and   *)
(* sound lists stay sound, for any rules, addresses and settings.          *)
(***************************************************************************)
EXTENDS Ufw, SequenceTheorems, TLAPS

\* A store whose two lists are sound.
Good(b) == b \in Stores /\ Sound(b.v4, "v4") /\ Sound(b.v6, "v6")

\* A store that differs in its rules only.
SameSettings(b, c) == c.enabled = b.enabled /\ c.set = b.set /\ c.modules = b.modules

\* A rule that a list for this family can hold.
Fits(r, family) == r \in Rules /\ AddrOf[r.spec] \in {"any", family}

-----------------------------------------------------------------------------
(* Sequences *)

\* Removing an element: where the others go.
LEMMA RemoveAtFact ==
    ASSUME NEW S, NEW s \in Seq(S), NEW i \in 1..Len(s)
    PROVE  /\ RemoveAt(s, i) \in Seq(S)
           /\ Len(RemoveAt(s, i)) = Len(s) - 1
           /\ \A j \in 1..Len(s) - 1 : RemoveAt(s, i)[j] = IF j < i THEN s[j] ELSE s[j + 1]
<1> DEFINE a == SubSeq(s, 1, i - 1)
           b == SubSeq(s, i + 1, Len(s))
<1>1. a \in Seq(S) /\ Len(a) = i - 1 /\ \A j \in 1..i - 1 : a[j] = s[j]
    OBVIOUS
<1>2. b \in Seq(S) /\ Len(b) = Len(s) - i /\ \A j \in 1..Len(s) - i : b[j] = s[i + j]
    OBVIOUS
<1>3. RemoveAt(s, i) = a \o b
    BY DEF RemoveAt
<1> HIDE DEF a, b
<1>4. /\ a \o b \in Seq(S)
      /\ Len(a \o b) = Len(s) - 1
    <2>1. a \in Seq(S) /\ b \in Seq(S)
        BY <1>1, <1>2
    <2>2. a \o b \in Seq(S) /\ Len(a \o b) = Len(a) + Len(b)
        BY <2>1
    <2> QED  BY <2>2, <1>1, <1>2
<1>5. ASSUME NEW j \in 1..Len(s) - 1
      PROVE  (a \o b)[j] = IF j < i THEN s[j] ELSE s[j + 1]
    <2>1. CASE j < i
        BY <2>1, <1>1, <1>2
    <2>2. CASE j >= i
        <3>1. (a \o b)[j] = b[j - (i - 1)]
            BY <2>2, <1>1, <1>2
        <3>2. b[j - (i - 1)] = s[i + (j - (i - 1))]
            BY <2>2, <1>2
        <3> QED  BY <3>1, <3>2, <2>2
    <2>3. j < i \/ j >= i
        OBVIOUS
    <2> QED  BY <2>1, <2>2, <2>3
<1> QED  BY <1>3, <1>4, <1>5

\* new is list with e inserted at i.
Inserted(new, list, i, e) ==
    /\ Len(new) = Len(list) + 1
    /\ \A j \in 1..Len(list) + 1 :
         new[j] = IF j < i THEN list[j] ELSE IF j = i THEN e ELSE list[j - 1]

\* Inserting an element: where the others go.
LEMMA InsertAtFact ==
    ASSUME NEW S, NEW s \in Seq(S), NEW i \in 1..Len(s) + 1, NEW e \in S
    PROVE  InsertAt(s, i, e) \in Seq(S) /\ Inserted(InsertAt(s, i, e), s, i, e)
<1> DEFINE a == SubSeq(s, 1, i - 1)
           b == SubSeq(s, i, Len(s))
<1>1. a \in Seq(S) /\ Len(a) = i - 1 /\ \A j \in 1..i - 1 : a[j] = s[j]
    OBVIOUS
<1>2. b \in Seq(S) /\ Len(b) = Len(s) - i + 1 /\ \A j \in 1..Len(s) - i + 1 : b[j] = s[i + j - 1]
    OBVIOUS
<1>3. InsertAt(s, i, e) = (a \o <<e>>) \o b
    BY DEF InsertAt
<1> HIDE DEF a, b
<1> DEFINE c == a \o <<e>>
<1>4. /\ c \in Seq(S) /\ Len(c) = i
      /\ \A j \in 1..i - 1 : c[j] = s[j]
      /\ c[i] = e
    BY <1>1
<1> HIDE DEF c
<1>5. c \o b \in Seq(S) /\ Len(c \o b) = Len(s) + 1
    <2>1. c \in Seq(S) /\ b \in Seq(S)
        BY <1>2, <1>4
    <2>2. c \o b \in Seq(S) /\ Len(c \o b) = Len(c) + Len(b)
        BY <2>1
    <2> QED  BY <2>2, <1>2, <1>4
<1>6. ASSUME NEW j \in 1..Len(s) + 1
      PROVE  (c \o b)[j] = IF j < i THEN s[j] ELSE IF j = i THEN e ELSE s[j - 1]
    <2>1. CASE j <= i
        BY <2>1, <1>4, <1>2
    <2>2. CASE j > i
        <3>1. (c \o b)[j] = b[j - i]
            BY <2>2, <1>2, <1>4
        <3>2. b[j - i] = s[i + (j - i) - 1]
            BY <2>2, <1>2
        <3> QED  BY <3>1, <3>2, <2>2
    <2>3. j <= i \/ j > i
        OBVIOUS
    <2> QED  BY <2>1, <2>2, <2>3
<1>7. InsertAt(s, i, e) = c \o b
    BY <1>3 DEF c
<1> QED  BY <1>5, <1>6, <1>7 DEF Inserted

-----------------------------------------------------------------------------
(* Lists *)

\* Where Place finds a rule.
LEMMA PlaceFact ==
    ASSUME NEW list \in Seq(Rules), NEW spec
    PROVE  /\ Place(list, spec) \in 0..Len(list)
           /\ Place(list, spec) = 0 => \A i \in 1..Len(list) : list[i].spec # spec
           /\ Place(list, spec) # 0 => list[Place(list, spec)].spec = spec
<1>1. DOMAIN list = 1..Len(list)
    OBVIOUS
<1>2. CASE \E i \in DOMAIN list : list[i].spec = spec
    BY <1>1, <1>2 DEF Place
<1>3. CASE ~\E i \in DOMAIN list : list[i].spec = spec
    BY <1>1, <1>3 DEF Place
<1> QED  BY <1>2, <1>3

\* A list stays sound when a rule that fits it is put into it.
LEMMA PutSound ==
    ASSUME NEW family, NEW list, NEW r, NEW pos \in 0..Len(list) + 1,
           Sound(list, family), Fits(r, family)
    PROVE  Sound(Put(list, r, pos), family)
<1> DEFINE at == Place(list, r.spec)
<1>1. list \in Seq(Rules) /\ r \in Rules /\ r.spec \in Specs /\ Len(list) \in Nat
    BY DEF Sound, Fits, Rules
<1>2. DOMAIN list = 1..Len(list)
    BY <1>1
<1>3. /\ at \in 0..Len(list)
      /\ at = 0 => \A i \in 1..Len(list) : list[i].spec # r.spec
      /\ at # 0 => list[at].spec = r.spec
    BY <1>1, PlaceFact
<1>4. AddrOf[r.spec] \in {"any", family}
    BY DEF Fits
<1>5. /\ \A i \in 1..Len(list) : AddrOf[list[i].spec] \in {"any", family}
      /\ \A i, j \in 1..Len(list) : list[i].spec = list[j].spec => i = j
    BY <1>2 DEF Sound
<1> HIDE DEF at
<1>6. CASE at # 0 /\ pos = 0
    <2> DEFINE new == ReplaceAt(list, at, r)
    <2>1. /\ new \in Seq(Rules) /\ DOMAIN new = 1..Len(list)
          /\ \A i \in 1..Len(list) : new[i] = IF i = at THEN r ELSE list[i]
        BY <1>1, <1>2, <1>3, <1>6 DEF ReplaceAt
    <2> HIDE DEF new
    <2>2. \A i \in 1..Len(list) : new[i].spec = list[i].spec
        BY <2>1, <1>3, <1>6
    <2>3. Sound(new, family)
        BY <2>1, <2>2, <1>5 DEF Sound
    <2> QED  BY <2>3, <1>6 DEF Put, at, new
<1>7. CASE at # 0 /\ pos # 0
    BY <1>7 DEF Put, at
<1>8. CASE at = 0 /\ pos = 0
    <2> DEFINE new == Append(list, r)
    <2>1. /\ new \in Seq(Rules) /\ DOMAIN new = 1..Len(list) + 1
          /\ \A i \in 1..Len(list) : new[i] = list[i]
          /\ new[Len(list) + 1] = r
        BY <1>1
    <2> HIDE DEF new
    <2>2. \A i \in 1..Len(list) + 1 : i \in 1..Len(list) \/ i = Len(list) + 1
        BY <1>1
    <2>3. \A i \in 1..Len(list) + 1 : AddrOf[new[i].spec] \in {"any", family}
        BY <2>1, <2>2, <1>4, <1>5
    <2>4. \A i, j \in 1..Len(list) + 1 : new[i].spec = new[j].spec => i = j
        BY <2>1, <2>2, <1>3, <1>5, <1>8
    <2>5. Sound(new, family)
        BY <2>1, <2>3, <2>4 DEF Sound
    <2> QED  BY <2>5, <1>8 DEF Put, at, new
<1>9. CASE at = 0 /\ pos # 0
    <2>0. list \in Seq(Rules) /\ r \in Rules /\ pos \in 1..Len(list) + 1
        BY <1>1, <1>9
    <2> DEFINE new == InsertAt(list, pos, r)
    <2>1. /\ new \in Seq(Rules)
          /\ Len(new) = Len(list) + 1
          /\ \A j \in 1..Len(list) + 1 :
               new[j] = IF j < pos THEN list[j] ELSE IF j = pos THEN r ELSE list[j - 1]
        <3>1. new \in Seq(Rules) /\ Inserted(new, list, pos, r)
            BY <2>0, InsertAtFact
        <3> QED  BY <3>1 DEF Inserted
    <2> HIDE DEF new
    <2>2. DOMAIN new = 1..Len(list) + 1
        BY <2>1
    <2>3. ASSUME NEW j \in 1..Len(list) + 1
          PROVE  \/ j < pos /\ j \in 1..Len(list) /\ new[j] = list[j]
                 \/ j = pos /\ new[j] = r
                 \/ j > pos /\ j - 1 \in 1..Len(list) /\ new[j] = list[j - 1]
        BY <1>1, <2>0, <2>1
    <2>4. \A i \in 1..Len(list) + 1 : AddrOf[new[i].spec] \in {"any", family}
        BY <2>3, <1>4, <1>5
    <2>5. ASSUME NEW i \in 1..Len(list) + 1, NEW j \in 1..Len(list) + 1,
                 new[i].spec = new[j].spec
          PROVE  i = j
        <3> DEFINE old(k) == IF k < pos THEN k ELSE k - 1
        <3>1. \A k \in 1..Len(list) + 1 : k # pos =>
                 old(k) \in 1..Len(list) /\ new[k] = list[old(k)]
            BY <2>3, <2>0, <1>1
        <3>2. \A k \in 1..Len(list) + 1 : k # pos => new[k].spec # r.spec
            BY <3>1, <1>3, <1>9
        <3>3. new[pos] = r
            BY <2>0, <2>1
        <3>4. CASE i = pos \/ j = pos
            BY <3>2, <3>3, <3>4, <2>5
        <3>5. CASE i # pos /\ j # pos
            <4>1. old(i) = old(j)
                BY <3>1, <3>5, <2>5, <1>5
            <4> QED  BY <4>1, <3>5, <2>0, <1>1
        <3> QED  BY <3>4, <3>5
    <2>6. Sound(new, family)
        BY <2>1, <2>2, <2>4, <2>5 DEF Sound
    <2> QED  BY <2>6, <1>9 DEF Put, at, new
<1> QED  BY <1>6, <1>7, <1>8, <1>9

\* A list stays sound when one of its rules is removed.
LEMMA RemoveSound ==
    ASSUME NEW family, NEW list, NEW i \in 1..Len(list), Sound(list, family)
    PROVE  Sound(RemoveAt(list, i), family)
<1> DEFINE new == RemoveAt(list, i)
<1>1. list \in Seq(Rules) /\ Len(list) \in Nat /\ DOMAIN list = 1..Len(list)
    BY DEF Sound
<1>2. /\ new \in Seq(Rules) /\ Len(new) = Len(list) - 1
      /\ \A j \in 1..Len(list) - 1 : new[j] = IF j < i THEN list[j] ELSE list[j + 1]
    BY <1>1, RemoveAtFact
<1> HIDE DEF new
<1>3. DOMAIN new = 1..Len(list) - 1
    BY <1>2
<1>4. ASSUME NEW j \in 1..Len(list) - 1
      PROVE  \/ j < i /\ j \in 1..Len(list) /\ new[j] = list[j]
             \/ j >= i /\ j + 1 \in 1..Len(list) /\ new[j] = list[j + 1]
    BY <1>1, <1>2
<1>5. /\ \A k \in 1..Len(list) : AddrOf[list[k].spec] \in {"any", family}
      /\ \A k, j \in 1..Len(list) : list[k].spec = list[j].spec => k = j
    BY <1>1 DEF Sound
<1>6. \A j \in 1..Len(list) - 1 : AddrOf[new[j].spec] \in {"any", family}
    BY <1>4, <1>5
<1>7. ASSUME NEW j \in 1..Len(list) - 1, NEW k \in 1..Len(list) - 1,
             new[j].spec = new[k].spec
      PROVE  j = k
    BY <1>7, <1>4, <1>5, <1>1
<1>8. Sound(new, family)
    BY <1>2, <1>3, <1>6, <1>7 DEF Sound
<1> QED  BY <1>8 DEF new

-----------------------------------------------------------------------------
(* Calls *)

\* Replacing a list of a store by a sound one.
LEMMA NewList ==
    ASSUME NEW b, NEW list, Good(b)
    PROVE  /\ Sound(list, "v4") => /\ Good([b EXCEPT !.v4 = list])
                                   /\ SameSettings(b, [b EXCEPT !.v4 = list])
           /\ Sound(list, "v6") => /\ Good([b EXCEPT !.v6 = list])
                                   /\ SameSettings(b, [b EXCEPT !.v6 = list])
           /\ [b EXCEPT !.v4 = list].v4 = list /\ [b EXCEPT !.v4 = list].v6 = b.v6
           /\ [b EXCEPT !.v6 = list].v6 = list /\ [b EXCEPT !.v6 = list].v4 = b.v4
<1>1. b \in Stores
    BY DEF Good
<1>2. ASSUME Sound(list, "v4")
      PROVE  Good([b EXCEPT !.v4 = list]) /\ SameSettings(b, [b EXCEPT !.v4 = list])
    <2>1. list \in Seq(Rules)
        BY <1>2 DEF Sound
    <2> DEFINE c == [b EXCEPT !.v4 = list]
    <2>2. c \in Stores /\ c.v4 = list /\ c.v6 = b.v6 /\ SameSettings(b, c)
        BY <1>1, <2>1 DEF Stores, SameSettings
    <2> QED  BY <2>2, <1>2 DEF Good
<1>3. ASSUME Sound(list, "v6")
      PROVE  Good([b EXCEPT !.v6 = list]) /\ SameSettings(b, [b EXCEPT !.v6 = list])
    <2>1. list \in Seq(Rules)
        BY <1>3 DEF Sound
    <2> DEFINE c == [b EXCEPT !.v6 = list]
    <2>2. c \in Stores /\ c.v6 = list /\ c.v4 = b.v4 /\ SameSettings(b, c)
        BY <1>1, <2>1 DEF Stores, SameSettings
    <2> QED  BY <2>2, <1>3 DEF Good
<1>4. /\ [b EXCEPT !.v4 = list].v4 = list /\ [b EXCEPT !.v4 = list].v6 = b.v6
      /\ [b EXCEPT !.v6 = list].v6 = list /\ [b EXCEPT !.v6 = list].v4 = b.v4
    BY <1>1 DEF Stores
<1> QED  BY <1>2, <1>3, <1>4

\* The numbers of a store are those of its lists.
LEMMA Counts ==
    ASSUME NEW b, Good(b)
    PROVE  /\ b.v4 \in Seq(Rules) /\ b.v6 \in Seq(Rules)
           /\ Num4(b) = Len(b.v4) /\ Num4(b) \in Nat
           /\ Num6(b) \in 0..Len(b.v6) /\ Len(b.v6) \in Nat
           /\ NumRules(b) = Num4(b) + Num6(b) /\ NumRules(b) \in Nat
<1>1. b.v4 \in Seq(Rules) /\ b.v6 \in Seq(Rules)
    BY DEF Good, Sound
<1>2. Num4(b) = Len(b.v4) /\ Num4(b) \in Nat /\ Len(b.v6) \in Nat
    BY <1>1 DEF Num4
<1>3. Num6(b) \in 0..Len(b.v6)
    BY <1>1, <1>2 DEF Num6
<1>4. NumRules(b) = Num4(b) + Num6(b)
    BY DEF NumRules
<1> QED  BY <1>1, <1>2, <1>3, <1>4

\* new is list, or list with r put into it.
PutIn(list, new, r) == new = list \/ \E pos \in 0..Len(list) + 1 : new = Put(list, r, pos)

\* Setting a rule puts it into the lists of its family, or not, and changes
\* nothing else, for every position and whether or not it raises.
LEMMA SetRuleGood ==
    ASSUME NEW b, NEW r, NEW pos \in Nat, NEW family, Good(b),
           family # "v6" => Fits(r, "v4"), family # "v4" => Fits(r, "v6")
    PROVE  /\ Good(SetRule(b, r, pos, family).store)
           /\ SameSettings(b, SetRule(b, r, pos, family).store)
           /\ PutIn(b.v4, SetRule(b, r, pos, family).store.v4, r)
           /\ PutIn(b.v6, SetRule(b, r, pos, family).store.v6, r)
<1> DEFINE Fine(c) == Good(c) /\ SameSettings(b, c) /\ PutIn(b.v4, c.v4, r) /\ PutIn(b.v6, c.v6, r)
           c == SetRule(b, r, pos, family).store
<1>1. /\ b.v4 \in Seq(Rules) /\ b.v6 \in Seq(Rules)
      /\ Num4(b) = Len(b.v4) /\ Num4(b) \in Nat
      /\ Num6(b) \in 0..Len(b.v6) /\ Len(b.v6) \in Nat
      /\ NumRules(b) = Num4(b) + Num6(b)
    BY Counts
<1>2. Fine(b) /\ Sound(b.v4, "v4") /\ Sound(b.v6, "v6")
    BY DEF Good, SameSettings, PutIn
\* One list of a fine store takes the rule.
<1>3. ASSUME NEW d, NEW at, Fine(d)
      PROVE  /\ family # "v6" /\ at \in 0..Len(b.v4) + 1 => Fine([d EXCEPT !.v4 = Put(b.v4, r, at)])
             /\ family # "v4" /\ at \in 0..Len(b.v6) + 1 => Fine([d EXCEPT !.v6 = Put(b.v6, r, at)])
    <2>1. ASSUME family # "v6", at \in 0..Len(b.v4) + 1
          PROVE  Fine([d EXCEPT !.v4 = Put(b.v4, r, at)])
        <3> DEFINE new == Put(b.v4, r, at)
        <3>1. Sound(new, "v4") /\ PutIn(b.v4, new, r)
            BY <2>1, <1>2, PutSound DEF PutIn
        <3> HIDE DEF new
        <3>2. /\ Good([d EXCEPT !.v4 = new]) /\ SameSettings(d, [d EXCEPT !.v4 = new])
              /\ [d EXCEPT !.v4 = new].v4 = new /\ [d EXCEPT !.v4 = new].v6 = d.v6
            BY <1>3, <3>1, NewList
        <3>3. Fine([d EXCEPT !.v4 = new])
            BY <1>3, <3>1, <3>2 DEF SameSettings
        <3> HIDE DEF Fine
        <3> QED  BY <3>3 DEF new
    <2>2. ASSUME family # "v4", at \in 0..Len(b.v6) + 1
          PROVE  Fine([d EXCEPT !.v6 = Put(b.v6, r, at)])
        <3> DEFINE new == Put(b.v6, r, at)
        <3>1. Sound(new, "v6") /\ PutIn(b.v6, new, r)
            BY <2>2, <1>2, PutSound DEF PutIn
        <3> HIDE DEF new
        <3>2. /\ Good([d EXCEPT !.v6 = new]) /\ SameSettings(d, [d EXCEPT !.v6 = new])
              /\ [d EXCEPT !.v6 = new].v6 = new /\ [d EXCEPT !.v6 = new].v4 = d.v4
            BY <1>3, <3>1, NewList
        <3>3. Fine([d EXCEPT !.v6 = new])
            BY <1>3, <3>1, <3>2 DEF SameSettings
        <3> HIDE DEF Fine
        <3> QED  BY <3>3 DEF new
    <2> QED  BY <2>1, <2>2
<1> SUFFICES Fine(c)
    OBVIOUS
<1> HIDE DEF Fine
<1>4. CASE pos > NumRules(b)
    BY <1>2, <1>4 DEF SetRule, Raised
<1>5. CASE pos <= NumRules(b) /\ family = "v4"
    <2>1. CASE pos > Num4(b)
        BY <2>1, <1>1, <1>2, <1>5 DEF SetRule, SetV4, Raised
    <2>2. CASE pos <= Num4(b)
        <3>1. c = [b EXCEPT !.v4 = Put(b.v4, r, pos)]
            BY <2>2, <1>1, <1>5 DEF SetRule, SetV4, Ok
        <3> HIDE DEF c
        <3> QED  BY <3>1, <2>2, <1>1, <1>2, <1>3, <1>5
    <2> QED  BY <2>1, <2>2, <1>1
<1>6. CASE pos <= NumRules(b) /\ family = "v6"
    <2> DEFINE at == IF pos = 0 THEN 0 ELSE pos - Num4(b)
    <2>1. CASE ~Ipv6On(b) \/ pos \in 1..Num4(b) \/ at > Len(b.v6)
        BY <2>1, <1>1, <1>2, <1>6 DEF SetRule, SetV6, Raised
    <2>2. CASE Ipv6On(b) /\ pos \notin 1..Num4(b) /\ at <= Len(b.v6)
        <3>1. at \in 0..Len(b.v6) + 1
            BY <2>2, <1>1
        <3>2. c = [b EXCEPT !.v6 = Put(b.v6, r, at)]
            BY <2>2, <1>1, <1>6 DEF SetRule, SetV6, Ok
        <3> HIDE DEF c, at
        <3> QED  BY <3>1, <3>2, <1>2, <1>3, <1>6
    <2>3. at \in Int
        BY <1>1
    <2> QED  BY <2>1, <2>2, <2>3, <1>1
<1>7. CASE pos <= NumRules(b) /\ family \notin {"v4", "v6"}
    <2>1. c = SetBoth(b, r, pos).store
        BY <1>7, <1>1 DEF SetRule
    <2>2. CASE ~Ipv6On(b)
        <3>1. Num6(b) = 0
            BY <2>2 DEF Num6
        <3>2. c = [b EXCEPT !.v4 = Put(b.v4, r, pos)] /\ pos \in 0..Len(b.v4) + 1
            BY <2>1, <2>2, <3>1, <1>1, <1>7 DEF SetBoth, Ok
        <3> HIDE DEF c
        <3> QED  BY <3>2, <1>2, <1>3, <1>7
    <2>3. CASE Ipv6On(b)
        <3> DEFINE at4 == IF pos > Num4(b) THEN Place(b.v4, b.v6[pos - Num4(b)].spec) ELSE pos
                   new4 == Put(b.v4, r, at4)
                   at6 == IF pos = 0 THEN 0
                          ELSE IF pos + 1 <= Len(new4) THEN Place(b.v6, new4[pos + 1].spec)
                          ELSE pos + 1 - Len(new4)
                   written == [b EXCEPT !.v4 = new4]
        <3>1. SetBoth(b, r, pos) = IF at6 > Len(b.v6) THEN Raised(written)
                                   ELSE Ok([written EXCEPT !.v6 = Put(@, r, at6)])
            BY <2>3 DEF SetBoth
        <3>2. at4 \in 0..Len(b.v4) + 1
            BY <1>1, PlaceFact
        <3> HIDE DEF at4
        <3>3. Fine(written)
            BY <3>2, <1>2, <1>3, <1>7
        <3>4. written.v6 = b.v6 /\ written.v4 = new4
            BY NewList
        <3>5. new4 \in Seq(Rules) /\ Len(new4) \in Nat
            BY <3>3, <3>4 DEF Fine, Good, Sound
        <3> HIDE DEF new4, written
        <3>6. at6 \in Nat
            BY <3>5, <1>1, PlaceFact
        <3> HIDE DEF at6
        <3>7. CASE at6 > Len(b.v6)
            BY <3>7, <3>1, <3>3, <2>1 DEF Raised
        <3>8. CASE at6 <= Len(b.v6)
            <4>1. c = [written EXCEPT !.v6 = Put(b.v6, r, at6)]
                BY <3>1, <3>4, <3>8, <3>6, <1>1, <2>1 DEF Ok
            <4>2. at6 \in 0..Len(b.v6) + 1
                BY <3>8, <3>6, <1>1
            <4> HIDE DEF c
            <4> QED  BY <4>1, <4>2, <3>3, <3>4, <1>3, <1>7
        <3> QED  BY <3>6, <3>7, <3>8, <1>1
    <2> QED  BY <2>2, <2>3
<1> QED  BY <1>1, <1>4, <1>5, <1>6, <1>7

\* Deleting by number removes the rule that is read by that number.
LEMMA DeleteRuleFact ==
    ASSUME NEW b, NEW n \in 1..NumRules(b), Good(b)
    PROVE  /\ DeleteRule(b, n).ok
           /\ \/ /\ n \in 1..Len(b.v4) /\ n <= Num4(b)
                 /\ DeleteRule(b, n).store = [b EXCEPT !.v4 = RemoveAt(b.v4, n)]
                 /\ RuleAt(b, n).spec = b.v4[n].spec
              \/ /\ n - Num4(b) \in 1..Len(b.v6) /\ n > Num4(b) /\ Ipv6On(b)
                 /\ DeleteRule(b, n).store = [b EXCEPT !.v6 = RemoveAt(b.v6, n - Num4(b))]
                 /\ RuleAt(b, n).spec = b.v6[n - Num4(b)].spec
<1>1. /\ b.v4 \in Seq(Rules) /\ b.v6 \in Seq(Rules)
      /\ Num4(b) = Len(b.v4) /\ Num4(b) \in Nat
      /\ Num6(b) \in 0..Len(b.v6) /\ Len(b.v6) \in Nat
      /\ NumRules(b) = Num4(b) + Num6(b)
    BY Counts
<1>2. CASE n <= Num4(b)
    BY <1>1, <1>2 DEF DeleteRule, Ok, RuleAt
<1>3. CASE n > Num4(b)
    <2>1. n - Num4(b) \in 1..Len(b.v6) /\ ~(n <= Num4(b))
        BY <1>1, <1>3
    <2>2. Num6(b) # 0
        BY <1>1, <1>3
    <2>3. Ipv6On(b)
        BY <2>2 DEF Num6
    <2> QED  BY <1>3, <2>1, <2>3 DEF DeleteRule, Ok, RuleAt
<1> QED  BY <1>1, <1>2, <1>3

\* Deleting by number changes rules only and keeps both lists sound.
LEMMA DeleteRuleGood ==
    ASSUME NEW b, NEW n, Good(b)
    PROVE  Good(DeleteRule(b, n).store) /\ SameSettings(b, DeleteRule(b, n).store)
<1>1. Good(b) /\ SameSettings(b, b) /\ Sound(b.v4, "v4") /\ Sound(b.v6, "v6")
    BY DEF Good, SameSettings
<1>2. CASE n \notin 1..NumRules(b)
    BY <1>1, <1>2 DEF DeleteRule, Raised
<1>3. CASE n \in 1..NumRules(b)
    <2>1. CASE n \in 1..Len(b.v4) /\ DeleteRule(b, n).store = [b EXCEPT !.v4 = RemoveAt(b.v4, n)]
        <3>1. Sound(RemoveAt(b.v4, n), "v4")
            BY <1>1, <2>1, RemoveSound
        <3>2. /\ Good([b EXCEPT !.v4 = RemoveAt(b.v4, n)])
              /\ SameSettings(b, [b EXCEPT !.v4 = RemoveAt(b.v4, n)])
            BY <3>1, NewList
        <3> QED  BY <2>1, <3>2
    <2>2. CASE /\ n - Num4(b) \in 1..Len(b.v6)
               /\ DeleteRule(b, n).store = [b EXCEPT !.v6 = RemoveAt(b.v6, n - Num4(b))]
        <3>1. Sound(RemoveAt(b.v6, n - Num4(b)), "v6")
            BY <1>1, <2>2, RemoveSound
        <3>2. /\ Good([b EXCEPT !.v6 = RemoveAt(b.v6, n - Num4(b))])
              /\ SameSettings(b, [b EXCEPT !.v6 = RemoveAt(b.v6, n - Num4(b))])
            BY <3>1, NewList
        <3> QED  BY <2>2, <3>2
    <2> QED  BY <1>3, <2>1, <2>2, DeleteRuleFact
<1> QED  BY <1>2, <1>3

\* A rule that is read by number fits the list that it was read from.
LEMMA RuleAtFits ==
    ASSUME NEW b, NEW n \in 1..NumRules(b), Good(b)
    PROVE  /\ RuleAt(b, n) \in [spec : Specs, act : Acts, v6 : BOOLEAN]
           /\ RuleAt(b, n).v6 => AddrOf[RuleAt(b, n).spec] \in {"any", "v6"}
<1>1. /\ b.v4 \in Seq(Rules) /\ b.v6 \in Seq(Rules)
      /\ Num4(b) = Len(b.v4) /\ Num4(b) \in Nat
      /\ Num6(b) \in 0..Len(b.v6) /\ Len(b.v6) \in Nat
      /\ NumRules(b) = Num4(b) + Num6(b)
    BY Counts
<1>2. CASE n <= Num4(b)
    <2>1. b.v4[n] \in Rules
        BY <1>1, <1>2
    <2> QED  BY <2>1, <1>2 DEF RuleAt, Rules
<1>3. CASE n > Num4(b)
    <2>1. n - Num4(b) \in 1..Len(b.v6)
        BY <1>1, <1>3
    <2>2. b.v6[n - Num4(b)] \in Rules /\ AddrOf[b.v6[n - Num4(b)].spec] \in {"any", "v6"}
        BY <2>1, <1>1 DEF Good, Sound
    <2>3. RuleAt(b, n) = [spec |-> b.v6[n - Num4(b)].spec, act |-> b.v6[n - Num4(b)].act, v6 |-> TRUE]
        BY <1>1, <1>3 DEF RuleAt
    <2> HIDE DEF RuleAt
    <2> QED  BY <2>2, <2>3 DEF Rules
<1> QED  BY <1>1, <1>2, <1>3

\* What a deletion does to the numbers: those after it move up by one.
LEMMA DeletedNumbers ==
    ASSUME NEW b, Good(b), NEW n \in 1..NumRules(b)
    PROVE  LET c == DeleteRule(b, n).store
           IN  /\ NumRules(c) = NumRules(b) - 1
               /\ \A k \in 1..NumRules(b) - 1 : RuleAt(c, k) = RuleAt(b, IF k < n THEN k ELSE k + 1)
<1> DEFINE c == DeleteRule(b, n).store
<1>1. /\ b.v4 \in Seq(Rules) /\ b.v6 \in Seq(Rules)
      /\ Num4(b) = Len(b.v4) /\ Num4(b) \in Nat
      /\ Num6(b) \in 0..Len(b.v6) /\ Len(b.v6) \in Nat
      /\ NumRules(b) = Num4(b) + Num6(b) /\ NumRules(b) \in Nat
    BY Counts
<1>2. c.set = b.set
    BY DeleteRuleGood DEF SameSettings
<1>3. Ipv6On(c) <=> Ipv6On(b)
    BY <1>2 DEF Ipv6On
<1>4. CASE n \in 1..Len(b.v4) /\ n <= Num4(b) /\ c = [b EXCEPT !.v4 = RemoveAt(b.v4, n)]
    <2> DEFINE new == RemoveAt(b.v4, n)
    <2>1. /\ new \in Seq(Rules) /\ Len(new) = Len(b.v4) - 1
          /\ \A j \in 1..Len(b.v4) - 1 : new[j] = IF j < n THEN b.v4[j] ELSE b.v4[j + 1]
        BY <1>1, <1>4, RemoveAtFact
    <2>2. c.v4 = new /\ c.v6 = b.v6
        BY <1>4, NewList
    <2> HIDE DEF new, c
    <2>3. Num4(c) = Num4(b) - 1 /\ Num6(c) = Num6(b)
        BY <1>1, <1>3, <2>1, <2>2 DEF Num4, Num6
    <2>4. NumRules(c) = NumRules(b) - 1
        BY <1>1, <2>3 DEF NumRules
    <2>5. ASSUME NEW k \in 1..NumRules(b) - 1
          PROVE  RuleAt(c, k) = RuleAt(b, IF k < n THEN k ELSE k + 1)
        <3>1. CASE k <= Num4(c)
            <4>1. c.v4[k] = b.v4[IF k < n THEN k ELSE k + 1]
                BY <1>1, <2>1, <2>2, <2>3, <3>1
            <4> QED  BY <1>1, <2>3, <3>1, <4>1 DEF RuleAt
        <3>2. CASE k > Num4(c)
            <4>1. ~(k < n) /\ ~(k <= Num4(c)) /\ ~(k + 1 <= Num4(b)) /\ k - Num4(c) = k + 1 - Num4(b)
                BY <1>1, <1>4, <2>3, <3>2
            <4>2. c.v6[k - Num4(c)] = b.v6[k + 1 - Num4(b)]
                BY <2>2, <4>1
            <4>3. RuleAt(c, k) = RuleAt(b, k + 1)
                BY <1>1, <2>3, <4>1, <4>2 DEF RuleAt
            <4> QED  BY <4>1, <4>3
        <3> QED  BY <1>1, <2>3, <3>1, <3>2
    <2> QED  BY <2>4, <2>5 DEF c
<1>5. CASE /\ n - Num4(b) \in 1..Len(b.v6) /\ n > Num4(b) /\ Ipv6On(b)
           /\ c = [b EXCEPT !.v6 = RemoveAt(b.v6, n - Num4(b))]
    <2> DEFINE m   == n - Num4(b)
               new == RemoveAt(b.v6, m)
    <2>1. /\ new \in Seq(Rules) /\ Len(new) = Len(b.v6) - 1
          /\ \A j \in 1..Len(b.v6) - 1 : new[j] = IF j < m THEN b.v6[j] ELSE b.v6[j + 1]
        BY <1>1, <1>5, RemoveAtFact
    <2>2. c.v6 = new /\ c.v4 = b.v4
        BY <1>5, NewList
    <2> HIDE DEF new, c
    <2>3. Num4(c) = Num4(b) /\ Num6(c) = Num6(b) - 1 /\ Num6(b) = Len(b.v6)
        BY <1>1, <1>3, <1>5, <2>1, <2>2 DEF Num4, Num6
    <2>4. NumRules(c) = NumRules(b) - 1
        BY <1>1, <2>3 DEF NumRules
    <2>5. ASSUME NEW k \in 1..NumRules(b) - 1
          PROVE  RuleAt(c, k) = RuleAt(b, IF k < n THEN k ELSE k + 1)
        <3>1. CASE k <= Num4(b)
            <4>1. k < n
                BY <1>1, <1>5, <3>1
            <4> QED  BY <2>2, <2>3, <3>1, <4>1 DEF RuleAt
        <3>2. CASE k > Num4(b)
            <4> DEFINE to == IF k < n THEN k ELSE k + 1
            <4>1. /\ k \in Int /\ n \in Int /\ Num4(b) \in Int /\ Len(b.v6) \in Int
                  /\ k <= NumRules(b) - 1
                BY <1>1
            <4>2. NumRules(b) = Num4(b) + Len(b.v6)
                BY <1>1, <2>3
            <4>3. k - Num4(b) \in 1..Len(b.v6) - 1
                BY <3>2, <4>1, <4>2
            <4>4. ~(k <= Num4(c)) /\ ~(to <= Num4(b)) /\ k - Num4(c) = k - Num4(b)
                BY <2>3, <3>2, <4>1
            <4>5. to - Num4(b) = IF k - Num4(b) < m THEN k - Num4(b) ELSE k - Num4(b) + 1
                BY <4>1
            <4>6. c.v6[k - Num4(c)] = b.v6[to - Num4(b)]
                BY <2>1, <2>2, <4>3, <4>4, <4>5
            <4> HIDE DEF to
            <4>7. RuleAt(c, k) = RuleAt(b, to)
                BY <4>6, <4>4 DEF RuleAt
            <4> QED  BY <4>7 DEF to
        <3> QED  BY <1>1, <3>1, <3>2
    <2> QED  BY <2>4, <2>5 DEF c
<1> HIDE DEF c
<1>6. NumRules(c) = NumRules(b) - 1
      /\ \A k \in 1..NumRules(b) - 1 : RuleAt(c, k) = RuleAt(b, IF k < n THEN k ELSE k + 1)
    BY <1>4, <1>5, DeleteRuleFact DEF c
<1> QED  BY <1>6 DEF c

\* Deleting by number takes that entry out of the listing.
LEMMA DeletedListing ==
    ASSUME NEW b, Good(b), NEW n \in 1..NumRules(b)
    PROVE  Listing(DeleteRule(b, n).store) = RemoveAt(Listing(b), n)
<1> DEFINE c   == DeleteRule(b, n).store
           old == Listing(b)
           new == Listing(c)
           cut == RemoveAt(old, n)
           S   == [spec : Specs, act : Acts, v6 : BOOLEAN]
<1>1. NumRules(b) \in Nat
    BY Counts
<1>2. /\ NumRules(c) = NumRules(b) - 1
      /\ \A k \in 1..NumRules(b) - 1 : RuleAt(c, k) = RuleAt(b, IF k < n THEN k ELSE k + 1)
    BY DeletedNumbers
<1>3. Good(c)
    BY DeleteRuleGood
<1> HIDE DEF c
<1>4. \A k \in 1..NumRules(b) : RuleAt(b, k) \in S
    BY RuleAtFits
<1>5. \A k \in 1..NumRules(c) : RuleAt(c, k) \in S
    BY <1>3, RuleAtFits
<1> HIDE DEF S
<1>6. old \in Seq(S) /\ Len(old) = NumRules(b) /\ \A k \in 1..NumRules(b) : old[k] = RuleAt(b, k)
    BY <1>1, <1>4 DEF Listing
<1>7. /\ new \in Seq(S) /\ Len(new) = NumRules(b) - 1
      /\ \A k \in 1..NumRules(b) - 1 : new[k] = RuleAt(c, k)
    BY <1>1, <1>2, <1>5 DEF Listing
<1> HIDE DEF old, new
<1>8. /\ cut \in Seq(S) /\ Len(cut) = NumRules(b) - 1
      /\ \A k \in 1..NumRules(b) - 1 : cut[k] = IF k < n THEN old[k] ELSE old[k + 1]
    BY <1>6, RemoveAtFact
<1> HIDE DEF cut
<1>9. ASSUME NEW k \in 1..NumRules(b) - 1
      PROVE  new[k] = cut[k]
    <2>1. k \in 1..NumRules(b) /\ k + 1 \in 1..NumRules(b)
        BY <1>1
    <2> QED  BY <1>2, <1>6, <1>7, <1>8, <2>1
<1>10. new = cut
    BY <1>7, <1>8, <1>9, SeqEqual
<1> QED  BY <1>10 DEF c, old, new, cut

\* A rule that is put at the end of a list, or in the place of its like, is in
\* it.
LEMMA PutHolds ==
    ASSUME NEW list \in Seq(Rules), NEW r \in Rules
    PROVE  \E i \in DOMAIN Put(list, r, 0) : Put(list, r, 0)[i] = r
<1> DEFINE at  == Place(list, r.spec)
           new == Put(list, r, 0)
<1>1. at \in 0..Len(list) /\ Len(list) \in Nat /\ DOMAIN list = 1..Len(list)
    BY PlaceFact
<1>2. new = IF at # 0 THEN ReplaceAt(list, at, r) ELSE Append(list, r)
    BY DEF Put
<1> HIDE DEF at, new
<1>3. CASE at # 0
    <2>1. at \in DOMAIN new /\ new[at] = r
        BY <1>1, <1>2, <1>3 DEF ReplaceAt
    <2> QED  BY <2>1 DEF new
<1>4. CASE at = 0
    <2>1. Len(list) + 1 \in DOMAIN new /\ new[Len(list) + 1] = r
        BY <1>1, <1>2, <1>4
    <2> QED  BY <2>1 DEF new
<1> QED  BY <1>3, <1>4

\* Where no rules are counted, the lists that count are empty.
LEMMA NoRulesLeft ==
    ASSUME NEW b, Good(b), NumRules(b) = 0
    PROVE  b.v4 = <<>> /\ (Ipv6On(b) => b.v6 = <<>>)
<1>1. /\ b.v4 \in Seq(Rules) /\ b.v6 \in Seq(Rules)
      /\ Num4(b) = Len(b.v4) /\ Num4(b) \in Nat /\ Num6(b) \in Nat /\ Len(b.v6) \in Nat
      /\ NumRules(b) = Num4(b) + Num6(b)
    BY Counts
<1>2. Ipv6On(b) => Num6(b) = Len(b.v6)
    BY DEF Num6
<1>3. Num4(b) = 0 /\ Num6(b) = 0
    BY <1>1
<1>4. Len(b.v4) = 0 /\ (Ipv6On(b) => Len(b.v6) = 0)
    BY <1>1, <1>2, <1>3
<1> QED  BY <1>1, <1>4, EmptySeq
====
