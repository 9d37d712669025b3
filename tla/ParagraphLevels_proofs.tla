----------------------- MODULE ParagraphLevels_proofs -----------------------
(***************************************************************************)
(* What holds of the walk of DetermineLevels, of its status stack and of   *)
(* the explicit levels, for paragraphs of any length and every maximum     *)
(* level.                                                                  *)
(***************************************************************************)
EXTENDS ParagraphLevels, FiniteSetTheorems, WellFoundedInduction, TLAPS

-----------------------------------------------------------------------------
(* Least and greatest elements.                                            *)

LEMMA HasLeast ==
  ASSUME NEW S, S \subseteq Nat, S # {}
  PROVE  \E x \in S : \A y \in S : x <= y
<1> DEFINE R == OpToRel(<, Nat)
<1>1. IsWellFoundedOn(R, Nat)
  BY NatLessThanWellFounded
<1>2. \A y, x \in Nat : y < x => <<y, x>> \in R
  BY DEF OpToRel
<1> HIDE DEF R
<1>3. \E x \in S : \A y \in S : ~(<<y, x>> \in R)
  BY <1>1, WFMin
<1>4. PICK x \in S : \A y \in S : ~(<<y, x>> \in R)
  BY <1>3
<1>5. ASSUME NEW y \in S PROVE x <= y
  <2>1. x \in Nat /\ y \in Nat
    OBVIOUS
  <2>2. ~(y < x)
    BY <1>2, <1>4, <2>1
  <2>3. QED
    BY <2>1, <2>2
<1>6. QED
  BY <1>5

LEMMA HasGreatest ==
  ASSUME NEW n \in Nat, NEW S, S \subseteq 0..n, S # {}
  PROVE  \E x \in S : \A y \in S : y <= x
<1> DEFINE T == {n - x : x \in S}
<1>1. T \subseteq Nat
  OBVIOUS
<1>2. T # {}
  <2>1. PICK x \in S : TRUE
    OBVIOUS
  <2>2. n - x \in T
    BY <2>1
  <2>3. QED
    BY <2>2
<1>3. PICK t \in T : \A u \in T : t <= u
  <2> HIDE DEF T
  <2>1. QED
    BY <1>1, <1>2, HasLeast
<1>4. PICK x \in S : t = n - x
  BY <1>3
<1>5. ASSUME NEW y \in S PROVE y <= x
  <2>1. n - y \in T
    OBVIOUS
  <2>2. n - x <= n - y
    BY <1>3, <1>4, <2>1
  <2>3. QED
    BY <2>2
<1>6. QED
  BY <1>5

LEMMA MinIs ==
  ASSUME NEW S, S \subseteq Nat, S # {}
  PROVE  Min(S) \in S /\ \A y \in S : Min(S) <= y
<1>1. \E x \in S : \A y \in S : x <= y
  BY HasLeast
<1>2. QED
  BY <1>1 DEF Min

LEMMA MaxIs ==
  ASSUME NEW n \in Nat, NEW S, S \subseteq 0..n, S # {}
  PROVE  Max(S) \in S /\ \A y \in S : y <= Max(S)
<1>1. \E x \in S : \A y \in S : y <= x
  BY HasGreatest
<1>2. \E x \in S : \A y \in S : x >= y
  BY <1>1
<1>3. Max(S) \in S /\ \A y \in S : Max(S) >= y
  BY <1>2 DEF Max
<1>4. QED
  BY <1>3

(* The next link is the first one after a link, if there is one.           *)
LEMMA NextLinkIs ==
  ASSUME NEW links, links \subseteq Nat, NEW l \in Nat, NEW some \in links, l < some
  PROVE  /\ NextLink(links, l) \in links
         /\ l < NextLink(links, l)
         /\ \A m \in links : l < m => NextLink(links, l) <= m
<1> DEFINE after == {m \in links : m > l}
<1>1. after \subseteq Nat /\ after # {}
  OBVIOUS
<1>2. Min(after) \in after /\ \A y \in after : Min(after) <= y
  <2> HIDE DEF after
  <2>1. QED
    BY <1>1, MinIs
<1>3. NextLink(links, l) = Min(after)
  BY <1>1 DEF NextLink
<1>4. QED
  BY <1>2, <1>3

LEMMA NextLinkType ==
  ASSUME NEW links, links \subseteq Nat, NEW l \in Nat
  PROVE  NextLink(links, l) \in links \cup {0}
<1>1. CASE \E some \in links : l < some
  BY <1>1, NextLinkIs
<1>2. CASE ~\E some \in links : l < some
  <2>1. {m \in links : m > l} = {}
    BY <1>2
  <2>2. QED
    BY <2>1 DEF NextLink
<1>3. QED
  BY <1>1, <1>2

-----------------------------------------------------------------------------
(* The walk.  WalkType is the part of TypeOK that it is about.             *)

WalkType ==
  /\ text \in Texts /\ baseLevel \in 0..(MaxLevel - 1)
  /\ chain \subseteq 1..Past /\ link \in 0..Past /\ priorLink \in 0..Past
  /\ types \in [0..Past -> BidiTypes \cup {"Nil"}]
  /\ levels \in [0..Past -> InvalidLevel..MaxLevel]
  /\ firstLink \in 0..Past /\ priorLevel \in 0..MaxLevel /\ sor \in {"L", "R", "Nil"}
  /\ status \in {"scanning", "resolving", "resolved", "failed"}

(* No link is between the prior link and the one at hand, the ones from    *)
(* there on are as they were populated, and the last one is never removed. *)
Walk ==
  status = "scanning" =>
    /\ Past \in chain /\ link \in chain /\ priorLink \in chain \cup {0}
    /\ priorLink < link
    /\ \A m \in chain : priorLink < m => link <= m
    /\ \A l \in chain : link <= l => types[l] = TypesOf(text)[l]

LEMMA LevelsFacts ==
  /\ MaxLevel \in Nat /\ MaxLevel >= 2 /\ MaxLevel < 253
  /\ BaseLevels \subseteq 0..255
  BY LevelsAssumption DEF SBLevelDefaultRTL

LEMMA PastType ==
  ASSUME WalkType
  PROVE  text \in Seq(BidiTypes) /\ Past \in Nat /\ Past = Len(text) + 1 /\ Past >= 1
  BY TextsAssumption DEF WalkType, Past

LEMMA NotPast ==
  ASSUME WalkType, Walk, status = "scanning", types[link] # "Nil"
  PROVE  link \in 1..Past /\ link < Past
<1>1. text \in Seq(BidiTypes) /\ Past \in Nat /\ Past = Len(text) + 1
  BY PastType
<1>2. link \in chain /\ link \in 1..Past
  BY DEF WalkType, Walk
<1>3. types[link] = TypesOf(text)[link]
  BY <1>1, <1>2 DEF Walk
<1>4. TypesOf(text)[link] = IF link \in 1..Len(text) THEN text[link] ELSE "Nil"
  BY <1>1, <1>2 DEF TypesOf
<1>5. QED
  BY <1>1, <1>2, <1>3, <1>4

LEMMA WalkPrecedes ==
  ASSUME WalkType, Walk, status = "scanning"
  PROVE  NextLink(chain, priorLink) = link
<1>1. /\ chain \subseteq Nat /\ priorLink \in Nat /\ link \in chain /\ priorLink < link
      /\ link \in Nat
  BY PastType DEF WalkType, Walk
<1>2. PICK n : n = NextLink(chain, priorLink)
  OBVIOUS
<1>3. n \in chain /\ priorLink < n /\ \A m \in chain : priorLink < m => n <= m
  BY <1>1, <1>2, NextLinkIs
<1>4. link <= n /\ n <= link /\ n \in Nat
  BY <1>1, <1>3 DEF Walk
<1>5. QED
  BY <1>1, <1>2, <1>4

(* What the end of every iteration but the last one does.                  *)
Advance ==
  /\ link' = NextLink(chain, link)
  /\ text' = text /\ baseLevel' = baseLevel /\ status' = status
  /\ types' \in [0..Past -> BidiTypes \cup {"Nil"}]
  /\ levels' \in [0..Past -> InvalidLevel..MaxLevel]
  /\ \A l \in 0..Past : l # link => types'[l] = types[l]

LEMMA AdvanceGoesOn ==
  ASSUME WalkType, Walk, status = "scanning", types[link] # "Nil", Advance
  PROVE  /\ link' \in chain /\ link < link' /\ link' \in 1..Past
         /\ \A m \in chain : link < m => link' <= m
         /\ Past' = Past
<1>1. chain \subseteq Nat /\ chain \subseteq 1..Past /\ Past \in chain /\ link \in Nat /\ link < Past
  BY NotPast, PastType, SMTT(40) DEF WalkType, Walk
<1>2. PICK n : n = NextLink(chain, link)
  OBVIOUS
<1>3. n \in chain /\ link < n /\ \A m \in chain : link < m => n <= m
  BY <1>1, <1>2, NextLinkIs
<1>4. Past' = Past
  BY DEF Advance, Past
<1>5. QED
  BY <1>1, <1>2, <1>3, <1>4 DEF Advance

LEMMA RemoveKeeps ==
  ASSUME WalkType, Walk, status = "scanning", types[link] # "Nil", Advance, RemoveLink
  PROVE  WalkType' /\ Walk'
<1>1. /\ link' \in chain /\ link < link' /\ link' \in 1..Past
      /\ \A m \in chain : link < m => link' <= m
      /\ Past' = Past
  BY AdvanceGoesOn
<1>2. link \in 1..Past /\ link < Past /\ Past \in Nat
  BY NotPast, PastType
<1>3. chain' = chain \ {link}
  BY WalkPrecedes DEF RemoveLink
<1>4. chain \subseteq 1..Past /\ Past \in chain /\ priorLink \in 0..Past
  BY DEF WalkType, Walk
<1>5. WalkType'
  <2>1. /\ text' \in Texts /\ baseLevel' \in 0..(MaxLevel - 1)
        /\ types' \in [0..Past' -> BidiTypes \cup {"Nil"}]
        /\ levels' \in [0..Past' -> InvalidLevel..MaxLevel]
        /\ status' \in {"scanning", "resolving", "resolved", "failed"}
    BY <1>1 DEF WalkType, Advance
  <2>2. chain' \subseteq 1..Past' /\ link' \in 0..Past' /\ priorLink' \in 0..Past'
    <3>1. chain' \subseteq chain /\ priorLink' = priorLink
      BY <1>3 DEF RemoveLink
    <3>2. link' \in 0..Past
      BY <1>1, <1>2
    <3>3. QED
      BY <1>1, <1>4, <3>1, <3>2
  <2>3. firstLink' \in 0..Past' /\ priorLevel' \in 0..MaxLevel /\ sor' \in {"L", "R", "Nil"}
    BY <1>1 DEF WalkType, RemoveLink, runVars
  <2>4. QED
    BY <2>1, <2>2, <2>3 DEF WalkType
<1>6. Walk'
  <2>1. Past' \in chain' /\ link' \in chain' /\ priorLink' \in chain' \cup {0} /\ priorLink' < link'
    BY <1>1, <1>2, <1>3, <1>4 DEF Walk, RemoveLink
  <2>2. ASSUME NEW m \in chain', priorLink' < m PROVE link' <= m
    <3>1. m \in chain /\ m # link /\ priorLink < m /\ m \in Nat /\ link \in Nat
      BY <1>2, <1>3, <1>4, <2>2 DEF RemoveLink
    <3>2. link < m
      BY <3>1 DEF Walk
    <3>3. QED
      BY <1>1, <3>1, <3>2
  <2>3. ASSUME NEW l \in chain', link' <= l PROVE types'[l] = TypesOf(text')[l]
    <3>1. l \in chain /\ l \in 0..Past /\ link <= l /\ l # link
      BY <1>1, <1>2, <1>3, <1>4, <2>3
    <3>2. QED
      BY <3>1 DEF Walk, Advance
  <2>4. QED
    BY <2>1, <2>2, <2>3 DEF Walk
<1>7. QED
  BY <1>5, <1>6

LEMMA DirectionType ==
  ASSUME NEW level PROVE Direction(level) \in {"L", "R"}
  BY DEF Direction

(* What continuing a run leaves behind.                                    *)
LEMMA ContinueType ==
  ASSUME WalkType, NEW level \in 0..MaxLevel, NEW forceFinish, ContinueRun(level, forceFinish)
  PROVE  /\ priorLink' = link /\ firstLink' \in {link, firstLink}
         /\ priorLevel' \in 0..MaxLevel /\ sor' \in {"L", "R", "Nil"}
<1>1. CASE sor = "Nil" /\ sor' = Direction(Larger(baseLevel, level)) /\ firstLink' = link
           /\ priorLevel' = level /\ priorLink' = link
  BY <1>1, DirectionType
<1>2. CASE sor' = Direction(Larger(priorLevel, level)) /\ firstLink' = link
           /\ priorLevel' = level /\ priorLink' = link
  BY <1>2, DirectionType
<1>3. CASE UNCHANGED runVars /\ priorLink' = link
  BY <1>3 DEF runVars, WalkType
<1>4. QED
  BY <1>1, <1>2, <1>3 DEF ContinueRun

LEMMA ContinueKeeps ==
  ASSUME WalkType, Walk, status = "scanning", types[link] # "Nil", Advance,
         NEW level \in 0..MaxLevel, ContinueRun(level, FALSE), chain' = chain
  PROVE  WalkType' /\ Walk'
<1>1. /\ link' \in chain /\ link < link' /\ link' \in 1..Past
      /\ \A m \in chain : link < m => link' <= m
      /\ Past' = Past
  BY AdvanceGoesOn
<1>2. link \in 1..Past /\ link < Past /\ Past \in Nat
  BY NotPast, PastType
<1>3. /\ priorLink' = link /\ firstLink' \in {link, firstLink}
      /\ priorLevel' \in 0..MaxLevel /\ sor' \in {"L", "R", "Nil"}
  BY ContinueType
<1>4. chain \subseteq 1..Past /\ Past \in chain /\ link \in chain
  BY DEF WalkType, Walk
<1>5. WalkType'
  <2>1. /\ text' \in Texts /\ baseLevel' \in 0..(MaxLevel - 1)
        /\ types' \in [0..Past' -> BidiTypes \cup {"Nil"}]
        /\ levels' \in [0..Past' -> InvalidLevel..MaxLevel]
        /\ status' \in {"scanning", "resolving", "resolved", "failed"}
    BY <1>1 DEF WalkType, Advance
  <2>2. chain' \subseteq 1..Past' /\ link' \in 0..Past' /\ priorLink' \in 0..Past'
    BY <1>1, <1>2, <1>3, <1>4
  <2>3. firstLink' \in 0..Past'
    BY <1>1, <1>2, <1>3 DEF WalkType
  <2>4. QED
    BY <1>3, <2>1, <2>2, <2>3 DEF WalkType
<1>6. Walk'
  <2>1. ASSUME NEW l \in chain', link' <= l PROVE types'[l] = TypesOf(text')[l]
    <3>1. l \in chain /\ l \in 0..Past
      BY <1>2, <1>4, <2>1
    <3>2. link <= l /\ l # link
      BY <1>1, <1>2, <2>1, <3>1
    <3>3. QED
      BY <3>1, <3>2 DEF Walk, Advance
  <2>2. QED
    BY <1>1, <1>3, <1>4, <2>1 DEF Walk
<1>7. QED
  BY <1>5, <1>6

(* An iteration that abandons its link.                                    *)
LEMMA AbandonKeeps ==
  ASSUME WalkType, Walk, NEW which, At(which), "Nil" \notin which, Abandon
  PROVE  WalkType' /\ Walk'
<1>1. status = "scanning" /\ types[link] # "Nil" /\ RemoveLink
  BY DEF At, Abandon
<1>2. Advance
  BY DEF Advance, At, Abandon, paragraphVars, WalkType
<1>3. QED
  BY <1>1, <1>2, RemoveKeeps

(* An iteration that gives its link a level.                               *)
LEMMA SettleKeeps ==
  ASSUME WalkType, Walk, NEW which, At(which), "Nil" \notin which,
         NEW level \in 0..MaxLevel, NEW override \in {"ON", "L", "R"}, Settle(level, override)
  PROVE  WalkType' /\ Walk'
<1> DEFINE type == IF override = "ON" THEN types[link] ELSE override
<1>1. status = "scanning" /\ types[link] # "Nil" /\ link \in 0..Past
  BY DEF At, WalkType
<1>2. type \in BidiTypes \cup {"Nil"}
  BY <1>1 DEF WalkType, BidiTypes
<1>3. /\ levels' = [levels EXCEPT ![link] = level] /\ types' = [types EXCEPT ![link] = type]
      /\ status' = status
  BY DEF Settle
<1> HIDE DEF type
<1>4. types' \in [0..Past -> BidiTypes \cup {"Nil"}] /\ \A l \in 0..Past : l # link => types'[l] = types[l]
  BY <1>1, <1>2, <1>3 DEF WalkType
<1>5. levels' \in [0..Past -> InvalidLevel..MaxLevel]
  <2>1. level \in InvalidLevel..MaxLevel
    BY LevelsFacts DEF InvalidLevel
  <2>2. QED
    BY <1>3, <2>1 DEF WalkType
<1>6. Advance
  BY <1>3, <1>4, <1>5 DEF Advance, At, paragraphVars
<1>7. CASE RemoveLink
  BY <1>1, <1>6, <1>7, RemoveKeeps
<1>8. CASE ContinueRun(level, FALSE) /\ UNCHANGED chain
  BY <1>1, <1>6, <1>8, ContinueKeeps
<1>9. QED
  BY <1>7, <1>8 DEF Settle

-----------------------------------------------------------------------------
(* The status stack.                                                       *)

Entries == [level : 0..MaxLevel, override : {"ON", "L", "R"}, isolate : BOOLEAN]

Isolates(s) == {k \in 1..Len(s) : s[k].isolate}

(* An entry has at least the level of its place, by which MaxLevel bounds  *)
(* the height.                                                             *)
Accounted(s, base, valid) ==
  /\ s \in Seq(Entries) /\ Len(s) >= 1
  /\ s[1] = Status(base, "ON", FALSE)
  /\ \A k \in 1..Len(s) : k - 1 <= s[k].level
  /\ \A k \in 2..Len(s) : s[k - 1].level < s[k].level
  /\ valid = Cardinality(Isolates(s))

LEMMA EntryType ==
  ASSUME NEW s \in Seq(Entries), NEW k \in 1..Len(s)
  PROVE  s[k] \in Entries /\ s[k].level \in 0..MaxLevel /\ s[k].level \in Nat
         /\ s[k].override \in {"ON", "L", "R"} /\ s[k].isolate \in BOOLEAN
<1>1. s[k] \in Entries
  OBVIOUS
<1>2. QED
  BY <1>1, LevelsFacts DEF Entries

LEMMA IsolatesFinite ==
  ASSUME NEW s \in Seq(Entries)
  PROVE  Isolates(s) \subseteq 1..Len(s) /\ IsFiniteSet(Isolates(s)) /\ Cardinality(Isolates(s)) \in Nat
<1>1. Isolates(s) \in SUBSET (1..Len(s))
  BY DEF Isolates
<1>2. IsFiniteSet(1..Len(s))
  BY FS_Interval
<1>3. IsFiniteSet(Isolates(s))
  BY <1>1, <1>2, FS_Subset
<1>4. QED
  BY <1>1, <1>3, FS_CardinalityType

LEMMA BaseAccounted ==
  ASSUME NEW base \in 0..(MaxLevel - 1)
  PROVE  Accounted(<<Status(base, "ON", FALSE)>>, base, 0)
<1>1. PICK e : e = Status(base, "ON", FALSE)
  OBVIOUS
<1>2. e \in Entries /\ e.level = base /\ ~e.isolate
  BY <1>1, LevelsFacts DEF Status, Entries
<1>3. PICK s : s = <<e>>
  OBVIOUS
<1>4. s \in Seq(Entries) /\ Len(s) = 1 /\ s[1] = e
  BY <1>2, <1>3
<1>5. Isolates(s) = {}
  <2>1. \A k \in 1..Len(s) : s[k] = e
    BY <1>4
  <2>2. QED
    BY <1>2, <2>1 DEF Isolates
<1>6. Cardinality(Isolates(s)) = 0
  BY <1>5, FS_EmptySet
<1>7. \A k \in 1..Len(s) : k - 1 <= s[k].level
  <2>1. \A k \in 1..Len(s) : k = 1
    BY <1>4
  <2>2. 1 - 1 <= e.level
    BY <1>2, LevelsFacts
  <2>3. QED
    BY <1>4, <2>1, <2>2
<1>8. \A k \in 2..Len(s) : s[k - 1].level < s[k].level
  BY <1>4
<1>9. Accounted(s, base, 0)
  BY <1>1, <1>4, <1>6, <1>7, <1>8 DEF Accounted
<1>10. QED
  BY <1>1, <1>3, <1>9

LEMMA PushAccounted ==
  ASSUME NEW s, NEW base, NEW valid, Accounted(s, base, valid),
         NEW e \in Entries, s[Len(s)].level < e.level
  PROVE  Accounted(Append(s, e), base, IF e.isolate THEN valid + 1 ELSE valid)
<1>1. s \in Seq(Entries) /\ Len(s) >= 1 /\ Len(s) \in Nat
  BY DEF Accounted
<1>2. PICK t : t = Append(s, e)
  OBVIOUS
<1>3. /\ t \in Seq(Entries) /\ Len(t) = Len(s) + 1 /\ t[Len(s) + 1] = e
      /\ \A k \in 1..Len(s) : t[k] = s[k]
  BY <1>1, <1>2
<1>4. Isolates(t) = IF e.isolate THEN Isolates(s) \cup {Len(s) + 1} ELSE Isolates(s)
  <2>1. \A k : k \in 1..Len(t) <=> k \in 1..Len(s) \/ k = Len(s) + 1
    BY <1>1, <1>3
  <2>2. \A k : k \in Isolates(t) <=> k \in Isolates(s) \/ (k = Len(s) + 1 /\ e.isolate)
    BY <1>1, <1>3, <2>1 DEF Isolates
  <2>3. QED
    BY <2>2
<1>5. Cardinality(Isolates(t)) = IF e.isolate THEN valid + 1 ELSE valid
  <2>1. IsFiniteSet(Isolates(s)) /\ Isolates(s) \subseteq 1..Len(s)
    BY <1>1, IsolatesFinite
  <2>2. Len(s) + 1 \notin Isolates(s)
    BY <1>1, <2>1
  <2>3. Cardinality(Isolates(s) \cup {Len(s) + 1}) = Cardinality(Isolates(s)) + 1
    BY <2>1, <2>2, FS_AddElement
  <2>4. valid = Cardinality(Isolates(s))
    BY DEF Accounted
  <2>5. QED
    BY <1>4, <2>3, <2>4
<1>6. \A k \in 1..Len(t) : k - 1 <= t[k].level
  <2>1. PICK last \in 1..Len(s) : last = Len(s)
    BY <1>1
  <2>2. last - 1 <= s[last].level /\ s[last].level \in Nat
    BY <1>1, EntryType DEF Accounted
  <2>3. e.level \in Nat
    BY LevelsFacts DEF Entries
  <2>4. Len(s) <= e.level
    BY <1>1, <2>1, <2>2, <2>3
  <2>5. ASSUME NEW k \in 1..Len(t) PROVE k - 1 <= t[k].level
    <3>1. CASE k = Len(s) + 1
      BY <1>1, <1>3, <2>4, <3>1
    <3>2. CASE k \in 1..Len(s)
      BY <1>3, <3>2 DEF Accounted
    <3>3. QED
      BY <1>1, <1>3, <3>1, <3>2
  <2>6. QED
    BY <2>5
<1>7. \A k \in 2..Len(t) : t[k - 1].level < t[k].level
  <2>1. ASSUME NEW k \in 2..Len(t) PROVE t[k - 1].level < t[k].level
    <3>1. CASE k = Len(s) + 1
      <4>1. t[k] = e /\ t[k - 1] = s[Len(s)]
        BY <1>1, <1>3, <3>1
      <4>2. QED
        BY <4>1
    <3>2. CASE k \in 2..Len(s)
      <4>1. t[k] = s[k] /\ t[k - 1] = s[k - 1]
        BY <1>1, <1>3, <3>2
      <4>2. QED
        BY <3>2, <4>1 DEF Accounted
    <3>3. QED
      BY <1>1, <1>3, <3>1, <3>2
  <2>2. QED
    BY <2>1
<1>8. t[1] = Status(base, "ON", FALSE)
  <2>1. t[1] = s[1]
    BY <1>1, <1>3
  <2>2. QED
    BY <2>1 DEF Accounted
<1>9. Accounted(t, base, IF e.isolate THEN valid + 1 ELSE valid)
  BY <1>1, <1>3, <1>5, <1>6, <1>7, <1>8 DEF Accounted
<1>10. QED
  BY <1>2, <1>9

LEMMA CutAccounted ==
  ASSUME NEW s, NEW base, NEW valid, Accounted(s, base, valid), NEW n \in 1..Len(s)
  PROVE  /\ Accounted(SubSeq(s, 1, n), base, Cardinality(Isolates(s) \cap 1..n))
         /\ Len(SubSeq(s, 1, n)) = n
<1>1. s \in Seq(Entries) /\ Len(s) >= 1 /\ Len(s) \in Nat
  BY DEF Accounted
<1>2. PICK t : t = SubSeq(s, 1, n)
  OBVIOUS
<1>3. t \in Seq(Entries) /\ Len(t) = n /\ \A k \in 1..n : t[k] = s[k]
  BY <1>1, <1>2
<1>4. Isolates(t) = Isolates(s) \cap 1..n
  BY <1>1, <1>3 DEF Isolates
<1>5. \A k \in 1..n : k \in 1..Len(s)
  BY <1>1
<1>6. \A k \in 1..Len(t) : k - 1 <= t[k].level
  BY <1>3, <1>5 DEF Accounted
<1>7. \A k \in 2..Len(t) : t[k - 1].level < t[k].level
  <2>1. ASSUME NEW k \in 2..Len(t) PROVE t[k - 1].level < t[k].level
    <3>1. t[k] = s[k] /\ t[k - 1] = s[k - 1] /\ k \in 2..Len(s)
      BY <1>1, <1>3
    <3>2. QED
      BY <3>1 DEF Accounted
  <2>2. QED
    BY <2>1
<1>8. t[1] = Status(base, "ON", FALSE)
  <2>1. t[1] = s[1]
    BY <1>1, <1>3
  <2>2. QED
    BY <2>1 DEF Accounted
<1>9. Accounted(t, base, Cardinality(Isolates(s) \cap 1..n))
  BY <1>1, <1>3, <1>4, <1>6, <1>7, <1>8 DEF Accounted
<1>10. QED
  BY <1>2, <1>3, <1>9

(* A pop of an embedding.                                                  *)
LEMMA PopAccounted ==
  ASSUME NEW s, NEW base, NEW valid, Accounted(s, base, valid),
         Len(s) >= 2, ~s[Len(s)].isolate
  PROVE  Accounted(SubSeq(s, 1, Len(s) - 1), base, valid)
<1>1. s \in Seq(Entries) /\ Len(s) \in Nat /\ Len(s) - 1 \in 1..Len(s)
  BY DEF Accounted
<1>2. Isolates(s) \cap 1..(Len(s) - 1) = Isolates(s)
  <2>1. Len(s) \notin Isolates(s) /\ Isolates(s) \subseteq 1..Len(s)
    BY DEF Isolates
  <2>2. QED
    BY <1>1, <2>1
<1>3. valid = Cardinality(Isolates(s))
  BY DEF Accounted
<1>4. PICK n \in 1..Len(s) : n = Len(s) - 1
  BY <1>1
<1>5. Accounted(SubSeq(s, 1, n), base, Cardinality(Isolates(s) \cap 1..n))
  BY CutAccounted
<1>6. QED
  BY <1>2, <1>3, <1>4, <1>5

(* The pops of rule X6a take the last isolate and nothing of another one.  *)
LEMMA CloseAccounted ==
  ASSUME NEW s, NEW base, NEW valid, Accounted(s, base, valid), valid # 0
  PROVE  /\ Accounted(SubSeq(s, 1, Max(Isolates(s)) - 1), base, valid - 1)
         /\ valid - 1 \in Nat
<1>1. s \in Seq(Entries) /\ Len(s) \in Nat /\ Len(s) >= 1 /\ valid = Cardinality(Isolates(s))
  BY DEF Accounted
<1>2. Isolates(s) \subseteq 1..Len(s) /\ IsFiniteSet(Isolates(s)) /\ Cardinality(Isolates(s)) \in Nat
  BY <1>1, IsolatesFinite
<1>3. Isolates(s) # {}
  BY <1>1, FS_EmptySet
<1>4. PICK top : top = Max(Isolates(s))
  OBVIOUS
<1>5. top \in Isolates(s) /\ \A k \in Isolates(s) : k <= top
  <2>1. Isolates(s) \subseteq 0..Len(s)
    BY <1>2
  <2>2. QED
    BY <1>1, <1>3, <1>4, <2>1, MaxIs
<1>6. top # 1
  <2>1. s[1].isolate = FALSE
    BY DEF Accounted, Status
  <2>2. QED
    BY <1>5, <2>1 DEF Isolates
<1>7. PICK n \in 1..Len(s) : n = top - 1
  BY <1>1, <1>2, <1>5, <1>6
<1>8. Isolates(s) \cap 1..n = Isolates(s) \ {top}
  BY <1>1, <1>2, <1>5, <1>7
<1>9. Cardinality(Isolates(s) \cap 1..n) = valid - 1
  BY <1>1, <1>2, <1>5, <1>8, FS_RemoveElement
<1>10. Accounted(SubSeq(s, 1, n), base, Cardinality(Isolates(s) \cap 1..n))
  BY CutAccounted
<1>11. valid - 1 \in Nat
  BY <1>1, <1>2
<1>12. QED
  BY <1>4, <1>7, <1>9, <1>10, <1>11

-----------------------------------------------------------------------------
(* The invariant of the specification.                                     *)

OverType == overIsolate \in Nat /\ overEmbedding \in Nat /\ validIsolate \in Nat

StackIsAccounted == Accounted(stack, baseLevel, validIsolate)

IInv == WalkType /\ OverType /\ Walk /\ StackIsAccounted

LEMMA DefaultLevelType ==
  ASSUME NEW links, NEW typeOf, NEW skipLink, NEW isIsolate, NEW default \in {0, 1}
  PROVE  DetermineBaseLevel(links, typeOf, skipLink, default, isIsolate) \in {0, 1}
  BY DEF DetermineBaseLevel

LEMMA ParagraphLevelType ==
  ASSUME NEW txt, NEW request \in BaseLevels
  PROVE  DetermineParagraphLevel(txt, request) \in 0..(MaxLevel - 1)
<1>1. request \in 0..255
  BY LevelsFacts
<1>2. CASE request >= MaxLevel
  <2>1. PICK default \in {0, 1} : default = IF request = SBLevelDefaultRTL THEN 1 ELSE 0
    OBVIOUS
  <2>2. DetermineBaseLevel(Populated(txt), TypesOf(txt), 0, default, FALSE) \in {0, 1}
    BY DefaultLevelType
  <2>3. DetermineParagraphLevel(txt, request) \in {0, 1}
    BY <1>2, <2>1, <2>2 DEF DetermineParagraphLevel
  <2>4. QED
    BY <2>3, LevelsFacts
<1>3. CASE ~(request >= MaxLevel)
  BY <1>1, <1>3, LevelsFacts DEF DetermineParagraphLevel
<1>4. QED
  BY <1>2, <1>3

LEMMA InitInv == ASSUME Init PROVE IInv
<1>1. text \in Seq(BidiTypes) /\ Len(text) \in Nat /\ Past = Len(text) + 1 /\ Past \in Nat
  BY TextsAssumption DEF Init, Past
<1>2. baseLevel \in 0..(MaxLevel - 1)
  BY ParagraphLevelType DEF Init
<1>3. chain \subseteq 1..Past /\ Past \in chain
  BY <1>1 DEF Init, Populated
<1>4. 1 \in chain
  <2>1. CASE Len(text) = 0
    BY <1>1, <1>3, <2>1
  <2>2. CASE Len(text) # 0
    <3>1. 1 \in 1..Len(text)
      BY <1>1, <2>2
    <3>2. QED
      BY <3>1 DEF Init, Populated
  <2>3. QED
    BY <2>1, <2>2
<1>5. types \in [0..Past -> BidiTypes \cup {"Nil"}]
  BY <1>1 DEF Init, TypesOf
<1>6. levels \in [0..Past -> InvalidLevel..MaxLevel]
  BY <1>1, LevelsFacts DEF Init, InvalidLevel
<1>7. WalkType
  BY <1>1, <1>2, <1>3, <1>5, <1>6, LevelsFacts DEF Init, WalkType, None
<1>8. Walk
  BY <1>1, <1>3, <1>4 DEF Init, Walk
<1>9. StackIsAccounted
  BY <1>2, BaseAccounted DEF Init, StackIsAccounted
<1>10. OverType
  BY DEF Init, OverType
<1>11. QED
  BY <1>7, <1>8, <1>9, <1>10 DEF IInv

LEMMA TopType ==
  ASSUME StackIsAccounted
  PROVE  /\ Top \in Entries /\ Top.level \in 0..MaxLevel /\ Top.level \in Nat
         /\ Top.override \in {"ON", "L", "R"} /\ Top.isolate \in BOOLEAN
         /\ Len(stack) \in Nat /\ Len(stack) >= 1
<1>1. stack \in Seq(Entries) /\ Len(stack) \in Nat /\ Len(stack) >= 1
  BY DEF StackIsAccounted, Accounted
<1>2. PICK k \in 1..Len(stack) : k = Len(stack)
  BY <1>1
<1>3. QED
  BY <1>1, <1>2, EntryType DEF Top

LEMMA LeastGreaterIs ==
  ASSUME StackIsAccounted, NEW isRTL \in BOOLEAN
  PROVE  LeastGreater(isRTL) \in Nat /\ Top.level < LeastGreater(isRTL)
<1>1. PICK n \in Nat : n = Top.level
  BY TopType
<1>2. \E level \in {n + 1, n + 2} : (level % 2 = 1) = isRTL
  <2>1. (n + 1) % 2 = 1 \/ (n + 2) % 2 = 1
    OBVIOUS
  <2>2. (n + 1) % 2 # 1 \/ (n + 2) % 2 # 1
    OBVIOUS
  <2>3. QED
    BY <2>1, <2>2
<1>3. LeastGreater(isRTL) \in {n + 1, n + 2}
  BY <1>1, <1>2 DEF LeastGreater
<1>4. QED
  BY <1>1, <1>3

(* A push of rules X2 to X5c.                                              *)
LEMMA PushKeeps ==
  ASSUME StackIsAccounted, NEW level, level \in Nat, Top.level < level, CanPush(level),
         NEW override \in {"ON", "L", "R"}, NEW isolate \in BOOLEAN, baseLevel' = baseLevel,
         stack' = Append(stack, Status(level, override, isolate)),
         validIsolate' = IF isolate THEN validIsolate + 1 ELSE validIsolate
  PROVE  StackIsAccounted'
<1>1. PICK e : e = Status(level, override, isolate)
  OBVIOUS
<1>2. e \in Entries /\ e.level = level /\ e.isolate = isolate
  BY <1>1, LevelsFacts DEF Status, Entries, CanPush
<1>3. stack[Len(stack)].level < e.level
  BY <1>2 DEF Top
<1>4. Accounted(Append(stack, e), baseLevel, IF e.isolate THEN validIsolate + 1 ELSE validIsolate)
  BY <1>2, <1>3, PushAccounted DEF StackIsAccounted
<1>5. QED
  BY <1>1, <1>2, <1>4 DEF StackIsAccounted

LEMMA EmbedKeeps == ASSUME IInv, Embed PROVE IInv'
<1>1. WalkType' /\ Walk'
  <2>1. At(Embeddings) /\ Abandon /\ "Nil" \notin Embeddings
    BY DEF Embed, Embeddings
  <2>2. QED
    BY <2>1, AbandonKeeps DEF IInv
<1> DEFINE isRTL == types[link] \in {"RLE", "RLO"}
<1>2. isRTL \in BOOLEAN
  OBVIOUS
<1>3. PICK override \in {"ON", "L", "R"} :
        override = IF types[link] = "RLO" THEN "R" ELSE IF types[link] = "LRO" THEN "L" ELSE "ON"
  OBVIOUS
<1>4. PICK level : level = LeastGreater(isRTL)
  OBVIOUS
<1>5. StackIsAccounted /\ OverType
  BY DEF IInv
<1>6. level \in Nat /\ Top.level < level
  <2> HIDE DEF isRTL
  <2>1. QED
    BY <1>2, <1>4, <1>5, LeastGreaterIs
<1>7. UNCHANGED <<overIsolate, validIsolate>> /\ baseLevel' = baseLevel
  BY DEF Embed, At, paragraphVars
<1>8. \/ CanPush(level) /\ stack' = Append(stack, Status(level, override, FALSE)) /\ UNCHANGED overEmbedding
      \/ /\ overEmbedding' = IF overIsolate = 0 THEN overEmbedding + 1 ELSE overEmbedding
         /\ UNCHANGED stack
  BY <1>3, <1>4 DEF Embed
<1>9. OverType'
  <2>1. overEmbedding' \in {overEmbedding, overEmbedding + 1}
    BY <1>8
  <2>2. QED
    BY <1>5, <1>7, <2>1 DEF OverType
<1>10. StackIsAccounted'
  <2>1. CASE CanPush(level) /\ stack' = Append(stack, Status(level, override, FALSE))
    <3>1. PICK isolate \in BOOLEAN : isolate = FALSE
      OBVIOUS
    <3>2. validIsolate' = IF isolate THEN validIsolate + 1 ELSE validIsolate
      BY <1>7, <3>1
    <3>3. stack' = Append(stack, Status(level, override, isolate))
      BY <2>1, <3>1
    <3>4. QED
      BY <1>5, <1>6, <1>7, <2>1, <3>2, <3>3, PushKeeps
  <2>2. CASE UNCHANGED stack
    BY <1>5, <1>7, <2>2 DEF StackIsAccounted
  <2>3. QED
    BY <1>8, <2>1, <2>2
<1>11. QED
  BY <1>1, <1>9, <1>10 DEF IInv

LEMMA IsolateKeeps == ASSUME IInv, Isolate PROVE IInv'
<1>1. StackIsAccounted /\ OverType
  BY DEF IInv
<1>2. WalkType' /\ Walk'
  <2>1. At(Initiators) /\ "Nil" \notin Initiators /\ Settle(Top.level, Top.override)
    BY DEF Isolate, Initiators
  <2>2. PICK level \in 0..MaxLevel, override \in {"ON", "L", "R"} :
          level = Top.level /\ override = Top.override
    BY <1>1, TopType
  <2>3. QED
    BY <2>1, <2>2, SettleKeeps DEF IInv
<1>3. PICK isRTL \in BOOLEAN :
        isRTL = (\/ types[link] = "RLI"
                 \/ types[link] = "FSI" /\ DetermineBaseLevel(chain, types, link, 0, TRUE) = 1)
  OBVIOUS
<1>4. PICK level : level = LeastGreater(isRTL)
  OBVIOUS
<1>5. level \in Nat /\ Top.level < level
  BY <1>1, <1>4, LeastGreaterIs
<1>6. baseLevel' = baseLevel /\ UNCHANGED overEmbedding
  BY DEF Isolate, At, paragraphVars
<1>7. \/ /\ CanPush(level)
         /\ stack' = Append(stack, Status(level, "ON", TRUE))
         /\ validIsolate' = validIsolate + 1 /\ UNCHANGED overIsolate
      \/ overIsolate' = overIsolate + 1 /\ UNCHANGED <<validIsolate, stack>>
  BY <1>3, <1>4 DEF Isolate
<1>8. OverType'
  <2>1. /\ overIsolate' \in {overIsolate, overIsolate + 1}
        /\ validIsolate' \in {validIsolate, validIsolate + 1}
    <3>1. \/ UNCHANGED overIsolate /\ validIsolate' = validIsolate + 1
          \/ overIsolate' = overIsolate + 1 /\ UNCHANGED validIsolate
      BY <1>7
    <3>2. QED
      BY <3>1
  <2>2. QED
    BY <1>1, <1>6, <2>1 DEF OverType
<1>9. StackIsAccounted'
  <2>1. CASE CanPush(level) /\ stack' = Append(stack, Status(level, "ON", TRUE))
               /\ validIsolate' = validIsolate + 1
    <3>1. PICK override \in {"ON", "L", "R"}, isolate \in BOOLEAN : override = "ON" /\ isolate = TRUE
      OBVIOUS
    <3>2. validIsolate' = IF isolate THEN validIsolate + 1 ELSE validIsolate
      BY <2>1, <3>1
    <3>3. stack' = Append(stack, Status(level, override, isolate))
      BY <2>1, <3>1
    <3>4. QED
      BY <1>1, <1>5, <1>6, <2>1, <3>2, <3>3, PushKeeps
  <2>2. CASE UNCHANGED <<validIsolate, stack>>
    BY <1>1, <1>6, <2>2 DEF StackIsAccounted
  <2>3. QED
    BY <1>7, <2>1, <2>2
<1>10. QED
  BY <1>2, <1>8, <1>9 DEF IInv

LEMMA CloseIsolateKeeps == ASSUME IInv, CloseIsolate PROVE IInv'
<1>1. StackIsAccounted /\ OverType
  BY DEF IInv
<1>2. baseLevel' = baseLevel
  BY DEF CloseIsolate, At, paragraphVars
<1>3. \/ /\ overIsolate # 0 /\ overIsolate' = overIsolate - 1
         /\ UNCHANGED <<overEmbedding, validIsolate, stack>>
      \/ UNCHANGED stackVars
      \/ /\ validIsolate # 0 /\ overEmbedding' = 0 /\ validIsolate' = validIsolate - 1
         /\ stack' = SubSeq(stack, 1, Max(Isolates(stack)) - 1)
         /\ UNCHANGED overIsolate
  BY DEF CloseIsolate, Isolates
<1>4. OverType' /\ StackIsAccounted'
  <2>1. CASE overIsolate # 0 /\ overIsolate' = overIsolate - 1
             /\ UNCHANGED <<overEmbedding, validIsolate, stack>>
    BY <1>1, <1>2, <2>1 DEF OverType, StackIsAccounted
  <2>2. CASE UNCHANGED stackVars
    BY <1>1, <1>2, <2>2 DEF OverType, StackIsAccounted, stackVars
  <2>3. CASE /\ validIsolate # 0 /\ overEmbedding' = 0 /\ validIsolate' = validIsolate - 1
             /\ stack' = SubSeq(stack, 1, Max(Isolates(stack)) - 1)
             /\ UNCHANGED overIsolate
    <3>1. /\ Accounted(SubSeq(stack, 1, Max(Isolates(stack)) - 1), baseLevel, validIsolate - 1)
          /\ validIsolate - 1 \in Nat
      BY <1>1, <2>3, CloseAccounted DEF StackIsAccounted
    <3>2. QED
      BY <1>1, <1>2, <2>3, <3>1 DEF OverType, StackIsAccounted
  <2>4. QED
    BY <1>3, <2>1, <2>2, <2>3
<1>5. WalkType' /\ Walk'
  <2>1. PICK s : s = stack'
    OBVIOUS
  <2>2. s \in Seq(Entries) /\ Len(s) \in Nat /\ Len(s) >= 1
    BY <1>4, <2>1 DEF StackIsAccounted, Accounted
  <2>3. PICK k \in 1..Len(s) : k = Len(s)
    BY <2>2
  <2>4. PICK level \in 0..MaxLevel, override \in {"ON", "L", "R"} :
          level = s[k].level /\ override = s[k].override
    BY <2>2, EntryType
  <2>5. At({"PDI"}) /\ Settle(level, override)
    BY <2>1, <2>3, <2>4 DEF CloseIsolate
  <2>6. QED
    BY <2>5, SettleKeeps DEF IInv
<1>6. QED
  BY <1>4, <1>5 DEF IInv

LEMMA CloseEmbeddingKeeps == ASSUME IInv, CloseEmbedding PROVE IInv'
<1>1. StackIsAccounted /\ OverType
  BY DEF IInv
<1>2. baseLevel' = baseLevel /\ UNCHANGED <<overIsolate, validIsolate>>
  BY DEF CloseEmbedding, At, paragraphVars
<1>3. WalkType' /\ Walk'
  <2>1. At({"PDF"}) /\ Abandon
    BY DEF CloseEmbedding
  <2>2. QED
    BY <2>1, AbandonKeeps DEF IInv
<1>4. \/ overEmbedding # 0 /\ overEmbedding' = overEmbedding - 1 /\ UNCHANGED stack
      \/ /\ ~Top.isolate /\ Len(stack) >= 2
         /\ stack' = SubSeq(stack, 1, Len(stack) - 1) /\ UNCHANGED overEmbedding
      \/ UNCHANGED <<overEmbedding, stack>>
  BY DEF CloseEmbedding
<1>5. OverType'
  BY <1>1, <1>2, <1>4 DEF OverType
<1>6. StackIsAccounted'
  <2>1. CASE UNCHANGED stack
    BY <1>1, <1>2, <2>1 DEF StackIsAccounted
  <2>2. CASE /\ ~Top.isolate /\ Len(stack) >= 2
             /\ stack' = SubSeq(stack, 1, Len(stack) - 1)
    <3>1. Accounted(SubSeq(stack, 1, Len(stack) - 1), baseLevel, validIsolate)
      BY <1>1, <2>2, PopAccounted DEF StackIsAccounted, Top
    <3>2. QED
      BY <1>2, <2>2, <3>1 DEF StackIsAccounted
  <2>3. QED
    BY <1>4, <2>1, <2>2
<1>7. QED
  BY <1>3, <1>5, <1>6 DEF IInv

LEMMA SeparateKeeps == ASSUME IInv, Separate PROVE IInv'
<1>1. WalkType' /\ Walk'
  <2>1. baseLevel \in 0..(MaxLevel - 1)
    BY DEF IInv, WalkType
  <2>2. PICK level \in 0..MaxLevel, override \in {"ON", "L", "R"} :
          level = baseLevel /\ override = "ON"
    BY <2>1, LevelsFacts
  <2>3. At({"B"}) /\ Settle(level, override)
    BY <2>2 DEF Separate
  <2>4. QED
    BY <2>3, SettleKeeps DEF IInv
<1>2. OverType'
  BY DEF Separate, OverType
<1>3. StackIsAccounted'
  <2>1. Accounted(<<Status(baseLevel, "ON", FALSE)>>, baseLevel, 0)
    BY BaseAccounted DEF IInv, WalkType
  <2>2. QED
    BY <2>1 DEF Separate, At, paragraphVars, StackIsAccounted
<1>4. QED
  BY <1>1, <1>2, <1>3 DEF IInv

LEMMA StackStays ==
  ASSUME IInv, UNCHANGED stackVars, baseLevel' = baseLevel
  PROVE  OverType' /\ StackIsAccounted'
  BY DEF IInv, OverType, StackIsAccounted, stackVars

LEMMA DropKeeps == ASSUME IInv, Drop PROVE IInv'
<1>1. At({"BN"}) /\ Abandon /\ UNCHANGED stackVars
  BY DEF Drop
<1>2. baseLevel' = baseLevel
  BY <1>1 DEF At, paragraphVars
<1>3. WalkType' /\ Walk'
  BY <1>1, AbandonKeeps DEF IInv
<1>4. QED
  BY <1>1, <1>2, <1>3, StackStays DEF IInv

LEMMA AssignKeeps == ASSUME IInv, Assign PROVE IInv'
<1>1. At({"L", "R", "ON"}) /\ Settle(Top.level, Top.override) /\ UNCHANGED stackVars
  BY DEF Assign
<1>2. baseLevel' = baseLevel
  BY <1>1 DEF At, paragraphVars
<1>3. PICK level \in 0..MaxLevel, override \in {"ON", "L", "R"} :
        level = Top.level /\ override = Top.override
  BY TopType DEF IInv
<1>4. Settle(level, override)
  BY <1>1, <1>3
<1>5. WalkType' /\ Walk'
  BY <1>1, <1>4, SettleKeeps DEF IInv
<1>6. QED
  BY <1>1, <1>2, <1>5, StackStays DEF IInv

LEMMA FinishKeeps == ASSUME IInv, Finish PROVE IInv'
<1>1. WalkType /\ baseLevel \in 0..MaxLevel /\ MaxLevel \in Nat
  BY LevelsFacts DEF IInv, WalkType
<1>2. /\ text' = text /\ baseLevel' = baseLevel /\ Past' = Past
      /\ link' = NextLink(chain, link) /\ status' = "resolving"
      /\ UNCHANGED <<chain, types, stackVars>>
      /\ levels' = [levels EXCEPT ![link] = baseLevel]
      /\ ContinueRun(baseLevel, TRUE)
  BY DEF Finish, At, paragraphVars, Past
<1>3. chain \subseteq 1..Past /\ chain \subseteq Nat /\ link \in 0..Past /\ link \in Nat /\ Past \in Nat
  BY <1>1, PastType DEF WalkType
<1>4. link' \in 0..Past
  <2>1. PICK n : n = NextLink(chain, link)
    OBVIOUS
  <2>2. n \in chain \cup {0}
    BY <1>3, <2>1, NextLinkType
  <2>3. n \in 0..Past
    BY <1>3, <2>2
  <2>4. QED
    BY <1>2, <2>1, <2>3
<1>5. PICK level \in 0..MaxLevel : level = baseLevel
  BY <1>1
<1>6. /\ priorLink' = link /\ firstLink' \in {link, firstLink}
      /\ priorLevel' \in 0..MaxLevel /\ sor' \in {"L", "R", "Nil"}
  <2>1. PICK forceFinish : forceFinish = TRUE
    OBVIOUS
  <2>2. ContinueRun(level, forceFinish)
    BY <1>2, <1>5, <2>1
  <2>3. QED
    BY <1>1, <2>2, ContinueType
<1>7. levels' \in [0..Past -> InvalidLevel..MaxLevel]
  <2>1. baseLevel \in InvalidLevel..MaxLevel
    BY <1>1 DEF InvalidLevel
  <2>2. QED
    BY <1>1, <1>2, <2>1 DEF WalkType
<1>8. WalkType'
  BY <1>1, <1>2, <1>3, <1>4, <1>6, <1>7 DEF WalkType
<1>9. Walk'
  BY <1>2 DEF Walk
<1>10. QED
  BY <1>2, <1>8, <1>9, StackStays DEF IInv

LEMMA RestKeeps ==
  ASSUME IInv, Resolve \/ Complete \/ Fail \/ UNCHANGED vars
  PROVE  IInv'
<1>1. CASE Resolve \/ Complete \/ Fail
  <2>1. /\ UNCHANGED <<paragraphVars, chain, types, levels, link, priorLink, runVars, stackVars>>
        /\ status' \in {"resolving", "resolved", "failed"}
    BY <1>1 DEF Resolve, Complete, Fail
  <2>2. WalkType'
    BY <2>1 DEF IInv, WalkType, Past, paragraphVars, runVars
  <2>3. Walk'
    BY <2>1 DEF Walk
  <2>4. QED
    BY <2>1, <2>2, <2>3, StackStays DEF IInv, paragraphVars
<1>2. CASE UNCHANGED vars
  BY <1>2 DEF IInv, WalkType, Walk, OverType, StackIsAccounted, vars, Past
<1>3. QED
  BY <1>1, <1>2

(* The walk keeps its place and its account of the stack.                  *)
THEOREM SpecIInv == Spec => []IInv
<1>1. Init => IInv
  BY InitInv
<1>2. IInv /\ [Next]_vars => IInv'
  <2>1. SUFFICES ASSUME IInv, [Next]_vars PROVE IInv'
    OBVIOUS
  <2>2. CASE Embed
    BY <2>1, <2>2, EmbedKeeps
  <2>3. CASE Isolate
    BY <2>1, <2>3, IsolateKeeps
  <2>4. CASE CloseIsolate
    BY <2>1, <2>4, CloseIsolateKeeps
  <2>5. CASE CloseEmbedding
    BY <2>1, <2>5, CloseEmbeddingKeeps
  <2>6. CASE Separate
    BY <2>1, <2>6, SeparateKeeps
  <2>7. CASE Drop
    BY <2>1, <2>7, DropKeeps
  <2>8. CASE Assign
    BY <2>1, <2>8, AssignKeeps
  <2>9. CASE Finish
    BY <2>1, <2>9, FinishKeeps
  <2>10. CASE Resolve \/ Complete \/ Fail \/ UNCHANGED vars
    BY <2>1, <2>10, RestKeeps
  <2>11. QED
    BY <2>1, <2>2, <2>3, <2>4, <2>5, <2>6, <2>7, <2>8, <2>9, <2>10 DEF Next, Returned
<1>3. QED
  BY <1>1, <1>2, PTL DEF Spec

(* DetermineLevels keeps to the types of its variables: the levels stay in *)
(* 0..SBLevelMax, the links in the chain, and no counter goes below zero.  *)
THEOREM SpecTypeOK == Spec => []TypeOK
<1>1. IInv => TypeOK
  BY DEF IInv, WalkType, OverType, TypeOK
<1>2. QED
  BY <1>1, SpecIInv, PTL

(* The status stack has at most SBLevelMax + 1 entries, as StatusStackPush *)
(* asserts, and validIsolate counts its isolates, so that the loop of rule *)
(* X6a never pops the base.                                                *)
THEOREM SpecStackAccounts == Spec => []StackAccounts
<1>1. IInv => StackAccounts
  <2>1. SUFFICES ASSUME IInv PROVE StackAccounts
    OBVIOUS
  <2>2. StackIsAccounted /\ stack \in Seq(Entries) /\ Len(stack) \in Nat /\ Len(stack) >= 1
    BY <2>1 DEF IInv, StackIsAccounted, Accounted
  <2>3. Len(stack) \in 1..(MaxLevel + 1)
    <3>1. PICK k \in 1..Len(stack) : k = Len(stack)
      BY <2>2
    <3>2. k - 1 <= stack[k].level /\ stack[k].level \in 0..MaxLevel
      BY <2>2, EntryType DEF StackIsAccounted, Accounted
    <3>3. QED
      BY <2>2, <3>1, <3>2, LevelsFacts
  <2>4. \A k \in 1..Len(stack) :
          stack[k].level <= MaxLevel /\ (k > 1 => stack[k - 1].level < stack[k].level)
    <3>1. SUFFICES ASSUME NEW k \in 1..Len(stack)
                   PROVE  stack[k].level <= MaxLevel /\ (k > 1 => stack[k - 1].level < stack[k].level)
      OBVIOUS
    <3>2. stack[k].level \in 0..MaxLevel
      BY <2>2, EntryType
    <3>3. k > 1 => k \in 2..Len(stack)
      BY <2>2
    <3>4. k > 1 => stack[k - 1].level < stack[k].level
      BY <2>2, <3>3 DEF StackIsAccounted, Accounted
    <3>5. QED
      BY <3>2, <3>4, LevelsFacts
  <2>5. QED
    BY <2>2, <2>3, <2>4 DEF StackIsAccounted, Accounted, StackAccounts, Isolates
<1>2. QED
  BY <1>1, SpecIInv, PTL

(* The link that an abandon or a merge removes is always the link at hand. *)
THEOREM SpecPriorPrecedes == Spec => []PriorPrecedes
<1>1. IInv => PriorPrecedes
  <2>1. SUFFICES ASSUME IInv, status = "scanning"
                 PROVE  priorLink \in chain \cup {0} /\ NextLink(chain, priorLink) = link
    BY DEF PriorPrecedes
  <2>2. QED
    BY <2>1, WalkPrecedes DEF IInv, Walk
<1>2. QED
  BY <1>1, SpecIInv, PTL

-----------------------------------------------------------------------------
(* Rules X1 to X8.  First of counts that go up where something opens, and  *)
(* down where something closes.                                            *)

LEMMA Upwards ==
  ASSUME NEW a \in Nat, NEW b \in Nat, NEW T,
         \A i \in a..b : (\A j \in a..(i - 1) : j \in T) => i \in T
  PROVE  \A i \in a..b : i \in T
<1>1. SUFFICES ASSUME NEW i \in a..b, i \notin T PROVE FALSE
  OBVIOUS
<1>2. PICK S : S = {k \in a..b : k \notin T}
  OBVIOUS
<1>3. S \subseteq Nat /\ S # {}
  BY <1>1, <1>2
<1>4. PICK x \in S : \A y \in S : x <= y
  BY <1>3, HasLeast
<1>5. x \in a..b /\ x \notin T
  BY <1>2
<1>6. \A j \in a..(x - 1) : j \in T
  <2>1. TAKE j \in a..(x - 1)
  <2>2. j \in a..b /\ j < x
    BY <1>5
  <2>3. QED
    BY <1>2, <1>4, <1>5, <2>2
<1>7. QED
  BY <1>5, <1>6

IsCount(h, n) ==
  /\ h \in [0..n -> Int]
  /\ \A m \in 1..n : h[m] - h[m - 1] \in {-1, 0, 1}

(* What opens at j is still open after i.                                  *)
OpenTo(h, j, i) == \A m \in j..i : h[m] > h[j - 1]

LEMMA StaysOpen ==
  ASSUME NEW n \in Nat, NEW h, IsCount(h, n), NEW j \in 1..n, NEW i \in j..n, h[j] = h[j - 1] + 1,
         \A m \in (j + 1)..i : h[m] # h[j - 1]
  PROVE  OpenTo(h, j, i)
<1>1. SUFFICES ASSUME NEW k \in j..i, ~(h[k] > h[j - 1]) PROVE FALSE
  BY DEF OpenTo
<1>2. PICK S : S = {m \in j..i : ~(h[m] > h[j - 1])}
  OBVIOUS
<1>3. S \subseteq Nat /\ S # {}
  BY <1>1, <1>2
<1>4. PICK m \in S : \A y \in S : m <= y
  BY <1>3, HasLeast
<1>5. m \in j..i /\ ~(h[m] > h[j - 1])
  BY <1>2
<1>6. h \in [0..n -> Int]
  BY DEF IsCount
<1>7. h[j] \in Int /\ h[j - 1] \in Int /\ h[m] \in Int /\ h[m - 1] \in Int
  BY <1>5, <1>6
<1>8. m # j
  BY <1>5, <1>7
<1>9. m \in (j + 1)..i /\ m - 1 \in j..i /\ m \in 1..n /\ m - 1 < m
  BY <1>5, <1>8
<1>10. h[m - 1] > h[j - 1]
  <2>1. m - 1 \notin S
    BY <1>4, <1>9
  <2>2. QED
    BY <1>2, <1>9, <2>1
<1>11. h[m] - h[m - 1] \in {-1, 0, 1}
  BY <1>9 DEF IsCount
<1>12. h[m] = h[j - 1]
  BY <1>5, <1>7, <1>10, <1>11
<1>13. QED
  BY <1>9, <1>12

LEMMA InnerOpens ==
  ASSUME NEW n \in Nat, NEW h, IsCount(h, n), NEW j \in 1..n, NEW i \in j..n, OpenTo(h, j, i)
  PROVE  /\ \A k \in (j + 1)..i : OpenTo(h, k, i) => h[i] >= h[j - 1] + 2
         /\ h[i] >= h[j - 1] + 2 /\ h[j] = h[j - 1] + 1 =>
              \E k \in (j + 1)..i : h[k] = h[k - 1] + 1 /\ OpenTo(h, k, i)
<1>1. h \in [0..n -> Int]
  BY DEF IsCount
<1>2. ASSUME NEW k \in (j + 1)..i, OpenTo(h, k, i) PROVE h[i] >= h[j - 1] + 2
  <2>1. k - 1 \in j..i /\ i \in k..i
    OBVIOUS
  <2>2. h[k - 1] > h[j - 1] /\ h[i] > h[k - 1]
    BY <1>2, <2>1 DEF OpenTo
  <2>3. h[k - 1] \in Int /\ h[j - 1] \in Int /\ h[i] \in Int
    BY <1>1, <2>1
  <2>4. QED
    BY <2>2, <2>3
<1>3. ASSUME h[i] >= h[j - 1] + 2, h[j] = h[j - 1] + 1
      PROVE  \E k \in (j + 1)..i : h[k] = h[k - 1] + 1 /\ OpenTo(h, k, i)
  <2>1. PICK x \in Int : x = h[j - 1] + 1
    BY <1>1
  <2>2. PICK S : S = {m \in j..i : h[m] = x}
    OBVIOUS
  <2>3. j \in S /\ S \subseteq 0..i /\ S # {} /\ i \in Nat
    BY <1>3, <2>1, <2>2
  <2>4. PICK g \in S : \A y \in S : y <= g
    <3>1. \E g \in S : \A y \in S : y <= g
      BY <2>3, HasGreatest
    <3>2. QED
      BY <3>1
  <2>5. g \in j..i /\ h[g] = x
    BY <2>2
  <2>6. h[j - 1] \in Int /\ h[i] \in Int
    BY <1>1
  <2>7. g # i
    BY <1>3, <2>1, <2>5, <2>6
  <2>8. PICK k : k = g + 1
    OBVIOUS
  <2>9. k \in (j + 1)..i /\ k - 1 = g /\ k \in 1..n
    BY <2>5, <2>7, <2>8
  <2>10. ASSUME NEW m \in k..i PROVE h[m] > h[k - 1]
    <3>1. m \in j..i /\ ~(m <= g)
      BY <2>5, <2>8
    <3>2. m \notin S
      BY <2>4, <3>1
    <3>3. h[m] # x /\ h[m] > h[j - 1] /\ h[m] \in Int
      BY <1>1, <2>2, <3>1, <3>2 DEF OpenTo
    <3>4. h[m] > x
      BY <2>1, <2>6, <3>3
    <3>5. QED
      BY <2>5, <2>9, <3>4
  <2>11. OpenTo(h, k, i)
    BY <2>10 DEF OpenTo
  <2>12. h[k] = h[k - 1] + 1
    <3>1. h[k] > h[k - 1]
      BY <2>9, <2>10
    <3>2. h[k] - h[k - 1] \in {-1, 0, 1}
      BY <2>9 DEF IsCount
    <3>3. h[k] \in Int /\ h[k - 1] \in Int
      BY <1>1, <2>9
    <3>4. QED
      BY <3>1, <3>2, <3>3
  <2>13. QED
    BY <2>9, <2>11, <2>12
<1>4. QED
  BY <1>2, <1>3

(* The count of what opens at the positions A and closes at those of D.    *)
Tally(A, D, n) == [m \in 0..n |-> Cardinality(A \cap 1..m) - Cardinality(D \cap 1..m)]

AreMarks(A, D, n) == A \subseteq 1..n /\ D \subseteq 1..n /\ A \cap D = {}

OneIf(m, A) == IF m \in A THEN 1 ELSE 0

LEMMA PrefixCount ==
  ASSUME NEW n \in Nat, NEW A, A \subseteq 1..n, NEW m \in 0..n
  PROVE  /\ Cardinality(A \cap 1..m) \in Nat
         /\ m # 0 => Cardinality(A \cap 1..m) = Cardinality(A \cap 1..(m - 1)) + OneIf(m, A)
         /\ m # 0 => Cardinality(A \cap 1..(m - 1)) \in Nat
<1>1. \A x \in 0..n : IsFiniteSet(A \cap 1..x) /\ Cardinality(A \cap 1..x) \in Nat
  <2>1. TAKE x \in 0..n
  <2>2. IsFiniteSet(1..x) /\ A \cap 1..x \in SUBSET (1..x)
    BY FS_Interval
  <2>3. IsFiniteSet(A \cap 1..x)
    BY <2>2, FS_Subset
  <2>4. QED
    BY <2>3, FS_CardinalityType
<1>2. ASSUME m # 0
      PROVE  Cardinality(A \cap 1..m) = Cardinality(A \cap 1..(m - 1)) + OneIf(m, A)
  <2>1. PICK S : S = A \cap 1..(m - 1)
    OBVIOUS
  <2>2. m - 1 \in 0..n /\ m \notin S
    BY <1>2, <2>1
  <2>3. IsFiniteSet(S) /\ Cardinality(S) \in Nat
    BY <1>1, <2>1, <2>2
  <2>4. CASE m \in A
    <3>1. A \cap 1..m = S \cup {m}
      BY <1>2, <2>1, <2>4
    <3>2. Cardinality(S \cup {m}) = Cardinality(S) + 1
      BY <2>2, <2>3, FS_AddElement
    <3>3. QED
      BY <2>1, <2>4, <3>1, <3>2 DEF OneIf
  <2>5. CASE m \notin A
    <3>1. A \cap 1..m = S
      BY <1>2, <2>1, <2>5
    <3>2. PICK c \in Nat : c = Cardinality(S)
      BY <2>3
    <3>3. Cardinality(A \cap 1..m) = c /\ Cardinality(A \cap 1..(m - 1)) = c
      BY <2>1, <3>1, <3>2
    <3>4. c = c + 0
      OBVIOUS
    <3>5. QED
      BY <2>5, <3>3, <3>4 DEF OneIf
  <2>6. QED
    BY <2>4, <2>5
<1>3. m # 0 => m - 1 \in 0..n
  OBVIOUS
<1>4. QED
  BY <1>1, <1>2, <1>3

LEMMA TallyIs ==
  ASSUME NEW n \in Nat, NEW A, NEW D, AreMarks(A, D, n), NEW h, h = Tally(A, D, n)
  PROVE  /\ IsCount(h, n)
         /\ \A m \in 1..n : h[m] = h[m - 1] + (IF m \in A THEN 1 ELSE IF m \in D THEN -1 ELSE 0)
         /\ \A m \in 1..n : h[m] = h[m - 1] + 1 <=> m \in A
<1>1. A \subseteq 1..n /\ D \subseteq 1..n /\ A \cap D = {}
  BY DEF AreMarks
<1>2. h = [m \in 0..n |-> Cardinality(A \cap 1..m) - Cardinality(D \cap 1..m)]
  BY DEF Tally
<1>3. h \in [0..n -> Int]
  <2>1. \A m \in 0..n : Cardinality(A \cap 1..m) \in Nat /\ Cardinality(D \cap 1..m) \in Nat
    BY <1>1, PrefixCount
  <2>2. \A m \in 0..n : Cardinality(A \cap 1..m) - Cardinality(D \cap 1..m) \in Int
    <3>1. TAKE m \in 0..n
    <3>2. PICK a, d : a = Cardinality(A \cap 1..m) /\ d = Cardinality(D \cap 1..m)
      OBVIOUS
    <3>3. a \in Nat /\ d \in Nat
      BY <2>1, <3>2
    <3>4. a - d \in Int
      BY <3>3
    <3>5. QED
      BY <3>2, <3>4
  <2>3. QED
    BY <1>2, <2>2
<1>4. ASSUME NEW m \in 1..n
      PROVE  h[m] = h[m - 1] + (IF m \in A THEN 1 ELSE IF m \in D THEN -1 ELSE 0)
  <2>1. PICK a, d, b, e : /\ a = Cardinality(A \cap 1..m) /\ d = Cardinality(D \cap 1..m)
                          /\ b = Cardinality(A \cap 1..(m - 1)) /\ e = Cardinality(D \cap 1..(m - 1))
    OBVIOUS
  <2>2. m \in 0..n /\ m # 0 /\ m - 1 \in 0..n
    OBVIOUS
  <2>0. \A S : S \subseteq 1..n =>
          /\ Cardinality(S \cap 1..m) \in Nat /\ Cardinality(S \cap 1..(m - 1)) \in Nat
          /\ Cardinality(S \cap 1..m) = Cardinality(S \cap 1..(m - 1)) + OneIf(m, S)
    <3>1. TAKE S
    <3>2. HAVE S \subseteq 1..n
    <3>3. Cardinality(S \cap 1..m) \in Nat
      BY <2>2, <3>2, PrefixCount
    <3>4. Cardinality(S \cap 1..(m - 1)) \in Nat
      BY <2>2, <3>2, PrefixCount
    <3>5. Cardinality(S \cap 1..m) = Cardinality(S \cap 1..(m - 1)) + OneIf(m, S)
      BY <2>2, <3>2, PrefixCount
    <3>6. QED
      BY <3>3, <3>4, <3>5
  <2>3. a \in Nat /\ b \in Nat /\ a = b + OneIf(m, A)
    BY <1>1, <2>0, <2>1
  <2>4. d \in Nat /\ e \in Nat /\ d = e + OneIf(m, D)
    BY <1>1, <2>0, <2>1
  <2>5. h[m] = a - d /\ h[m - 1] = b - e
    BY <1>2, <2>1, <2>2
  <2>6. ~(m \in A /\ m \in D)
    BY <1>1
  <2>7. QED
    BY <2>3, <2>4, <2>5, <2>6 DEF OneIf
<1>5. ASSUME NEW m \in 1..n PROVE h[m] - h[m - 1] \in {-1, 0, 1} /\ (h[m] = h[m - 1] + 1 <=> m \in A)
  <2>1. h[m] \in Int /\ h[m - 1] \in Int
    BY <1>3
  <2>2. QED
    BY <1>4, <2>1
<1>6. QED
  BY <1>3, <1>4, <1>5 DEF IsCount

(* As many open as close from i to j just where the count is as before i.  *)
LEMMA TallyBetween ==
  ASSUME NEW n \in Nat, NEW A, NEW D, AreMarks(A, D, n), NEW h, h = Tally(A, D, n),
         NEW i \in 1..n, NEW j \in i..n
  PROVE  Cardinality(A \cap i..j) = Cardinality(D \cap i..j) <=> h[j] = h[i - 1]
<1>1. A \subseteq 1..n /\ D \subseteq 1..n
  BY DEF AreMarks
<1>2. \A S : S \subseteq 1..n =>
        /\ Cardinality(S \cap 1..j) = Cardinality(S \cap 1..(i - 1)) + Cardinality(S \cap i..j)
        /\ Cardinality(S \cap 1..j) \in Nat /\ Cardinality(S \cap 1..(i - 1)) \in Nat
        /\ Cardinality(S \cap i..j) \in Nat
  <2>1. SUFFICES ASSUME NEW S, S \subseteq 1..n
                 PROVE  /\ Cardinality(S \cap 1..j) =
                             Cardinality(S \cap 1..(i - 1)) + Cardinality(S \cap i..j)
                        /\ Cardinality(S \cap 1..j) \in Nat /\ Cardinality(S \cap 1..(i - 1)) \in Nat
                        /\ Cardinality(S \cap i..j) \in Nat
    OBVIOUS
  <2>2. PICK P, Q : P = S \cap 1..(i - 1) /\ Q = S \cap i..j
    OBVIOUS
  <2>3. IsFiniteSet(P) /\ IsFiniteSet(Q)
    <3>1. IsFiniteSet(1..(i - 1)) /\ IsFiniteSet(i..j)
      BY FS_Interval
    <3>2. P \in SUBSET (1..(i - 1)) /\ Q \in SUBSET (i..j)
      BY <2>2
    <3>3. QED
      BY <3>1, <3>2, FS_Subset
  <2>4. P \cap Q = {} /\ P \cup Q = S \cap 1..j
    BY <2>2
  <2>5. Cardinality(P \cup Q) = Cardinality(P) + Cardinality(Q) - Cardinality(P \cap Q)
    BY <2>3, FS_Union
  <2>6. Cardinality(P \cap Q) = 0
    BY <2>4, FS_EmptySet
  <2>7. Cardinality(P) \in Nat /\ Cardinality(Q) \in Nat
    BY <2>3, FS_CardinalityType
  <2>8. QED
    BY <2>2, <2>4, <2>5, <2>6, <2>7
<1>3. PICK a, b, c, d, e, f :
        /\ a = Cardinality(A \cap 1..j) /\ b = Cardinality(A \cap 1..(i - 1)) /\ c = Cardinality(A \cap i..j)
        /\ d = Cardinality(D \cap 1..j) /\ e = Cardinality(D \cap 1..(i - 1)) /\ f = Cardinality(D \cap i..j)
  OBVIOUS
<1>4. a = b + c /\ a \in Nat /\ b \in Nat /\ c \in Nat
  BY <1>1, <1>2, <1>3
<1>5. d = e + f /\ d \in Nat /\ e \in Nat /\ f \in Nat
  BY <1>1, <1>2, <1>3
<1>6. h[j] = a - d /\ h[i - 1] = b - e
  BY <1>3 DEF Tally
<1>7. QED
  BY <1>3, <1>4, <1>5, <1>6


(* What opens at j is open after i if the counts never agree in between.   *)
LEMMA OpenUntil ==
  ASSUME NEW n \in Nat, NEW A, NEW D, AreMarks(A, D, n), NEW h, h = Tally(A, D, n),
         NEW j \in A, NEW i \in j..n
  PROVE  (\A m \in (j + 1)..i : Cardinality(A \cap j..m) # Cardinality(D \cap j..m)) <=> OpenTo(h, j, i)
<1>0. j \in 1..n
  BY DEF AreMarks
<1>1. j \in 1..n /\ IsCount(h, n) /\ h[j] = h[j - 1] + 1
  BY <1>0, TallyIs
<1>2. \A m \in (j + 1)..i : Cardinality(A \cap j..m) = Cardinality(D \cap j..m) <=> h[m] = h[j - 1]
  <2>1. TAKE m \in (j + 1)..i
  <2>2. m \in j..n
    BY <1>1
  <2>3. QED
    BY <1>1, <2>2, TallyBetween
<1>3. (\A m \in (j + 1)..i : h[m] # h[j - 1]) => OpenTo(h, j, i)
  BY <1>1, StaysOpen
<1>4. ASSUME OpenTo(h, j, i), NEW m \in (j + 1)..i PROVE h[m] # h[j - 1]
  <2>1. m \in j..i /\ m \in 0..n /\ j - 1 \in 0..n
    BY <1>1
  <2>2. h[m] > h[j - 1] /\ h[m] \in Int /\ h[j - 1] \in Int
    BY <1>1, <1>4, <2>1 DEF OpenTo, IsCount
  <2>3. QED
    BY <2>2
<1>5. QED
  BY <1>2, <1>3, <1>4

(* From what is open before x to what is open after it.                    *)
LEMMA OpenOneMore ==
  ASSUME NEW n \in Nat, NEW A, NEW D, AreMarks(A, D, n), NEW h, h = Tally(A, D, n),
         NEW x \in 1..n, NEW j \in A, j < x
  PROVE  OpenTo(h, j, x) <=>
           OpenTo(h, j, x - 1) /\ (x \in D => \E k \in A : j < k /\ k < x /\ OpenTo(h, k, x - 1))
<1>0. j \in 1..n /\ j \in 1..(x - 1)
  BY DEF AreMarks
<1>1. j \in 1..n /\ j \in 1..(x - 1) /\ IsCount(h, n) /\ h[j] = h[j - 1] + 1
  BY <1>0, TallyIs
<1>2. h \in [0..n -> Int]
  BY <1>1 DEF IsCount
<1>3. OpenTo(h, j, x) <=> OpenTo(h, j, x - 1) /\ h[x] > h[j - 1]
  <2>1. \A m \in j..x : m \in j..(x - 1) \/ m = x
    BY <1>1
  <2>2. x \in j..x /\ \A m \in j..(x - 1) : m \in j..x
    BY <1>1
  <2>3. QED
    BY <2>1, <2>2 DEF OpenTo
<1>4. SUFFICES ASSUME OpenTo(h, j, x - 1)
               PROVE  h[x] > h[j - 1] <=> (x \in D => \E k \in A : j < k /\ k < x /\ OpenTo(h, k, x - 1))
  BY <1>3
<1>5. x - 1 \in j..n /\ x - 1 \in j..(x - 1)
  BY <1>1
<1>6. h[x - 1] > h[j - 1]
  BY <1>4, <1>5 DEF OpenTo
<1>7. PICK a, b, c \in Int : a = h[j - 1] /\ b = h[x - 1] /\ c = h[x]
  BY <1>1, <1>2, SMTT(40)
<1>8. c = b + (IF x \in A THEN 1 ELSE IF x \in D THEN -1 ELSE 0)
  BY <1>7, TallyIs
<1>9. ~(x \in A /\ x \in D)
  BY DEF AreMarks
<1>10. (\E k \in A : j < k /\ k < x /\ OpenTo(h, k, x - 1)) <=> b >= a + 2
  <2>1. ASSUME NEW k \in A, j < k, k < x, OpenTo(h, k, x - 1) PROVE b >= a + 2
    <3>1. k \in (j + 1)..(x - 1)
      BY <1>1, <2>1 DEF AreMarks
    <3>2. h[x - 1] >= h[j - 1] + 2
      BY <1>1, <1>4, <1>5, <2>1, <3>1, InnerOpens
    <3>3. QED
      BY <1>7, <3>2
  <2>2. ASSUME b >= a + 2 PROVE \E k \in A : j < k /\ k < x /\ OpenTo(h, k, x - 1)
    <3>1. h[x - 1] >= h[j - 1] + 2
      BY <1>7, <2>2
    <3>2. PICK k \in (j + 1)..(x - 1) : h[k] = h[k - 1] + 1 /\ OpenTo(h, k, x - 1)
      BY <1>1, <1>4, <1>5, <3>1, InnerOpens
    <3>3. k \in 1..n /\ j < k /\ k < x
      BY <1>1
    <3>4. k \in A
      BY <3>2, <3>3, TallyIs
    <3>5. QED
      BY <3>2, <3>3, <3>4
  <2>3. QED
    BY <2>1, <2>2
<1>11. CASE x \in D
  BY <1>6, <1>7, <1>8, <1>9, <1>10, <1>11
<1>12. CASE x \notin D
  BY <1>6, <1>7, <1>8, <1>12
<1>13. QED
  BY <1>11, <1>12

LEMMA BeyondMin ==
  ASSUME NEW n \in Nat, NEW X, X \subseteq 0..n, NEW i \in 0..n
  PROVE  i < Min({n + 1} \cup X) <=> \A m \in X : i < m
<1>1. PICK S : S = {n + 1} \cup X
  OBVIOUS
<1>2. S \subseteq Nat /\ S # {}
  BY <1>1
<1>3. PICK m : m = Min(S)
  OBVIOUS
<1>4. m \in S /\ \A y \in S : m <= y
  BY <1>2, <1>3, MinIs
<1>5. ASSUME i < m, NEW y \in X PROVE i < y
  <2>1. m <= y /\ m \in Nat /\ y \in Nat
    BY <1>1, <1>2, <1>4
  <2>2. QED
    BY <1>5, <2>1
<1>6. ASSUME \A y \in X : i < y PROVE i < m
  BY <1>1, <1>4, <1>6
<1>7. QED
  BY <1>1, <1>3, <1>5, <1>6

-----------------------------------------------------------------------------
(* The reference of rules X1 to X8 as operators of the text alone.         *)

Openings == Embeddings \cup Initiators

PositionsIn(txt, which) == {k \in 1..Len(txt) : txt[k] \in which}

PDIof(txt, i) ==
  Min({Len(txt) + 1} \cup {j \in (i + 1)..Len(txt) :
         Cardinality({k \in i..j : txt[k] \in Initiators}) = Cardinality({k \in i..j : txt[k] \in {"PDI"}})})

IsolatesOf(txt, i) == {j \in 1..(i - 1) : txt[j] \in Initiators /\ i < PDIof(txt, j)}

EndOf(txt, i) ==
  LET Inside(j, which) ==
        {k \in i..j : txt[k] \in which /\ IsolatesOf(txt, k) = IsolatesOf(txt, i)}
  IN  Min({Len(txt) + 1} \cup {j \in (i + 1)..Len(txt) :
             \/ ~(IsolatesOf(txt, i) \subseteq IsolatesOf(txt, j))
             \/ Cardinality(Inside(j, Embeddings)) = Cardinality(Inside(j, {"PDF"}))})

IsolatesAfter(txt, i) == {j \in 1..i : txt[j] \in Initiators /\ i < PDIof(txt, j)}
EmbeddingsAfter(txt, i) == {j \in 1..i : txt[j] \in Embeddings /\ i < EndOf(txt, j)}

(* What is open after a position, and around one.                          *)
After(txt, i) == IsolatesAfter(txt, i) \cup EmbeddingsAfter(txt, i)
AroundOf(txt, i) == {j \in After(txt, i) : j < i}

(* The embeddings and the PDFs in the same isolates.                       *)
EmbeddingsIn(txt, I) == {k \in 1..Len(txt) : txt[k] \in Embeddings /\ IsolatesOf(txt, k) = I}
PDFsIn(txt, I) == {k \in 1..Len(txt) : txt[k] \in {"PDF"} /\ IsolatesOf(txt, k) = I}

LEMMA TypesDiffer ==
  /\ "PDI" \notin Initiators /\ "PDF" \notin Embeddings /\ "PDI" \notin Openings /\ "PDF" \notin Openings
  /\ Initiators \cap Embeddings = {} /\ "B" \notin Openings /\ "BN" \notin Openings
  /\ "L" \notin Openings /\ "R" \notin Openings /\ "ON" \notin Openings
  /\ Openings = Embeddings \cup Initiators
  BY DEF Initiators, Embeddings, Openings

LEMMA PDIBeyond ==
  ASSUME NEW txt, NEW n \in Nat, n = Len(txt), NEW h,
         h = Tally(PositionsIn(txt, Initiators), PositionsIn(txt, {"PDI"}), n),
         NEW j \in PositionsIn(txt, Initiators), NEW i \in j..n
  PROVE  i < PDIof(txt, j) <=> OpenTo(h, j, i)
<1>1. PICK A, D : A = PositionsIn(txt, Initiators) /\ D = PositionsIn(txt, {"PDI"})
  OBVIOUS
<1>2. AreMarks(A, D, n)
  BY <1>1, TypesDiffer DEF AreMarks, PositionsIn
<1>3. j \in 1..n
  BY DEF PositionsIn
<1>4. \A m \in j..n : {k \in j..m : txt[k] \in Initiators} = A \cap j..m
                      /\ {k \in j..m : txt[k] \in {"PDI"}} = D \cap j..m
  BY <1>1, <1>3 DEF PositionsIn
<1>5. PICK X : X = {m \in (j + 1)..n : Cardinality(A \cap j..m) = Cardinality(D \cap j..m)}
  OBVIOUS
<1>6. \A m \in (j + 1)..n : m \in j..n
  BY <1>3
<1>7. X = {m \in (j + 1)..n : Cardinality({k \in j..m : txt[k] \in Initiators}) =
                              Cardinality({k \in j..m : txt[k] \in {"PDI"}})}
  BY <1>4, <1>5, <1>6
<1>8. PDIof(txt, j) = Min({n + 1} \cup X)
  BY <1>7 DEF PDIof
<1>9. X \subseteq 0..n /\ i \in 0..n
  BY <1>3, <1>5
<1>10. i < PDIof(txt, j) <=> \A m \in X : i < m
  <2>1. i < Min({n + 1} \cup X) <=> \A m \in X : i < m
    BY <1>9, BeyondMin
  <2>2. QED
    BY <1>8, <2>1
<1>11. (\A m \in X : i < m) <=> \A m \in (j + 1)..i : Cardinality(A \cap j..m) # Cardinality(D \cap j..m)
  <2>1. \A m \in (j + 1)..n : m \in (j + 1)..i <=> ~(i < m)
    BY <1>3
  <2>2. \A m \in (j + 1)..i : m \in (j + 1)..n
    BY <1>3
  <2>3. QED
    BY <1>5, <2>1, <2>2
<1>12. QED
  BY <1>1, <1>2, <1>10, <1>11, OpenUntil

LEMMA EndBeyond ==
  ASSUME NEW txt, NEW n \in Nat, n = Len(txt), NEW j \in 1..n, txt[j] \in Embeddings,
         NEW I, I = IsolatesOf(txt, j), NEW h, h = Tally(EmbeddingsIn(txt, I), PDFsIn(txt, I), n),
         NEW i \in j..n
  PROVE  i < EndOf(txt, j) <=> (\A m \in j..i : I \subseteq IsolatesOf(txt, m)) /\ OpenTo(h, j, i)
<1>1. PICK A, D : A = EmbeddingsIn(txt, I) /\ D = PDFsIn(txt, I)
  OBVIOUS
<1>2. AreMarks(A, D, n)
  BY <1>1, TypesDiffer DEF AreMarks, EmbeddingsIn, PDFsIn
<1>3. j \in A
  BY <1>1 DEF EmbeddingsIn
<1>4. \A m \in j..n :
         /\ {k \in j..m : txt[k] \in Embeddings /\ IsolatesOf(txt, k) = IsolatesOf(txt, j)} = A \cap j..m
         /\ {k \in j..m : txt[k] \in {"PDF"} /\ IsolatesOf(txt, k) = IsolatesOf(txt, j)} = D \cap j..m
  BY <1>1 DEF EmbeddingsIn, PDFsIn
<1>5. PICK X : X = {m \in (j + 1)..n : \/ ~(I \subseteq IsolatesOf(txt, m))
                                       \/ Cardinality(A \cap j..m) = Cardinality(D \cap j..m)}
  OBVIOUS
<1>6. \A m \in (j + 1)..n : m \in j..n
  OBVIOUS
<1>7. X = {m \in (j + 1)..n :
             \/ ~(IsolatesOf(txt, j) \subseteq IsolatesOf(txt, m))
             \/ Cardinality({k \in j..m : txt[k] \in Embeddings /\ IsolatesOf(txt, k) = IsolatesOf(txt, j)}) =
                Cardinality({k \in j..m : txt[k] \in {"PDF"} /\ IsolatesOf(txt, k) = IsolatesOf(txt, j)})}
  BY <1>4, <1>5, <1>6
<1>8. EndOf(txt, j) = Min({n + 1} \cup X)
  BY <1>7 DEF EndOf
<1>9. X \subseteq 0..n /\ i \in 0..n
  BY <1>5
<1>10. i < EndOf(txt, j) <=> \A m \in X : i < m
  <2>1. i < Min({n + 1} \cup X) <=> \A m \in X : i < m
    BY <1>9, BeyondMin
  <2>2. QED
    BY <1>8, <2>1
<1>11. (\A m \in X : i < m) <=>
         /\ \A m \in (j + 1)..i : I \subseteq IsolatesOf(txt, m)
         /\ \A m \in (j + 1)..i : Cardinality(A \cap j..m) # Cardinality(D \cap j..m)
  <2>1. \A m \in (j + 1)..n : m \in (j + 1)..i <=> ~(i < m)
    OBVIOUS
  <2>2. \A m \in (j + 1)..i : m \in (j + 1)..n
    OBVIOUS
  <2>3. QED
    BY <1>5, <2>1, <2>2
<1>12. (\A m \in (j + 1)..i : I \subseteq IsolatesOf(txt, m)) <=> \A m \in j..i : I \subseteq IsolatesOf(txt, m)
  <2>1. \A m \in j..i : m = j \/ m \in (j + 1)..i
    OBVIOUS
  <2>2. \A m \in (j + 1)..i : m \in j..i
    OBVIOUS
  <2>3. QED
    BY <2>1, <2>2
<1>13. (\A m \in (j + 1)..i : Cardinality(A \cap j..m) # Cardinality(D \cap j..m)) <=> OpenTo(h, j, i)
  <2>1. h = Tally(A, D, n)
    BY <1>1
  <2>2. QED
    BY <1>2, <1>3, <2>1, OpenUntil
<1>14. QED
  BY <1>10, <1>11, <1>12, <1>13

(* One more position: which isolates, and which embeddings, are open.      *)
LEMMA IsolatesOneMore ==
  ASSUME NEW txt, NEW n \in Nat, n = Len(txt), NEW x \in 1..n, NEW I, I = IsolatesAfter(txt, x - 1)
  PROVE  \A j : j \in IsolatesAfter(txt, x) <=>
           \/ j \in I /\ (txt[x] = "PDI" => \E k \in I : j < k)
           \/ j = x /\ txt[x] \in Initiators
<1>1. PICK A, D : A = PositionsIn(txt, Initiators) /\ D = PositionsIn(txt, {"PDI"})
  OBVIOUS
<1>2. PICK h : h = Tally(A, D, n)
  OBVIOUS
<1>3. AreMarks(A, D, n)
  BY <1>1, TypesDiffer DEF AreMarks, PositionsIn
<1>4. A \subseteq 1..n
  BY <1>3 DEF AreMarks
<1>5. \A j \in A : \A i \in j..n : i < PDIof(txt, j) <=> OpenTo(h, j, i)
  BY <1>1, <1>2, PDIBeyond
<1>6. \A j : j \in I <=> j \in A /\ j < x /\ OpenTo(h, j, x - 1)
  <2>1. TAKE j
  <2>2. j \in I <=> j \in 1..(x - 1) /\ j \in A /\ x - 1 < PDIof(txt, j)
    BY <1>1 DEF IsolatesAfter, PositionsIn
  <2>3. CASE j \in A /\ j < x
    <3>1. x - 1 \in j..n /\ j \in 1..(x - 1)
      BY <1>4, <2>3
    <3>2. QED
      BY <1>5, <2>2, <2>3, <3>1
  <2>4. CASE ~(j \in A /\ j < x)
    BY <1>4, <2>2, <2>4
  <2>5. QED
    BY <2>3, <2>4
<1>7. \A j : j \in IsolatesAfter(txt, x) <=> j \in A /\ j <= x /\ OpenTo(h, j, x)
  <2>1. TAKE j
  <2>2. j \in IsolatesAfter(txt, x) <=> j \in 1..x /\ j \in A /\ x < PDIof(txt, j)
    BY <1>1 DEF IsolatesAfter, PositionsIn
  <2>3. CASE j \in A /\ j <= x
    <3>1. x \in j..n /\ j \in 1..x
      BY <1>4, <2>3
    <3>2. QED
      BY <1>5, <2>2, <2>3, <3>1
  <2>4. CASE ~(j \in A /\ j <= x)
    BY <1>4, <2>2, <2>4
  <2>5. QED
    BY <2>3, <2>4
<1>8. x \in D <=> txt[x] = "PDI"
  BY <1>1 DEF PositionsIn
<1>9. x \in A <=> txt[x] \in Initiators
  BY <1>1 DEF PositionsIn
<1>10. ASSUME NEW j \in A, j < x
       PROVE  OpenTo(h, j, x) <=> OpenTo(h, j, x - 1) /\ (txt[x] = "PDI" => \E k \in I : j < k)
  <2>1. OpenTo(h, j, x) <=>
          OpenTo(h, j, x - 1) /\ (x \in D => \E k \in A : j < k /\ k < x /\ OpenTo(h, k, x - 1))
    BY <1>2, <1>3, <1>10, OpenOneMore
  <2>2. (\E k \in A : j < k /\ k < x /\ OpenTo(h, k, x - 1)) <=> \E k \in I : j < k
    BY <1>6
  <2>3. QED
    BY <1>8, <2>1, <2>2
<1>11. x \in A => OpenTo(h, x, x)
  <2>1. SUFFICES ASSUME x \in A PROVE h[x] > h[x - 1]
    <3>1. \A m \in x..x : m = x
      OBVIOUS
    <3>2. QED
      BY <3>1 DEF OpenTo
  <2>2. h[x] = h[x - 1] + 1 /\ IsCount(h, n)
    BY <1>2, <1>3, <2>1, TallyIs
  <2>3. h[x - 1] \in Int
    BY <2>2 DEF IsCount
  <2>4. QED
    BY <2>2, <2>3
<1>12. TAKE j
<1>13. CASE j \in A /\ j < x
  <2>1. j <= x /\ j # x
    BY <1>4, <1>13
  <2>2. OpenTo(h, j, x) <=> OpenTo(h, j, x - 1) /\ (txt[x] = "PDI" => \E k \in I : j < k)
    BY <1>10, <1>13
  <2>3. QED
    BY <1>6, <1>7, <1>13, <2>1, <2>2
<1>14. CASE j = x
  <2>1. j \notin I
    BY <1>6, <1>14
  <2>2. QED
    BY <1>7, <1>9, <1>11, <1>14, <2>1
<1>15. CASE ~(j \in A /\ j < x) /\ j # x
  <2>1. j \notin I
    BY <1>6, <1>15
  <2>2. ~(j \in A /\ j <= x)
    <3>1. j \in A => j \in 1..n
      BY <1>4
    <3>2. QED
      BY <1>15, <3>1
  <2>3. QED
    BY <1>7, <1>15, <2>1, <2>2
<1>16. QED
  BY <1>13, <1>14, <1>15

LEMMA IsolatesOfIs ==
  ASSUME NEW txt, NEW x \in Nat
  PROVE  IsolatesOf(txt, x) = {j \in IsolatesAfter(txt, x) : j < x}
  BY DEF IsolatesOf, IsolatesAfter

LEMMA EmbeddingsOneMore ==
  ASSUME NEW txt, NEW n \in Nat, n = Len(txt), NEW x \in 1..n, NEW E, E = EmbeddingsAfter(txt, x - 1)
  PROVE  \A j : j \in EmbeddingsAfter(txt, x) <=>
           \/ /\ j \in E /\ IsolatesOf(txt, j) \subseteq IsolatesOf(txt, x)
              /\ txt[x] = "PDF" /\ IsolatesOf(txt, x) = IsolatesOf(txt, j) =>
                   \E k \in E : IsolatesOf(txt, k) = IsolatesOf(txt, j) /\ j < k
           \/ j = x /\ txt[x] \in Embeddings
<1>1. \A i \in 0..n : \A j : j \in EmbeddingsAfter(txt, i) <=>
        /\ j \in 1..i /\ txt[j] \in Embeddings
        /\ \A m \in j..i : IsolatesOf(txt, j) \subseteq IsolatesOf(txt, m)
        /\ OpenTo(Tally(EmbeddingsIn(txt, IsolatesOf(txt, j)), PDFsIn(txt, IsolatesOf(txt, j)), n), j, i)
  <2>1. TAKE i \in 0..n
  <2>2. TAKE j
  <2>3. j \in EmbeddingsAfter(txt, i) <=> j \in 1..i /\ txt[j] \in Embeddings /\ i < EndOf(txt, j)
    BY DEF EmbeddingsAfter
  <2>4. CASE j \in 1..i /\ txt[j] \in Embeddings
    <3>1. j \in 1..n /\ i \in j..n
      BY <2>4
    <3>2. i < EndOf(txt, j) <=>
            /\ \A m \in j..i : IsolatesOf(txt, j) \subseteq IsolatesOf(txt, m)
            /\ OpenTo(Tally(EmbeddingsIn(txt, IsolatesOf(txt, j)), PDFsIn(txt, IsolatesOf(txt, j)), n), j, i)
      BY <2>4, <3>1, EndBeyond
    <3>3. QED
      BY <2>3, <2>4, <3>2
  <2>5. CASE ~(j \in 1..i /\ txt[j] \in Embeddings)
    BY <2>3, <2>5
  <2>6. QED
    BY <2>4, <2>5
<1>2. ASSUME NEW j \in 1..(x - 1), txt[j] \in Embeddings
      PROVE  j \in EmbeddingsAfter(txt, x) <=>
               /\ j \in E /\ IsolatesOf(txt, j) \subseteq IsolatesOf(txt, x)
               /\ txt[x] = "PDF" /\ IsolatesOf(txt, x) = IsolatesOf(txt, j) =>
                    \E k \in E : IsolatesOf(txt, k) = IsolatesOf(txt, j) /\ j < k
  <2>1. PICK I, A, D : I = IsolatesOf(txt, j) /\ A = EmbeddingsIn(txt, I) /\ D = PDFsIn(txt, I)
    OBVIOUS
  <2>2. PICK h : h = Tally(A, D, n)
    OBVIOUS
  <2>3. AreMarks(A, D, n)
    BY <2>1, TypesDiffer DEF AreMarks, EmbeddingsIn, PDFsIn
  <2>4. j \in A /\ j < x /\ j \in 1..x /\ x \in 0..n /\ x - 1 \in 0..n
    BY <1>2, <2>1 DEF EmbeddingsIn
  <2>5. j \in E <=> (\A m \in j..(x - 1) : I \subseteq IsolatesOf(txt, m)) /\ OpenTo(h, j, x - 1)
    BY <1>1, <1>2, <2>1, <2>2, <2>4
  <2>6. j \in EmbeddingsAfter(txt, x) <=>
          (\A m \in j..x : I \subseteq IsolatesOf(txt, m)) /\ OpenTo(h, j, x)
    BY <1>1, <1>2, <2>1, <2>2, <2>4
  <2>7. (\A m \in j..x : I \subseteq IsolatesOf(txt, m)) <=>
          (\A m \in j..(x - 1) : I \subseteq IsolatesOf(txt, m)) /\ I \subseteq IsolatesOf(txt, x)
    <3>1. \A m \in j..x : m \in j..(x - 1) \/ m = x
      OBVIOUS
    <3>2. x \in j..x /\ \A m \in j..(x - 1) : m \in j..x
      BY <2>4
    <3>3. QED
      BY <3>1, <3>2
  <2>8. OpenTo(h, j, x) <=>
          OpenTo(h, j, x - 1) /\ (x \in D => \E k \in A : j < k /\ k < x /\ OpenTo(h, k, x - 1))
    <3>1. \A y \in A : y < x =>
            (OpenTo(h, y, x) <=>
               OpenTo(h, y, x - 1) /\ (x \in D => \E k \in A : y < k /\ k < x /\ OpenTo(h, k, x - 1)))
      BY <2>2, <2>3, OpenOneMore
    <3>2. QED
      BY <2>4, <3>1
  <2>9. x \in D <=> txt[x] = "PDF" /\ IsolatesOf(txt, x) = I
    BY <2>1 DEF PDFsIn
  <2>10. ASSUME \A m \in j..(x - 1) : I \subseteq IsolatesOf(txt, m)
         PROVE  (\E k \in A : j < k /\ k < x /\ OpenTo(h, k, x - 1)) <=>
                  \E k \in E : IsolatesOf(txt, k) = I /\ j < k
    <3>1. ASSUME NEW k, j < k
          PROVE  k \in A /\ k < x /\ OpenTo(h, k, x - 1) <=> k \in E /\ IsolatesOf(txt, k) = I
      <4>1. CASE k \in 1..(x - 1) /\ txt[k] \in Embeddings /\ IsolatesOf(txt, k) = I
        <5>1. k \in A /\ k < x
          BY <2>1, <4>1 DEF EmbeddingsIn
        <5>2. \A m \in k..(x - 1) : I \subseteq IsolatesOf(txt, m)
          BY <2>10, <3>1, <4>1
        <5>3. k \in E <=> (\A m \in k..(x - 1) : I \subseteq IsolatesOf(txt, m)) /\ OpenTo(h, k, x - 1)
          BY <1>1, <2>1, <2>2, <2>4, <4>1
        <5>4. QED
          BY <4>1, <5>1, <5>2, <5>3
      <4>2. CASE ~(k \in 1..(x - 1) /\ txt[k] \in Embeddings /\ IsolatesOf(txt, k) = I)
        <5>1. ~(k \in A /\ k < x)
          BY <2>1, <4>2 DEF EmbeddingsIn
        <5>2. ~(k \in E /\ IsolatesOf(txt, k) = I)
          BY <4>2 DEF EmbeddingsAfter
        <5>3. QED
          BY <5>1, <5>2
      <4>3. QED
        BY <4>1, <4>2
    <3>2. QED
      BY <3>1
  <2>11. QED
    BY <2>1, <2>5, <2>6, <2>7, <2>8, <2>9, <2>10
<1>3. txt[x] \in Embeddings => x \in EmbeddingsAfter(txt, x)
  <2>1. SUFFICES ASSUME txt[x] \in Embeddings PROVE x \in EmbeddingsAfter(txt, x)
    OBVIOUS
  <2>2. PICK I, A, D : I = IsolatesOf(txt, x) /\ A = EmbeddingsIn(txt, I) /\ D = PDFsIn(txt, I)
    OBVIOUS
  <2>3. PICK h : h = Tally(A, D, n)
    OBVIOUS
  <2>4. AreMarks(A, D, n)
    BY <2>2, TypesDiffer DEF AreMarks, EmbeddingsIn, PDFsIn
  <2>5. x \in A
    BY <2>1, <2>2 DEF EmbeddingsIn
  <2>6. h[x] = h[x - 1] + 1 /\ IsCount(h, n)
    BY <2>3, <2>4, <2>5, TallyIs
  <2>7. h[x] > h[x - 1]
    BY <2>6, SMTT(40) DEF IsCount
  <2>8. \A m \in x..x : m = x
    OBVIOUS
  <2>9. OpenTo(h, x, x)
    BY <2>7, <2>8 DEF OpenTo
  <2>10. x \in 0..n /\ x \in 1..x
    OBVIOUS
  <2>11. QED
    BY <1>1, <2>1, <2>2, <2>3, <2>8, <2>9, <2>10
<1>4. TAKE j
<1>5. CASE j \in 1..(x - 1) /\ txt[j] \in Embeddings
  <2>1. j # x
    BY <1>5
  <2>2. QED
    BY <1>2, <1>5, <2>1
<1>6. CASE j = x
  <2>1. j \notin E
    BY <1>6 DEF EmbeddingsAfter
  <2>2. j \in EmbeddingsAfter(txt, x) => txt[x] \in Embeddings
    BY <1>6 DEF EmbeddingsAfter
  <2>3. QED
    BY <1>3, <1>6, <2>1, <2>2
<1>7. CASE ~(j \in 1..(x - 1) /\ txt[j] \in Embeddings) /\ j # x
  <2>1. j \notin E /\ j \notin EmbeddingsAfter(txt, x)
    BY <1>7 DEF EmbeddingsAfter
  <2>2. QED
    BY <1>7, <2>1
<1>8. QED
  BY <1>5, <1>6, <1>7

(* Whether what is open before a position stays open after it.             *)
Stays(txt, x, O, j) ==
  CASE txt[x] = "PDI" -> (\A g \in O : txt[g] \notin Initiators) \/ \E g \in O : txt[g] \in Initiators /\ j < g
    [] txt[x] = "PDF" -> txt[j] \in Initiators \/ \E k \in O : j < k
    [] OTHER -> TRUE

LEMMA AfterOneMore ==
  ASSUME NEW txt, NEW n \in Nat, n = Len(txt), NEW x \in 1..n, NEW O, O = After(txt, x - 1)
  PROVE  \A j : j \in After(txt, x) <=> (j \in O /\ Stays(txt, x, O, j)) \/ (j = x /\ txt[x] \in Openings)
<1>1. PICK I, E : I = IsolatesAfter(txt, x - 1) /\ E = EmbeddingsAfter(txt, x - 1)
  OBVIOUS
<1>2. O = I \cup E
  BY <1>1 DEF After
<1>3. /\ \A j \in I : j \in 1..(x - 1) /\ txt[j] \in Initiators /\ txt[j] \notin Embeddings /\ j \notin E
      /\ \A j \in E : j \in 1..(x - 1) /\ txt[j] \in Embeddings /\ txt[j] \notin Initiators
  BY <1>1, TypesDiffer DEF IsolatesAfter, EmbeddingsAfter
<1>4. \A j : j \in IsolatesAfter(txt, x) <=>
        \/ j \in I /\ (txt[x] = "PDI" => \E k \in I : j < k)
        \/ j = x /\ txt[x] \in Initiators
  BY <1>1, IsolatesOneMore
<1>5. PICK J : J = IsolatesOf(txt, x)
  OBVIOUS
<1>6. \A j : j \in J <=> j \in I /\ (txt[x] = "PDI" => \E k \in I : j < k)
  <2>1. J = {j \in IsolatesAfter(txt, x) : j < x}
    BY <1>5, IsolatesOfIs
  <2>2. \A j \in I : j < x
    BY <1>3
  <2>3. QED
    BY <1>4, <2>1, <2>2
<1>7. ASSUME NEW j \in E
      PROVE  IsolatesOf(txt, j) = {k \in I : k < j}
  <2>1. j \in 1..(x - 1) /\ x - 1 \in j..(x - 1) /\ x - 1 \in j..n /\ j \in 1..n
    BY <1>3
  <2>2. IsolatesOf(txt, j) \subseteq IsolatesOf(txt, x - 1)
    <3>1. PICK h : h = Tally(EmbeddingsIn(txt, IsolatesOf(txt, j)), PDFsIn(txt, IsolatesOf(txt, j)), n)
      OBVIOUS
    <3>2. x - 1 < EndOf(txt, j) /\ txt[j] \in Embeddings
      BY <1>1 DEF EmbeddingsAfter
    <3>3. \A m \in j..(x - 1) : IsolatesOf(txt, j) \subseteq IsolatesOf(txt, m)
      BY <2>1, <3>1, <3>2, EndBeyond
    <3>4. QED
      BY <2>1, <3>3
  <2>3. IsolatesOf(txt, x - 1) \subseteq I
    BY <1>1 DEF IsolatesOf, IsolatesAfter
  <2>4. \A k \in IsolatesOf(txt, j) : k < j
    BY <2>1 DEF IsolatesOf
  <2>5. ASSUME NEW k \in I, k < j PROVE k \in IsolatesOf(txt, j)
    <3>1. k \in 1..(x - 1) /\ txt[k] \in Initiators /\ x - 1 < PDIof(txt, k)
      BY <1>1 DEF IsolatesAfter
    <3>2. PICK h : h = Tally(PositionsIn(txt, Initiators), PositionsIn(txt, {"PDI"}), n)
      OBVIOUS
    <3>3. k \in PositionsIn(txt, Initiators) /\ x - 1 \in k..n /\ j \in k..n
      BY <2>1, <2>5, <3>1 DEF PositionsIn
    <3>4. OpenTo(h, k, x - 1)
      BY <3>1, <3>2, <3>3, PDIBeyond
    <3>5. OpenTo(h, k, j)
      BY <2>1, <3>4 DEF OpenTo
    <3>6. j < PDIof(txt, k)
      BY <3>2, <3>3, <3>5, PDIBeyond
    <3>7. QED
      BY <2>1, <2>5, <3>1, <3>6 DEF IsolatesOf
  <2>6. QED
    BY <2>2, <2>3, <2>4, <2>5
<1>8. \A j : j \in EmbeddingsAfter(txt, x) <=>
        \/ /\ j \in E /\ IsolatesOf(txt, j) \subseteq J
           /\ txt[x] = "PDF" /\ J = IsolatesOf(txt, j) =>
                \E k \in E : IsolatesOf(txt, k) = IsolatesOf(txt, j) /\ j < k
        \/ j = x /\ txt[x] \in Embeddings
  BY <1>1, <1>5, EmbeddingsOneMore
<1>9. \A j \in I : Stays(txt, x, O, j) <=> (txt[x] = "PDI" => \E k \in I : j < k)
  <2>1. TAKE j \in I
  <2>2. (\E g \in O : txt[g] \in Initiators /\ j < g) <=> \E k \in I : j < k
    BY <1>2, <1>3
  <2>3. ~(\A g \in O : txt[g] \notin Initiators)
    BY <1>2, <1>3
  <2>4. QED
    BY <1>3, <2>2, <2>3 DEF Stays
<1>10. ASSUME NEW j \in E
       PROVE  Stays(txt, x, O, j) <=>
                /\ IsolatesOf(txt, j) \subseteq J
                /\ txt[x] = "PDF" /\ J = IsolatesOf(txt, j) =>
                     \E k \in E : IsolatesOf(txt, k) = IsolatesOf(txt, j) /\ j < k
  <2>1. IsolatesOf(txt, j) = {k \in I : k < j}
    BY <1>7
  <2>2. CASE txt[x] = "PDI"
    <3>1. Stays(txt, x, O, j) <=> I = {} \/ \E g \in I : j < g
      <4>1. (\E g \in O : txt[g] \in Initiators /\ j < g) <=> \E g \in I : j < g
        BY <1>2, <1>3
      <4>2. (\A g \in O : txt[g] \notin Initiators) <=> I = {}
        BY <1>2, <1>3
      <4>3. QED
        BY <2>2, <4>1, <4>2 DEF Stays
    <3>2. ASSUME I = {} \/ \E g \in I : j < g PROVE IsolatesOf(txt, j) \subseteq J
      <4>1. SUFFICES ASSUME NEW k \in I, k < j PROVE \E g \in I : k < g
        BY <1>6, <2>1
      <4>2. PICK g \in I : j < g
        BY <3>2
      <4>3. k \in Nat /\ j \in Nat /\ g \in Nat
        BY <1>3
      <4>4. k < g
        BY <4>1, <4>2, <4>3
      <4>5. QED
        BY <4>4
    <3>3. ASSUME IsolatesOf(txt, j) \subseteq J, I # {} PROVE \E g \in I : j < g
      <4>1. I \subseteq 0..n
        BY <1>3
      <4>2. PICK g \in I : \A y \in I : y <= g
        BY <3>3, <4>1, HasGreatest
      <4>3. g \notin J
        <5>1. \A k \in I : ~(g < k)
          BY <1>3, <4>2
        <5>2. QED
          BY <1>6, <2>2, <5>1
      <4>4. ~(g < j)
        BY <2>1, <3>3, <4>3
      <4>5. g # j /\ g \in Nat /\ j \in Nat
        BY <1>3
      <4>6. j < g
        BY <4>4, <4>5
      <4>7. QED
        BY <4>6
    <3>4. txt[x] # "PDF"
      BY <2>2
    <3>5. QED
      BY <3>1, <3>2, <3>3, <3>4
  <2>3. CASE txt[x] # "PDI"
    <3>1. J = I
      BY <1>6, <2>3
    <3>2. IsolatesOf(txt, j) \subseteq J
      BY <2>1, <3>1
    <3>3. CASE txt[x] = "PDF"
      <4>1. Stays(txt, x, O, j) <=> \E k \in O : j < k
        BY <1>3, <3>3 DEF Stays
      <4>2. ASSUME NEW k \in O, j < k, I = {y \in I : y < j}
            PROVE  \E y \in E : IsolatesOf(txt, y) = IsolatesOf(txt, j) /\ j < y
        <5>1. k \notin I
          <6>1. k \in I => k < j /\ k \in Nat /\ j \in Nat
            BY <1>3, <4>2
          <6>2. QED
            BY <4>2, <6>1
        <5>2. k \in E
          BY <1>2, <5>1
        <5>3. \A y \in I : y < k
          <6>1. TAKE y \in I
          <6>2. y < j /\ y \in Nat /\ j \in Nat /\ k \in Nat
            BY <1>3, <4>2, <5>2
          <6>3. QED
            BY <4>2, <6>2
        <5>4. IsolatesOf(txt, k) = I
          BY <1>7, <5>2, <5>3
        <5>5. IsolatesOf(txt, k) = IsolatesOf(txt, j)
          BY <2>1, <4>2, <5>4
        <5>6. QED
          BY <4>2, <5>2, <5>5
      <4>3. ASSUME I # {y \in I : y < j} PROVE \E k \in O : j < k
        <5>1. PICK k \in I : ~(k < j)
          BY <4>3
        <5>2. k # j /\ k \in Nat /\ j \in Nat /\ k \in O
          BY <1>2, <1>3
        <5>3. j < k
          BY <5>1, <5>2
        <5>4. QED
          BY <5>2, <5>3
      <4>4. (\E k \in E : IsolatesOf(txt, k) = IsolatesOf(txt, j) /\ j < k) => \E k \in O : j < k
        BY <1>2
      <4>5. QED
        BY <2>1, <3>1, <3>2, <3>3, <4>1, <4>2, <4>3, <4>4
    <3>4. CASE txt[x] # "PDF"
      BY <2>3, <3>2, <3>4 DEF Stays
    <3>5. QED
      BY <3>3, <3>4
  <2>4. QED
    BY <2>2, <2>3
<1>11. \A j : j \in After(txt, x) <=> j \in IsolatesAfter(txt, x) \/ j \in EmbeddingsAfter(txt, x)
  BY DEF After
<1>12. TAKE j
<1>13. CASE j \in I
  <2>1. j # x /\ j \notin E /\ j \in O
    BY <1>2, <1>3, <1>13
  <2>2. QED
    BY <1>4, <1>8, <1>9, <1>11, <1>13, <2>1
<1>14. CASE j \in E
  <2>1. j # x /\ j \notin I /\ j \in O
    BY <1>2, <1>3, <1>14
  <2>2. QED
    BY <1>4, <1>8, <1>10, <1>11, <1>14, <2>1
<1>15. CASE j \notin I /\ j \notin E
  <2>1. j \notin O
    BY <1>2, <1>15
  <2>2. QED
    BY <1>4, <1>8, <1>11, <1>15, <2>1, TypesDiffer
<1>16. QED
  BY <1>13, <1>14, <1>15

LEMMA AfterType ==
  ASSUME NEW txt, NEW i
  PROVE  /\ After(txt, i) \subseteq 1..i
         /\ \A j \in After(txt, i) : txt[j] \in Openings
         /\ After(txt, 0) = {}
  BY TypesDiffer DEF After, IsolatesAfter, EmbeddingsAfter

(* What is open closes in the reverse order.                               *)
LEMMA AfterNests ==
  ASSUME NEW txt, NEW n \in Nat, n = Len(txt)
  PROVE  \A i \in 0..n : \A k \in After(txt, i) : AroundOf(txt, k) = {j \in After(txt, i) : j < k}
<1>1. PICK T : T = {i \in 0..n : \A k \in After(txt, i) : AroundOf(txt, k) = {j \in After(txt, i) : j < k}}
  OBVIOUS
<1>2. ASSUME NEW i \in 0..n, \A j \in 0..(i - 1) : j \in T PROVE i \in T
  <2>1. CASE i = 0
    BY <1>1, <2>1, AfterType
  <2>2. CASE i # 0
    <3>1. i \in 1..n /\ i - 1 \in 0..n /\ i - 1 \in 0..(i - 1)
      BY <2>2
    <3>2. PICK O : O = After(txt, i - 1)
      OBVIOUS
    <3>3. \A k \in O : AroundOf(txt, k) = {j \in O : j < k}
      BY <1>1, <1>2, <3>1, <3>2
    <3>4. \A j : j \in After(txt, i) <=> (j \in O /\ Stays(txt, i, O, j)) \/ (j = i /\ txt[i] \in Openings)
      BY <3>1, <3>2, AfterOneMore
    <3>5. O \subseteq 1..(i - 1)
      BY <3>2, AfterType
    <3>6. ASSUME NEW k \in After(txt, i) PROVE AroundOf(txt, k) = {j \in After(txt, i) : j < k}
      <4>1. CASE k = i
        BY <4>1 DEF AroundOf
      <4>2. CASE k # i
        <5>0. k \in O /\ Stays(txt, i, O, k)
          BY <3>4, <4>2
        <5>1. k \in O /\ Stays(txt, i, O, k) /\ k < i /\ k \in Nat
          BY <3>5, <5>0
        <5>2. ASSUME NEW j \in O, j < k PROVE Stays(txt, i, O, j)
          <6>1. \A g \in O : k < g => j < g
            BY <3>5, <5>1, <5>2
          <6>2. QED
            BY <5>1, <5>2, <6>1 DEF Stays
        <5>3. \A j : j \in O /\ j < k <=> j \in After(txt, i) /\ j < k
          <6>1. TAKE j
          <6>2. j = i => ~(j < k) /\ j \notin O
            BY <3>5, <5>1
          <6>3. CASE j \in O /\ j < k
            BY <3>4, <5>2, <6>2, <6>3
          <6>4. CASE j \in After(txt, i) /\ j < k
            BY <3>4, <6>2, <6>4
          <6>5. QED
            BY <6>3, <6>4
        <5>4. QED
          BY <3>3, <5>1, <5>3
      <4>3. QED
        BY <4>1, <4>2
    <3>7. QED
      BY <1>1, <3>6
  <2>3. QED
    BY <2>1, <2>2
<1>3. \A i \in 0..n : i \in T
  BY <1>2, Upwards
<1>4. QED
  BY <1>1, <1>3

-----------------------------------------------------------------------------
(* Rule X5c: the level of an FSI by its links is that by its positions.    *)

LEMMA PDIFacts ==
  ASSUME NEW txt, NEW n \in Nat, n = Len(txt), NEW j \in 1..n, txt[j] \in Initiators
  PROVE  /\ PDIof(txt, j) \in (j + 1)..(n + 1)
         /\ PDIof(txt, j) <= n => txt[PDIof(txt, j)] = "PDI"
<1>1. PICK p : p = PDIof(txt, j)
  OBVIOUS
<1>2. p \in (j + 1)..(n + 1)
  <2>1. PICK X : X = {m \in (j + 1)..n :
         Cardinality({k \in j..m : txt[k] \in Initiators}) = Cardinality({k \in j..m : txt[k] \in {"PDI"}})}
    OBVIOUS
  <2>2. PICK S : S = {n + 1} \cup X
    OBVIOUS
  <2>3. p = Min(S)
    BY <1>1, <2>1, <2>2 DEF PDIof
  <2>4. S \subseteq (j + 1)..(n + 1) /\ S \subseteq Nat /\ S # {}
    BY <2>1, <2>2
  <2>5. p \in S
    BY <2>3, <2>4, MinIs
  <2>6. QED
    BY <2>4, <2>5
<1>3. ASSUME p <= n PROVE txt[p] = "PDI"
  <2>1. PICK I : I = IsolatesAfter(txt, p - 1)
    OBVIOUS
  <2>2. p \in 1..n /\ j # p
    BY <1>2, <1>3
  <2>3. j \in I
    BY <1>1, <1>2, <2>1 DEF IsolatesAfter
  <2>4. j \notin IsolatesAfter(txt, p)
    BY <1>1, <1>2 DEF IsolatesAfter
  <2>5. j \in IsolatesAfter(txt, p) <=>
          \/ j \in I /\ (txt[p] = "PDI" => \E k \in I : j < k)
          \/ j = p /\ txt[p] \in Initiators
    BY <2>1, <2>2, IsolatesOneMore
  <2>6. QED
    BY <2>3, <2>4, <2>5
<1>4. QED
  BY <1>1, <1>2, <1>3

(* From l on the links and their types are those of the text.              *)
AgreesFrom(links, typeOf, txt, l) ==
  /\ links \subseteq 1..(Len(txt) + 1)
  /\ \A m \in l..(Len(txt) + 1) : m \in links <=> m \in Populated(txt)
  /\ \A m \in links : l <= m => typeOf[m] = TypesOf(txt)[m]

LEMMA AgreesIs ==
  ASSUME NEW txt, NEW n \in Nat, n = Len(txt), NEW l \in 1..(n + 1), NEW links, NEW typeOf,
         AgreesFrom(links, typeOf, txt, l)
  PROVE  /\ links \subseteq 1..(n + 1) /\ n + 1 \in links
         /\ \A m \in links : l <= m /\ m <= n => typeOf[m] = txt[m]
         /\ n + 1 \in links /\ typeOf[n + 1] = "Nil"
         /\ \A m \in l..n : txt[m] \in SingleTypes \/ m = 1 \/ txt[m] # txt[m - 1] => m \in links
         /\ \A m \in l..n : m \in links => txt[m] \in SingleTypes \/ m = 1 \/ txt[m] # txt[m - 1]
<1>1. \A m \in l..n : m \in Populated(txt) <=> txt[m] \in SingleTypes \/ m = 1 \/ txt[m] # txt[m - 1]
  BY DEF Populated
<1>2. n + 1 \in Populated(txt)
  BY DEF Populated
<1>3. \A m \in 1..(n + 1) : TypesOf(txt)[m] = IF m \in 1..n THEN txt[m] ELSE "Nil"
  BY DEF TypesOf
<1>4. n + 1 \in links
  BY <1>2 DEF AgreesFrom
<1>5. typeOf[n + 1] = "Nil"
  <2>1. TypesOf(txt)[n + 1] = "Nil"
    BY <1>3
  <2>2. QED
    BY <1>4, <2>1 DEF AgreesFrom
<1>6. \A m \in l..n : m \in links <=> m \in Populated(txt)
  BY DEF AgreesFrom
<1>7. links \subseteq 1..(n + 1)
  BY DEF AgreesFrom
<1>8. \A m \in links : l <= m /\ m <= n => typeOf[m] = txt[m]
  BY <1>3, <1>7 DEF AgreesFrom
<1>9. QED
  BY <1>1, <1>4, <1>5, <1>6, <1>7, <1>8

LEMMA SinglesAre ==
  /\ "PDI" \in SingleTypes /\ "PDF" \in SingleTypes /\ "B" \in SingleTypes /\ "ON" \in SingleTypes
  /\ Openings \subseteq SingleTypes
  BY DEF SingleTypes, BidiTypes, Openings, Initiators, Embeddings

(* What is counted, by links and by positions.                             *)
AmongLinks(links, typeOf, i, y, which) == {k \in links : i <= k /\ k <= y /\ typeOf[k] \in which}
AmongPositions(txt, i, z, which) == {k \in i..z : txt[k] \in which}

LEMMA ClosedBeforeIs ==
  ASSUME NEW txt, NEW n \in Nat, n = Len(txt), NEW i \in 1..n, txt[i] \in Initiators,
         NEW links, NEW typeOf, AgreesFrom(links, typeOf, txt, i), NEW m \in links
  PROVE  SkipIsolatingRun(links, typeOf, i) \in 1..(m - 1) <=> PDIof(txt, i) < m
<1>1. /\ links \subseteq 1..(n + 1)
      /\ \A y \in links : i <= y /\ y <= n => typeOf[y] = txt[y]
      /\ typeOf[n + 1] = "Nil" /\ n + 1 \in links
      /\ \A y \in i..n : txt[y] \in SingleTypes => y \in links
  BY AgreesIs
<1>2. PICK p : p = PDIof(txt, i)
  OBVIOUS
<1>3. p \in (i + 1)..(n + 1) /\ (p <= n => txt[p] = "PDI")
  BY <1>2, PDIFacts
<1>4. ASSUME NEW which, which \subseteq SingleTypes, NEW y \in (i + 1)..(n + 1), NEW z, z = IF y = n + 1 THEN n ELSE y
      PROVE  AmongLinks(links, typeOf, i, y, which) = AmongPositions(txt, i, z, which)
  <2>1. ASSUME NEW k \in links, i <= k, k <= y, typeOf[k] \in which PROVE k \in i..z /\ txt[k] \in which
    <3>1. k # n + 1
      BY <1>1, <1>4, <2>1 DEF SingleTypes, BidiTypes, Embeddings, Initiators
    <3>2. k \in 1..(n + 1)
      BY <1>1
    <3>3. k \in i..z
      BY <1>4, <2>1, <3>1, <3>2
    <3>4. QED
      BY <1>1, <2>1, <3>1, <3>2, <3>3
  <2>2. ASSUME NEW k \in i..z, txt[k] \in which PROVE k \in links /\ i <= k /\ k <= y /\ typeOf[k] \in which
    <3>1. k \in i..n /\ k <= y
      BY <1>4
    <3>2. k \in links
      BY <1>1, <1>4, <2>2, <3>1
    <3>3. QED
      BY <1>1, <2>2, <3>1, <3>2
  <2>3. QED
    BY <2>1, <2>2 DEF AmongLinks, AmongPositions
<1>5. Initiators \subseteq SingleTypes /\ {"PDI"} \subseteq SingleTypes
  BY SinglesAre DEF Openings
<1>6. PICK X : X = {y \in (i + 1)..n :
         Cardinality(AmongPositions(txt, i, y, Initiators)) = Cardinality(AmongPositions(txt, i, y, {"PDI"}))}
  OBVIOUS
<1>7. p = Min({n + 1} \cup X)
  BY <1>2, <1>6 DEF PDIof, AmongPositions
<1>8. (p <= n => p \in X) /\ \A y \in X : p <= y
  <2>1. PICK S : S = {n + 1} \cup X
    OBVIOUS
  <2>2. S \subseteq Nat /\ S # {}
    <3>1. X \subseteq (i + 1)..n
      BY <1>6
    <3>2. n + 1 \in S /\ \A y \in S : y \in (i + 1)..n \/ y = n + 1
      BY <2>1, <3>1
    <3>3. QED
      BY <3>2
  <2>3. p \in S /\ \A y \in S : p <= y
    BY <1>7, <2>1, <2>2, MinIs
  <2>4. p <= n => p # n + 1
    OBVIOUS
  <2>5. p \in S => p = n + 1 \/ p \in X
    BY <2>1
  <2>6. \A y \in X : y \in S
    BY <2>1
  <2>7. QED
    BY <2>3, <2>4, <2>5, <2>6
<1>9. PICK Q : Q = {y \in links : i < y /\ Cardinality(AmongLinks(links, typeOf, i, y, Initiators)) =
                                        Cardinality(AmongLinks(links, typeOf, i, y, {"PDI"}))}
  OBVIOUS
<1>10. SkipIsolatingRun(links, typeOf, i) = IF Q = {} THEN None ELSE Min(Q)
  BY <1>9 DEF SkipIsolatingRun, AmongLinks
<1>11. ASSUME NEW y \in links, y \in (i + 1)..n PROVE y \in Q <=> y \in X
  <2>1. PICK z : z = IF y = n + 1 THEN n ELSE y
    OBVIOUS
  <2>2. z = y /\ y \in (i + 1)..(n + 1)
    BY <1>11, <2>1
  <2>3. /\ AmongLinks(links, typeOf, i, y, Initiators) = AmongPositions(txt, i, y, Initiators)
        /\ AmongLinks(links, typeOf, i, y, {"PDI"}) = AmongPositions(txt, i, y, {"PDI"})
    BY <1>4, <1>5, <2>1, <2>2
  <2>4. QED
    BY <1>6, <1>9, <1>11, <2>3
<1>12. ASSUME n + 1 \in Q PROVE n \in X
  <2>1. PICK y, z : y = n + 1 /\ z = IF y = n + 1 THEN n ELSE y
    OBVIOUS
  <2>2. z = n /\ y \in (i + 1)..(n + 1)
    BY <2>1
  <2>3. /\ AmongLinks(links, typeOf, i, y, Initiators) = AmongPositions(txt, i, n, Initiators)
        /\ AmongLinks(links, typeOf, i, y, {"PDI"}) = AmongPositions(txt, i, n, {"PDI"})
    BY <1>4, <1>5, <2>1, <2>2
  <2>4. Cardinality(AmongPositions(txt, i, n, Initiators)) = Cardinality(AmongPositions(txt, i, n, {"PDI"}))
    BY <1>9, <1>12, <2>1, <2>3
  <2>5. n # i
    <3>1. SUFFICES ASSUME n = i PROVE FALSE
      OBVIOUS
    <3>2. AmongPositions(txt, i, n, Initiators) = {i} /\ AmongPositions(txt, i, n, {"PDI"}) = {}
      <4>1. \A k \in i..n : k = i
        BY <3>1
      <4>2. i \in i..n
        OBVIOUS
      <4>3. QED
        BY <4>1, <4>2, TypesDiffer DEF AmongPositions
    <3>3. Cardinality({i}) = 1 /\ Cardinality({}) = 0
      BY FS_Singleton, FS_EmptySet
    <3>4. Cardinality({i}) = Cardinality({})
      BY <2>4, <3>2
    <3>5. 1 # 0
      OBVIOUS
    <3>6. QED
      BY <3>3, <3>4, <3>5
  <2>6. n \in (i + 1)..n
    BY <2>5
  <2>7. QED
    BY <1>6, <2>4, <2>6
<1>13. CASE p <= n
  <2>1. p \in i..n /\ p \in (i + 1)..n
    BY <1>3, <1>13
  <2>2. p \in links
    BY <1>1, <1>3, <1>13, <2>1, SinglesAre
  <2>3. p \in Q
    BY <1>8, <1>11, <1>13, <2>1, <2>2
  <2>4. ASSUME NEW y \in Q PROVE p <= y
    <3>1. y \in links /\ i < y /\ y \in 1..(n + 1)
      BY <1>1, <1>9
    <3>2. CASE y = n + 1
      BY <1>13, <2>1, <3>2
    <3>3. CASE y # n + 1
      <4>1. y \in (i + 1)..n
        BY <3>1, <3>3
      <4>2. QED
        BY <1>8, <1>11, <3>1, <4>1
    <3>4. QED
      BY <3>2, <3>3
  <2>5. Q \subseteq Nat /\ Q # {}
    <3>1. \A y \in Q : y \in links
      BY <1>9
    <3>2. \A y \in Q : y \in Nat
      <4>1. \A y \in links : y \in 1..(n + 1)
        BY <1>1
      <4>2. \A y \in 1..(n + 1) : y \in Nat
        OBVIOUS
      <4>3. QED
        BY <3>1, <4>1, <4>2
    <3>3. QED
      BY <2>3, <3>2
  <2>6. Min(Q) \in Q /\ \A y \in Q : Min(Q) <= y
    BY <2>5, MinIs
  <2>7. p \in Nat /\ Min(Q) \in Nat /\ p <= Min(Q) /\ Min(Q) <= p
    BY <2>1, <2>3, <2>4, <2>5, <2>6
  <2>8. SkipIsolatingRun(links, typeOf, i) = p
    <3>1. Min(Q) = p
      BY <2>7
    <3>2. QED
      BY <1>10, <2>5, <3>1
  <2>9. m \in 1..(n + 1)
    BY <1>1
  <2>10. QED
    BY <1>2, <2>1, <2>8, <2>9
<1>14. CASE ~(p <= n)
  <2>1. p = n + 1 /\ n \notin X
    BY <1>3, <1>8, <1>14
  <2>2. Q = {}
    <3>1. SUFFICES ASSUME NEW y \in Q PROVE FALSE
      OBVIOUS
    <3>2. y \in links /\ i < y /\ y \in 1..(n + 1) /\ y # n + 1
      BY <1>1, <1>9, <1>12, <2>1
    <3>3. y \in (i + 1)..n
      BY <3>2
    <3>4. y \in X
      BY <1>11, <3>2, <3>3
    <3>5. QED
      BY <1>8, <2>1, <3>3, <3>4
  <2>3. SkipIsolatingRun(links, typeOf, i) = 0 /\ m \in 1..(n + 1)
    BY <1>1, <1>10, <2>2 DEF None
  <2>4. QED
    BY <1>2, <2>1, <2>3
<1>15. QED
  BY <1>13, <1>14

(* The strong positions in an isolate but in no inner one.                 *)
StrongIn(txt, i) ==
  {k \in (i + 1)..(PDIof(txt, i) - 1) :
     txt[k] \in {"L", "R"} /\ IsolatesOf(txt, k) = IsolatesOf(txt, i) \cup {i}}

IsRTLIsolateOf(txt, i) == StrongIn(txt, i) # {} /\ txt[Min(StrongIn(txt, i))] = "R"

(* The links that the search for the level of an isolate comes to.         *)
ReachedFrom(txt, links, g) ==
  {m \in links : m > g /\ \A i \in links : g < i /\ i < m /\ i <= Len(txt) /\ txt[i] \in Initiators =>
                              PDIof(txt, i) < m}

EndingFrom(txt, links, typeOf, g) ==
  {m \in ReachedFrom(txt, links, g) : typeOf[m] \in {"L", "R", "PDI"}}

EndsRTL(typeOf, ending) == ending # {} /\ typeOf[Min(ending)] = "R"

LEMMA BaseLevelReaches ==
  ASSUME NEW txt, NEW n \in Nat, n = Len(txt), NEW g \in 1..n,
         NEW links, NEW typeOf, AgreesFrom(links, typeOf, txt, g), NEW ending,
         ending = EndingFrom(txt, links, typeOf, g)
  PROVE  DetermineBaseLevel(links, typeOf, g, 0, TRUE) = 1 <=> EndsRTL(typeOf, ending)
<1>1. /\ links \subseteq 1..(n + 1)
      /\ \A y \in links : g <= y /\ y <= n => typeOf[y] = txt[y]
      /\ typeOf[n + 1] = "Nil"
  BY AgreesIs
<1>2. ASSUME NEW i \in links, g < i
      PROVE  typeOf[i] \in Initiators <=> i <= n /\ txt[i] \in Initiators
  <2>1. i \in 1..(n + 1)
    BY <1>1
  <2>2. CASE i = n + 1
    BY <1>1, <2>2 DEF Initiators
  <2>3. CASE i # n + 1
    BY <1>1, <1>2, <2>1, <2>3
  <2>4. QED
    BY <2>2, <2>3
<1>3. ASSUME NEW i \in links, g < i, typeOf[i] \in Initiators, NEW m \in links
      PROVE  SkipIsolatingRun(links, typeOf, i) \in 1..(m - 1) <=> PDIof(txt, i) < m
  <2>1. i \in 1..n /\ txt[i] \in Initiators
    BY <1>1, <1>2, <1>3
  <2>2. AgreesFrom(links, typeOf, txt, i)
    <3>1. \A y \in i..(n + 1) : y \in g..(n + 1)
      BY <1>3, <2>1
    <3>2. \A y \in links : i <= y => g <= y
      BY <1>1, <1>3, <2>1
    <3>3. QED
      BY <3>1, <3>2 DEF AgreesFrom
  <2>3. QED
    BY <2>1, <2>2, ClosedBeforeIs
<1>4. {m \in links : m > g /\
         \A i \in links : g < i /\ i < m /\ typeOf[i] \in Initiators =>
           SkipIsolatingRun(links, typeOf, i) \in 1..(m - 1)} = ReachedFrom(txt, links, g)
  <2>1. ASSUME NEW m \in links
        PROVE  (\A i \in links : g < i /\ i < m /\ typeOf[i] \in Initiators =>
                  SkipIsolatingRun(links, typeOf, i) \in 1..(m - 1)) <=>
               (\A i \in links : g < i /\ i < m /\ i <= n /\ txt[i] \in Initiators => PDIof(txt, i) < m)
    <3>1. \A i \in links :
            (g < i /\ i < m /\ typeOf[i] \in Initiators => SkipIsolatingRun(links, typeOf, i) \in 1..(m - 1))
            <=> (g < i /\ i < m /\ i <= n /\ txt[i] \in Initiators => PDIof(txt, i) < m)
      BY <1>2, <1>3
    <3>2. QED
      BY <3>1
  <2>2. QED
    BY <2>1 DEF ReachedFrom
<1>5. PICK reached : reached = ReachedFrom(txt, links, g)
  OBVIOUS
<1>6. {m \in reached : typeOf[m] \in {"L", "R"} \/ (typeOf[m] = "PDI" /\ TRUE)} = ending
  BY <1>5 DEF EndingFrom
<1>7. DetermineBaseLevel(links, typeOf, g, 0, TRUE) =
        CASE ending # {} /\ typeOf[Min(ending)] = "L" -> 0
          [] ending # {} /\ typeOf[Min(ending)] = "R" -> 1
          [] OTHER -> 0
  BY <1>4, <1>5, <1>6 DEF DetermineBaseLevel
<1>8. PICK t, d : t = typeOf[Min(ending)] /\ d = DetermineBaseLevel(links, typeOf, g, 0, TRUE)
  OBVIOUS
<1>9. CASE ending # {} /\ t = "R"
  <2>1. DetermineBaseLevel(links, typeOf, g, 0, TRUE) = 1
    BY <1>7, <1>8, <1>9
  <2>2. QED
    BY <1>8, <1>9, <2>1 DEF EndsRTL
<1>10. CASE ~(ending # {} /\ t = "R")
  <2>1. d = 0
    BY <1>7, <1>8, <1>10
  <2>2. d # 1
    BY <2>1
  <2>3. QED
    BY <1>8, <1>10, <2>2 DEF EndsRTL
<1>11. QED
  BY <1>9, <1>10

LEMMA IsolateLevelIs ==
  ASSUME NEW txt, NEW n \in Nat, n = Len(txt), NEW g \in 1..n, txt[g] \in Initiators,
         NEW links, NEW typeOf, AgreesFrom(links, typeOf, txt, g)
  PROVE  DetermineBaseLevel(links, typeOf, g, 0, TRUE) = 1 <=> IsRTLIsolateOf(txt, g)
<1>1. /\ links \subseteq 1..(n + 1)
      /\ \A y \in links : g <= y /\ y <= n => typeOf[y] = txt[y]
      /\ typeOf[n + 1] = "Nil"
      /\ \A y \in g..n : txt[y] \in SingleTypes \/ y = 1 \/ txt[y] # txt[y - 1] => y \in links
  <2>1. g \in 1..(n + 1)
    OBVIOUS
  <2>2. QED
    BY <2>1, AgreesIs, SMTT(40)
<1>2. PICK p : p = PDIof(txt, g)
  OBVIOUS
<1>3. p \in (g + 1)..(n + 1) /\ (p <= n => txt[p] = "PDI")
  BY <1>2, PDIFacts
<1>4. PICK reached, ending : /\ reached = ReachedFrom(txt, links, g)
                             /\ ending = {m \in reached : typeOf[m] \in {"L", "R", "PDI"}}
  OBVIOUS
<1>5. DetermineBaseLevel(links, typeOf, g, 0, TRUE) = 1 <=> ending # {} /\ typeOf[Min(ending)] = "R"
  <2>1. ending = EndingFrom(txt, links, typeOf, g)
    BY <1>4 DEF EndingFrom
  <2>2. DetermineBaseLevel(links, typeOf, g, 0, TRUE) = 1 <=> EndsRTL(typeOf, ending)
    BY <2>1, BaseLevelReaches
  <2>3. QED
    BY <2>2 DEF EndsRTL
<1>6. PICK strong : strong = StrongIn(txt, g)
  OBVIOUS
<1>7. \A k \in strong : k \in (g + 1)..(p - 1) /\ txt[k] \in {"L", "R"}
                        /\ IsolatesOf(txt, k) = IsolatesOf(txt, g) \cup {g}
  BY <1>2, <1>6 DEF StrongIn
<1>8. \A i \in 1..n : txt[i] \in Initiators => /\ PDIof(txt, i) \in (i + 1)..(n + 1)
                                               /\ PDIof(txt, i) <= n => txt[PDIof(txt, i)] = "PDI"
  BY PDIFacts
<1>9. \A m \in reached : m \in links /\ m > g /\ m \in 1..(n + 1)
                         /\ \A i \in links : g < i /\ i < m /\ i <= n /\ txt[i] \in Initiators => PDIof(txt, i) < m
  BY <1>1, <1>4 DEF ReachedFrom
<1>10. \A i \in g..n : txt[i] \in Initiators => i \in links
  BY <1>1, SinglesAre DEF Openings
<1>11. ASSUME NEW m \in ending, m < p, typeOf[m] \in {"L", "R"} PROVE m \in strong
  <2>1. m \in (g + 1)..(p - 1) /\ m \in 1..n /\ m \in links
    BY <1>3, <1>4, <1>9, <1>11
  <2>2. txt[m] \in {"L", "R"}
    BY <1>1, <1>11, <2>1
  <2>3. ASSUME NEW j \in IsolatesOf(txt, m) PROVE j \in IsolatesOf(txt, g) \cup {g}
    <3>1. j \in 1..(m - 1) /\ txt[j] \in Initiators /\ m < PDIof(txt, j) /\ j \in 1..n
      BY <2>1, <2>3 DEF IsolatesOf
    <3>2. ~(g < j)
      <4>1. SUFFICES ASSUME g < j PROVE FALSE
        OBVIOUS
      <4>0. j \in g..n /\ j < m /\ j <= n
        BY <2>1, <3>1, <4>1
      <4>2. j \in links /\ j < m /\ j <= n
        BY <1>10, <3>1, <4>0
      <4>3. PDIof(txt, j) < m /\ PDIof(txt, j) \in (j + 1)..(n + 1)
        BY <1>4, <1>8, <1>9, <3>1, <4>1, <4>2
      <4>4. QED
        BY <2>1, <3>1, <4>3
    <3>3. CASE j < g
      <4>1. g < PDIof(txt, j)
        BY <1>8, <2>1, <3>1
      <4>2. QED
        BY <3>1, <3>3, <4>1 DEF IsolatesOf
    <3>4. QED
      BY <3>1, <3>2, <3>3
  <2>4. ASSUME NEW j \in IsolatesOf(txt, g) \cup {g} PROVE j \in IsolatesOf(txt, m)
    <3>1. g \in IsolatesOf(txt, m)
      BY <1>2, <1>11, <2>1 DEF IsolatesOf
    <3>2. CASE j # g
      <4>1. j \in 1..(g - 1) /\ txt[j] \in Initiators /\ g < PDIof(txt, j)
        BY <2>4, <3>2 DEF IsolatesOf
      <4>2. g \in After(txt, m)
        BY <1>2, <1>11, <2>1 DEF After, IsolatesAfter
      <4>3. AroundOf(txt, g) = {k \in After(txt, m) : k < g}
        BY <2>1, <4>2, AfterNests
      <4>4. j \in AroundOf(txt, g)
        BY <4>1 DEF AroundOf, After, IsolatesAfter
      <4>5. j \in After(txt, m)
        BY <4>3, <4>4
      <4>6. j \in 1..m /\ m < PDIof(txt, j)
        BY <4>1, <4>5, TypesDiffer DEF After, IsolatesAfter, EmbeddingsAfter
      <4>7. QED
        BY <2>1, <4>1, <4>6 DEF IsolatesOf
    <3>3. QED
      BY <3>1, <3>2
  <2>5. IsolatesOf(txt, m) = IsolatesOf(txt, g) \cup {g}
    BY <2>3, <2>4
  <2>6. QED
    BY <1>2, <1>6, <2>1, <2>2, <2>5 DEF StrongIn
<1>12. ASSUME NEW k \in strong, \A y \in strong : k <= y PROVE k \in ending
  <2>1. k \in (g + 1)..(p - 1) /\ k \in 2..n /\ k - 1 \in 1..n /\ txt[k] \in {"L", "R"}
        /\ IsolatesOf(txt, k) = IsolatesOf(txt, g) \cup {g}
    BY <1>3, <1>7
  <2>2. k \in links
    <3>1. SUFFICES ASSUME txt[k] = txt[k - 1] PROVE FALSE
      BY <1>1, <2>1
    <3>2. k - 1 # g /\ txt[k - 1] \in {"L", "R"}
      BY <2>1, <3>1, TypesDiffer DEF Initiators
    <3>3. k - 1 \in (g + 1)..(p - 1)
      BY <1>3, <2>1, <3>2
    <3>4. PICK I : I = IsolatesAfter(txt, k - 1)
      OBVIOUS
    <3>5. \A j : j \in IsolatesAfter(txt, k) <=> j \in I
      <4>1. txt[k] # "PDI" /\ txt[k] \notin Initiators
        BY <2>1 DEF Initiators
      <4>2. QED
        BY <2>1, <3>4, <4>1, IsolatesOneMore
    <3>6. IsolatesOf(txt, k) = I
      <4>1. IsolatesOf(txt, k) = {j \in IsolatesAfter(txt, k) : j < k}
        BY <2>1, IsolatesOfIs
      <4>2. \A j \in I : j < k
        BY <2>1, <3>4 DEF IsolatesAfter
      <4>3. QED
        BY <3>5, <4>1, <4>2
    <3>7. IsolatesOf(txt, k - 1) = I
      <4>1. IsolatesOf(txt, k - 1) = {j \in I : j < k - 1}
        BY <2>1, <3>4, IsolatesOfIs
      <4>2. txt[k - 1] \notin Initiators
        BY <3>2 DEF Initiators
      <4>3. \A j \in I : j \in 1..(k - 1) /\ j # k - 1
        BY <3>4, <4>2 DEF IsolatesAfter
      <4>4. \A j \in I : j < k - 1
        BY <2>1, <4>3
      <4>5. QED
        BY <4>1, <4>4
    <3>8. k - 1 \in strong
      BY <1>2, <1>6, <2>1, <3>2, <3>3, <3>6, <3>7 DEF StrongIn
    <3>9. QED
      BY <1>12, <2>1, <3>8
  <2>3. ASSUME NEW i \in links, g < i, i < k, i <= n, txt[i] \in Initiators PROVE PDIof(txt, i) < k
    <3>1. i \in 1..n /\ i \in 1..(k - 1)
      BY <1>1, <2>1, <2>3
    <3>2. PDIof(txt, i) \in (i + 1)..(n + 1) /\ PDIof(txt, i) # k
      <4>1. txt[k] # "PDI"
        BY <2>1
      <4>2. QED
        BY <1>8, <2>1, <2>3, <3>1, <4>1
    <3>3. i \notin IsolatesOf(txt, k)
      <4>1. \A j \in IsolatesOf(txt, g) : j < g
        BY DEF IsolatesOf
      <4>2. QED
        BY <2>1, <2>3, <3>1, <4>1
    <3>4. ~(k < PDIof(txt, i))
      BY <2>3, <3>1, <3>3 DEF IsolatesOf
    <3>5. QED
      BY <2>1, <3>2, <3>4
  <2>4. k \in reached
    BY <1>4, <2>1, <2>2, <2>3 DEF ReachedFrom
  <2>5. QED
    BY <1>1, <1>4, <2>1, <2>2, <2>4
<1>13. ASSUME NEW m \in ending, m < p PROVE typeOf[m] \in {"L", "R"}
  <2>1. SUFFICES ASSUME typeOf[m] = "PDI" PROVE FALSE
    BY <1>4
  <2>2. m \in links /\ m \in (g + 1)..n /\ m \in 1..n
    BY <1>3, <1>4, <1>9, <1>13
  <2>3. txt[m] = "PDI"
    BY <1>1, <2>1, <2>2
  <2>4. PICK I : I = IsolatesAfter(txt, m - 1)
    OBVIOUS
  <2>5. g \in I /\ g \in IsolatesAfter(txt, m) /\ g # m
    BY <1>2, <1>3, <1>13, <2>2, <2>4 DEF IsolatesAfter
  <2>6. \A j : j \in IsolatesAfter(txt, m) <=>
          \/ j \in I /\ (txt[m] = "PDI" => \E k \in I : j < k)
          \/ j = m /\ txt[m] \in Initiators
    BY <2>2, <2>4, IsolatesOneMore
  <2>7. PICK k \in I : g < k
    BY <2>3, <2>5, <2>6
  <2>8. I \subseteq 0..n /\ \A j \in I : j \in 1..(m - 1)
    BY <2>2, <2>4 DEF IsolatesAfter
  <2>9. PICK q \in I : \A y \in I : y <= q
    BY <2>7, <2>8, HasGreatest
  <2>10. g < q /\ q \in 1..(m - 1) /\ q \in 1..n
    BY <2>2, <2>7, <2>8, <2>9
  <2>11. q \notin IsolatesAfter(txt, m)
    <3>1. \A y \in I : ~(q < y)
      BY <2>8, <2>9
    <3>2. q # m
      BY <2>10
    <3>3. QED
      BY <2>3, <2>6, <3>1, <3>2
  <2>12. txt[q] \in Initiators /\ m - 1 < PDIof(txt, q)
    BY <2>4 DEF IsolatesAfter
  <2>13. ~(m < PDIof(txt, q))
    BY <2>2, <2>10, <2>11, <2>12 DEF IsolatesAfter
  <2>14. q \in links /\ q < m /\ q <= n
    <3>1. q \in g..n /\ q < m /\ q <= n
      BY <2>2, <2>10
    <3>2. QED
      BY <1>10, <2>12, <3>1
  <2>15. PDIof(txt, q) < m
    BY <1>4, <1>9, <2>10, <2>12, <2>14
  <2>16. PDIof(txt, q) \in Nat
    BY <1>8, <2>10, <2>12
  <2>17. QED
    BY <2>2, <2>12, <2>15, <2>16
<1>14. ASSUME p <= n PROVE p \in ending /\ typeOf[p] = "PDI"
  <2>1. p \in (g + 1)..n /\ p \in g..n /\ p \in 1..n /\ txt[p] = "PDI"
    BY <1>3, <1>14
  <2>2. p \in links /\ typeOf[p] = "PDI"
    BY <1>1, <2>1, SinglesAre
  <2>3. PICK I : I = IsolatesAfter(txt, p - 1)
    OBVIOUS
  <2>4. g \in I /\ g \notin IsolatesAfter(txt, p)
    BY <1>2, <2>1, <2>3 DEF IsolatesAfter
  <2>5. \A j : j \in IsolatesAfter(txt, p) <=>
          \/ j \in I /\ (txt[p] = "PDI" => \E k \in I : j < k)
          \/ j = p /\ txt[p] \in Initiators
    BY <2>1, <2>3, IsolatesOneMore
  <2>6. ~\E k \in I : g < k
    BY <2>1, <2>4, <2>5
  <2>7. ASSUME NEW i \in links, g < i, i < p, i <= n, txt[i] \in Initiators PROVE PDIof(txt, i) < p
    <3>1. i \in 1..n /\ i \in 1..(p - 1)
      BY <1>1, <2>1, <2>7
    <3>2. i \notin I
      BY <2>6, <2>7
    <3>3. ~(p - 1 < PDIof(txt, i))
      BY <2>3, <2>7, <3>1, <3>2 DEF IsolatesAfter
    <3>4. PDIof(txt, i) \in Nat
      BY <1>8, <2>7, <3>1
    <3>5. QED
      BY <2>1, <3>3, <3>4
  <2>8. p \in reached
    BY <1>4, <2>1, <2>2, <2>7 DEF ReachedFrom
  <2>9. QED
    BY <1>4, <2>2, <2>8
<1>15. ending \subseteq Nat /\ ending \subseteq 1..n
  <2>1. ASSUME NEW m \in ending PROVE m \in 1..n
    <3>1. m \in 1..(n + 1) /\ typeOf[m] \in {"L", "R", "PDI"}
      BY <1>4, <1>9
    <3>2. m # n + 1
      BY <1>1, <3>1
    <3>3. QED
      BY <3>1, <3>2
  <2>2. QED
    BY <2>1
<1>16. CASE strong # {}
  <2>1. strong \subseteq Nat
    BY <1>3, <1>7
  <2>2. PICK k : k = Min(strong)
    OBVIOUS
  <2>3. k \in strong /\ \A y \in strong : k <= y
    BY <1>16, <2>1, <2>2, MinIs
  <2>4. k \in ending /\ k < p /\ k \in 1..n /\ g <= k
    BY <1>3, <1>7, <1>12, <2>3
  <2>5. PICK e : e = Min(ending)
    OBVIOUS
  <2>6. e \in ending /\ e <= k
    BY <1>15, <2>4, <2>5, MinIs
  <2>7. e < p /\ e \in Nat
    BY <1>3, <1>15, <2>4, <2>6
  <2>8. e \in strong
    BY <1>11, <1>13, <2>6, <2>7
  <2>9. e = k
    BY <2>3, <2>4, <2>6, <2>7, <2>8
  <2>10. typeOf[e] = txt[k]
    <3>1. k \in links
      BY <1>4, <1>9, <2>4
    <3>2. QED
      BY <1>1, <2>4, <2>9, <3>1
  <2>11. QED
    BY <1>5, <1>6, <1>16, <2>2, <2>4, <2>5, <2>10 DEF IsRTLIsolateOf
<1>17. CASE strong = {}
  <2>1. ~IsRTLIsolateOf(txt, g)
    BY <1>6, <1>17 DEF IsRTLIsolateOf
  <2>2. \A m \in ending : ~(m < p)
    BY <1>11, <1>13, <1>17
  <2>3. ASSUME ending # {} PROVE typeOf[Min(ending)] # "R"
    <3>1. PICK e : e = Min(ending)
      OBVIOUS
    <3>2. e \in ending /\ \A y \in ending : e <= y
      BY <1>15, <2>3, <3>1, MinIs
    <3>3. e \in 1..n /\ ~(e < p)
      BY <1>15, <2>2, <3>2
    <3>4. p <= n
      BY <1>3, <3>3
    <3>5. e <= p /\ typeOf[p] = "PDI"
      BY <1>14, <3>2, <3>4
    <3>6. e = p
      BY <1>3, <3>3, <3>5
    <3>7. QED
      BY <3>1, <3>5, <3>6
  <2>4. QED
    BY <1>5, <2>1, <2>3
<1>18. QED
  BY <1>16, <1>17

-----------------------------------------------------------------------------
(* What an embedding or isolate gives to the text in it.                   *)

ParentOf(txt, i) ==
  Max({None} \cup IsolatesOf(txt, i)
             \cup {j \in 1..(i - 1) : txt[j] \in Embeddings /\ i < EndOf(txt, j)})

TurnsRTL(txt, i) == \/ txt[i] \in {"RLE", "RLO", "RLI"}
                    \/ txt[i] = "FSI" /\ IsRTLIsolateOf(txt, i)

NextLevel(level, isRTL) == CHOOSE n \in {level + 1, level + 2} : (n % 2 = 1) = isRTL

ScopeUnder(outer, txt, i) ==
  LET level == NextLevel(outer.level, TurnsRTL(txt, i))
  IN  IF outer.overflows \/ level > MaxLevel THEN [outer EXCEPT !.overflows = TRUE]
      ELSE [level |-> level, overflows |-> FALSE,
            override |-> CASE txt[i] = "LRO" -> "L"
                           [] txt[i] = "RLO" -> "R"
                           [] OTHER -> "ON"]

ScopeAt(txt, base, scope, i) ==
  IF i = 0 THEN [level |-> base, override |-> "ON", overflows |-> FALSE]
  ELSE ScopeUnder(scope[ParentOf(txt, i)], txt, i)

ScopesOf(txt, base) ==
  LET scope[i \in 0..Len(txt)] == ScopeAt(txt, base, scope, i) IN scope

LEMMA ParentIs ==
  ASSUME NEW txt, NEW x \in Nat, x >= 1
  PROVE  /\ ParentOf(txt, x) = Max({0} \cup AroundOf(txt, x))
         /\ ParentOf(txt, x) \in 0..(x - 1)
         /\ ParentOf(txt, x) \in {0} \cup AroundOf(txt, x)
         /\ \A j \in AroundOf(txt, x) : j <= ParentOf(txt, x)
<1>1. AroundOf(txt, x) = IsolatesOf(txt, x) \cup {j \in 1..(x - 1) : txt[j] \in Embeddings /\ x < EndOf(txt, j)}
  BY DEF AroundOf, After, IsolatesOf, IsolatesAfter, EmbeddingsAfter
<1>2. PICK S : S = {0} \cup AroundOf(txt, x)
  OBVIOUS
<1>3. ParentOf(txt, x) = Max(S)
  <2>1. {None} \cup IsolatesOf(txt, x) \cup {j \in 1..(x - 1) : txt[j] \in Embeddings /\ x < EndOf(txt, j)} = S
    BY <1>1, <1>2 DEF None
  <2>2. QED
    BY <2>1 DEF ParentOf
<1>4. S \subseteq 0..(x - 1) /\ S # {}
  <2>1. \A j \in AroundOf(txt, x) : j \in 1..x /\ j < x
    BY AfterType DEF AroundOf
  <2>2. QED
    BY <1>2, <2>1
<1>5. x - 1 \in Nat
  OBVIOUS
<1>6. Max(S) \in S /\ \A y \in S : y <= Max(S)
  BY <1>4, <1>5, MaxIs
<1>7. QED
  BY <1>2, <1>3, <1>4, <1>6

IsScopes(txt, base, k, f) == f = [i \in 0..k |-> ScopeAt(txt, base, f, i)]

LEMMA ScopesExist ==
  ASSUME NEW txt, NEW n \in Nat, NEW base
  PROVE  \E f : IsScopes(txt, base, n, f)
<1>1. PICK T : T = {k \in 0..n : \E f : IsScopes(txt, base, k, f)}
  OBVIOUS
<1>2. ASSUME NEW k \in 0..n, \A j \in 0..(k - 1) : j \in T PROVE k \in T
  <2>1. CASE k = 0
    <3>1. PICK f : f = [i \in 0..0 |-> ScopeAt(txt, base, <<>>, 0)]
      OBVIOUS
    <3>2. \A i \in 0..0 : i = 0
      OBVIOUS
    <3>3. \A i \in 0..0 : ScopeAt(txt, base, f, i) = ScopeAt(txt, base, <<>>, 0)
      BY <3>2 DEF ScopeAt
    <3>4. IsScopes(txt, base, 0, f)
      BY <3>1, <3>3 DEF IsScopes
    <3>5. QED
      BY <1>1, <2>1, <3>4
  <2>2. CASE k # 0
    <3>1. k - 1 \in 0..(k - 1) /\ k - 1 \in Nat /\ k \in Nat /\ k >= 1
      BY <2>2
    <3>2. PICK g : IsScopes(txt, base, k - 1, g)
      BY <1>1, <1>2, <3>1
    <3>3. PICK s : s = ScopeAt(txt, base, g, k)
      OBVIOUS
    <3>4. PICK f : f = [i \in 0..k |-> IF i = k THEN s ELSE g[i]]
      OBVIOUS
    <3>5. \A i \in 0..(k - 1) : f[i] = g[i]
      BY <3>1, <3>4
    <3>6. ASSUME NEW i \in 0..k PROVE f[i] = ScopeAt(txt, base, f, i)
      <4>1. i # 0 => f[ParentOf(txt, i)] = g[ParentOf(txt, i)]
        <5>1. SUFFICES ASSUME i # 0 PROVE f[ParentOf(txt, i)] = g[ParentOf(txt, i)]
          OBVIOUS
        <5>2. ParentOf(txt, i) \in 0..(i - 1)
          <6>1. i \in Nat /\ i >= 1
            BY <5>1
          <6>2. QED
            BY <6>1, ParentIs
        <5>3. ParentOf(txt, i) \in 0..(k - 1)
          BY <5>2
        <5>4. QED
          BY <3>5, <5>3
      <4>2. ScopeAt(txt, base, f, i) = ScopeAt(txt, base, g, i)
        BY <4>1 DEF ScopeAt
      <4>3. CASE i = k
        BY <3>3, <3>4, <4>2, <4>3
      <4>4. CASE i # k
        <5>1. i \in 0..(k - 1)
          BY <4>4
        <5>2. g[i] = ScopeAt(txt, base, g, i)
          BY <3>2, <5>1 DEF IsScopes
        <5>3. QED
          BY <3>5, <4>2, <5>1, <5>2
      <4>5. QED
        BY <4>3, <4>4
    <3>7. f = [i \in 0..k |-> f[i]]
      BY <3>4
    <3>8. IsScopes(txt, base, k, f)
      BY <3>6, <3>7 DEF IsScopes
    <3>9. QED
      BY <1>1, <3>8
  <2>3. QED
    BY <2>1, <2>2
<1>3. \A k \in 0..n : k \in T
  BY <1>2, Upwards
<1>4. QED
  BY <1>1, <1>3

LEMMA ScopesOfIs ==
  ASSUME NEW txt, NEW n \in Nat, n = Len(txt), NEW base, NEW f, f = ScopesOf(txt, base)
  PROVE  \A i \in 0..n : f[i] = ScopeAt(txt, base, f, i)
<1>1. \E g : IsScopes(txt, base, n, g)
  BY ScopesExist
<1>2. f = CHOOSE g : g = [i \in 0..n |-> ScopeAt(txt, base, g, i)]
  BY DEF ScopesOf
<1>3. f = CHOOSE g : IsScopes(txt, base, n, g)
  BY <1>2 DEF IsScopes
<1>4. IsScopes(txt, base, n, f)
  BY <1>1, <1>3
<1>5. QED
  BY <1>4 DEF IsScopes

IsScope(s) == s = [level |-> s.level, override |-> s.override, overflows |-> s.overflows]

OverrideOf(type) == IF type = "RLO" THEN "R" ELSE IF type = "LRO" THEN "L" ELSE "ON"

LEMMA ScopeUnderIs ==
  ASSUME NEW outer, IsScope(outer), NEW txt, NEW i, NEW s, s = ScopeUnder(outer, txt, i),
         NEW level, level = NextLevel(outer.level, TurnsRTL(txt, i))
  PROVE  /\ IsScope(s)
         /\ outer.overflows \/ level > MaxLevel =>
              s.overflows /\ s.level = outer.level /\ s.override = outer.override
         /\ ~(outer.overflows \/ level > MaxLevel) =>
              ~s.overflows /\ s.level = level /\ s.override = OverrideOf(txt[i])
<1>1. CASE outer.overflows \/ level > MaxLevel
  <2>1. s = [outer EXCEPT !.overflows = TRUE]
    BY <1>1 DEF ScopeUnder
  <2>2. PICK l, o, v : l = outer.level /\ o = outer.override /\ outer = [level |-> l, override |-> o, overflows |-> v]
    BY DEF IsScope
  <2>3. s = [level |-> l, override |-> o, overflows |-> TRUE]
    BY <2>1, <2>2
  <2>4. QED
    BY <1>1, <2>2, <2>3 DEF IsScope
<1>2. CASE ~(outer.overflows \/ level > MaxLevel)
  <2>1. PICK o : o = CASE txt[i] = "LRO" -> "L" [] txt[i] = "RLO" -> "R" [] OTHER -> "ON"
    OBVIOUS
  <2>2. s = [level |-> level, overflows |-> FALSE, override |-> o]
    BY <1>2, <2>1 DEF ScopeUnder
  <2>3. o = OverrideOf(txt[i])
    BY <2>1 DEF OverrideOf
  <2>4. QED
    BY <1>2, <2>2, <2>3 DEF IsScope
<1>3. QED
  BY <1>1, <1>2

LEMMA ScopesAre ==
  ASSUME NEW txt, NEW n \in Nat, n = Len(txt), NEW base, NEW f, f = ScopesOf(txt, base)
  PROVE  \A i \in 0..n : IsScope(f[i])
<1>1. \A i \in 0..n : f[i] = ScopeAt(txt, base, f, i)
  BY ScopesOfIs
<1>2. PICK T : T = {i \in 0..n : IsScope(f[i])}
  OBVIOUS
<1>3. ASSUME NEW i \in 0..n, \A j \in 0..(i - 1) : j \in T PROVE i \in T
  <2>1. CASE i = 0
    <3>1. f[i] = [level |-> base, override |-> "ON", overflows |-> FALSE]
      BY <1>1, <2>1 DEF ScopeAt
    <3>2. QED
      BY <1>2, <3>1 DEF IsScope
  <2>2. CASE i # 0
    <3>1. PICK outer : outer = f[ParentOf(txt, i)]
      OBVIOUS
    <3>2. ParentOf(txt, i) \in 0..(i - 1)
      <4>1. i \in Nat /\ i >= 1
        BY <2>2
      <4>2. QED
        BY <4>1, ParentIs
    <3>3. IsScope(outer)
      BY <1>2, <1>3, <3>1, <3>2
    <3>4. f[i] = ScopeUnder(outer, txt, i)
      BY <1>1, <2>2, <3>1 DEF ScopeAt
    <3>5. IsScope(f[i])
      BY <3>3, <3>4, ScopeUnderIs
    <3>6. QED
      BY <1>2, <3>5
  <2>3. QED
    BY <2>1, <2>2
<1>4. \A i \in 0..n : i \in T
  BY <1>3, Upwards
<1>5. QED
  BY <1>2, <1>4

-----------------------------------------------------------------------------
(* The status stack is what is open and does not exceed the depth.         *)

Entry(f, txt, p) == Status(f[p].level, f[p].override, p # 0 /\ txt[p] \in Initiators)

Mapped(txt, O, f, s, pos) ==
  /\ Len(s) \in Nat /\ Len(s) >= 1
  /\ pos[1] = 0
  /\ \A r \in 2..Len(s) : pos[r] \in O
  /\ \A r \in 1..Len(s) : \A q \in 1..Len(s) : q < r => pos[q] < pos[r]
  /\ \A r \in 1..Len(s) : s[r] = Entry(f, txt, pos[r]) /\ ~f[pos[r]].overflows
  /\ \A k \in O : ~f[k].overflows => \E r \in 2..Len(s) : pos[r] = k
  /\ \A k \in O : f[k].overflows => /\ pos[Len(s)] < k
                                    /\ f[k].level = s[Len(s)].level
                                    /\ f[k].override = s[Len(s)].override

Overflowing(O, f) == {k \in O : f[k].overflows}

IsolatesAmong(txt, W) == {k \in W : txt[k] \in Initiators}
EmbeddingsFirst(txt, W) ==
  {k \in W : txt[k] \in Embeddings /\ \A g \in W : txt[g] \in Initiators => k < g}

NoIsolates(txt, W) == \A k \in W : txt[k] \notin Initiators

Counted(txt, W, over, overEmbedded) ==
  /\ over = Cardinality(IsolatesAmong(txt, W))
  /\ overEmbedded = Cardinality(EmbeddingsFirst(txt, W))

EntryFields ==
  \A f, txt, p : /\ Entry(f, txt, p).level = f[p].level
                 /\ Entry(f, txt, p).override = f[p].override
                 /\ Entry(f, txt, p).isolate <=> p # 0 /\ txt[p] \in Initiators

LEMMA EntryIs == EntryFields
<1>1. SUFFICES ASSUME NEW f, NEW txt, NEW p
               PROVE  /\ Entry(f, txt, p).level = f[p].level
                      /\ Entry(f, txt, p).override = f[p].override
                      /\ Entry(f, txt, p).isolate <=> p # 0 /\ txt[p] \in Initiators
  BY DEF EntryFields
<1>2. PICK a, b, c : a = f[p].level /\ b = f[p].override /\ c = (p # 0 /\ txt[p] \in Initiators)
  OBVIOUS
<1>3. Entry(f, txt, p) = [level |-> a, override |-> b, isolate |-> c]
  BY <1>2 DEF Entry, Status
<1>4. Entry(f, txt, p).level = a
  BY <1>3
<1>5. Entry(f, txt, p).override = b
  BY <1>3
<1>6. Entry(f, txt, p).isolate = c
  BY <1>3
<1>7. Entry(f, txt, p).isolate <=> p # 0 /\ txt[p] \in Initiators
  BY <1>2, <1>6, Zenon
<1>8. QED
  BY <1>2, <1>4, <1>5, <1>7

Innermost(O, m) == m \in {0} \cup O /\ \A k \in O : k <= m
Below(O, g) == {k \in O : k < g}
GivenTop(f, m, s) == f[m].level = s[Len(s)].level /\ f[m].override = s[Len(s)].override
OnTop(O, f, m, s, pos) == Overflowing(O, f) = {} => m = pos[Len(s)]
OverflowsBelow(N, O, f, g) == Overflowing(N, f) = Below(Overflowing(O, f), g)

(* The top is what the innermost opening gives.                            *)
LEMMA TopIsCurrent ==
  ASSUME NEW n \in Nat, NEW txt, NEW O, O \subseteq 1..n, NEW f, NEW s, NEW pos, Mapped(txt, O, f, s, pos),
         NEW m, Innermost(O, m)
  PROVE  /\ GivenTop(f, m, s)
         /\ OnTop(O, f, m, s, pos)
         /\ f[m].overflows <=> Overflowing(O, f) # {}
<1>. SUFFICES /\ f[m].level = s[Len(s)].level /\ f[m].override = s[Len(s)].override
              /\ Overflowing(O, f) = {} => m = pos[Len(s)]
              /\ f[m].overflows <=> Overflowing(O, f) # {}
  BY DEF GivenTop, OnTop
<1>0. m \in {0} \cup O /\ \A k \in O : k <= m
  BY DEF Innermost
<1>1. PICK t \in Nat : t = Len(s) /\ t >= 1
  BY DEF Mapped
<1>2. \A r \in 1..t : s[r].level = f[pos[r]].level /\ s[r].override = f[pos[r]].override
  BY <1>1, EntryIs DEF Mapped, EntryFields
<1>3. pos[1] = 0 /\ ~f[0].overflows
  BY <1>1 DEF Mapped
<1>4. CASE m = 0
  <2>1. O = {}
    <3>1. SUFFICES ASSUME NEW k \in O PROVE FALSE
      OBVIOUS
    <3>2. k <= 0 /\ k \in 1..n
      BY <1>0, <1>4
    <3>3. QED
      BY <3>2
  <2>2. t = 1
    <3>1. SUFFICES ASSUME t # 1 PROVE FALSE
      OBVIOUS
    <3>2. 2 \in 2..t
      BY <1>1, <3>1
    <3>3. QED
      BY <1>1, <2>1, <3>2 DEF Mapped
  <2>3. QED
    BY <1>1, <1>2, <1>3, <1>4, <2>1, <2>2 DEF Overflowing
<1>5. CASE m \in O /\ f[m].overflows
  BY <1>5 DEF Mapped, Overflowing
<1>6. CASE m \in O /\ ~f[m].overflows
  <2>1. PICK r \in 2..t : pos[r] = m
    BY <1>1, <1>6 DEF Mapped
  <2>2. r = t
    <3>1. SUFFICES ASSUME r # t PROVE FALSE
      OBVIOUS
    <3>2. t \in 2..t /\ t \in 1..t /\ r \in 1..t /\ r < t
      BY <1>1, <3>1
    <3>3. pos[r] < pos[t] /\ pos[t] \in O
      BY <1>1, <3>2 DEF Mapped
    <3>4. pos[t] <= m /\ pos[t] \in 1..n /\ m \in 1..n
      BY <1>0, <1>6, <3>3
    <3>5. QED
      BY <2>1, <3>3, <3>4
  <2>3. Overflowing(O, f) = {}
    <3>1. SUFFICES ASSUME NEW k \in O, f[k].overflows PROVE FALSE
      BY DEF Overflowing
    <3>2. pos[t] < k /\ k <= m /\ k \in 1..n /\ m \in 1..n
      BY <1>0, <1>1, <1>6, <3>1 DEF Mapped
    <3>3. QED
      BY <2>1, <2>2, <3>2
  <2>4. t \in 1..t
    BY <1>1
  <2>5. QED
    BY <1>1, <1>2, <1>6, <2>1, <2>2, <2>3, <2>4
<1>7. QED
  BY <1>0, <1>4, <1>5, <1>6

(* A push.                                                                 *)
LEMMA MappedPush ==
  ASSUME NEW n \in Nat, NEW txt, NEW O, O \subseteq 1..n, NEW f, NEW s, NEW pos, Mapped(txt, O, f, s, pos),
         Overflowing(O, f) = {}, NEW x \in 1..n, \A k \in O : k < x, ~f[x].overflows,
         NEW e, e = Entry(f, txt, x)
  PROVE  \E new : Mapped(txt, O \cup {x}, f, Append(s, e), new)
<1>1. PICK t \in Nat : t = Len(s) /\ t >= 1
  BY DEF Mapped
<1>2. PICK u : u = Append(s, e)
  OBVIOUS
<1>3. Len(u) = t + 1 /\ u[t + 1] = e /\ \A r \in 1..t : u[r] = s[r]
  BY <1>1, <1>2
<1>4. PICK new : new = [r \in 1..(t + 1) |-> IF r = t + 1 THEN x ELSE pos[r]]
  OBVIOUS
<1>5. new[t + 1] = x /\ \A r \in 1..t : new[r] = pos[r]
  BY <1>1, <1>4
<1>6. \A k \in O : ~f[k].overflows
  BY DEF Overflowing
<1>7. \A r \in 1..t : pos[r] < x
  <2>1. TAKE r \in 1..t
  <2>2. CASE r = 1
    BY <2>2 DEF Mapped
  <2>3. CASE r # 1
    <3>1. r \in 2..t
      BY <2>3
    <3>2. QED
      BY <1>1, <3>1 DEF Mapped
  <2>4. QED
    BY <2>2, <2>3
<1>8. new[1] = 0
  <2>1. 1 \in 1..t
    BY <1>1
  <2>2. QED
    BY <1>5, <2>1 DEF Mapped
<1>9. ASSUME NEW r \in 2..(t + 1) PROVE new[r] \in O \cup {x}
  <2>1. r \in 2..t \/ r = t + 1
    OBVIOUS
  <2>2. r \in 2..t => r \in 1..t
    OBVIOUS
  <2>3. QED
    BY <1>1, <1>5, <2>1, <2>2 DEF Mapped
<1>10. ASSUME NEW r \in 1..(t + 1), NEW q \in 1..(t + 1), q < r PROVE new[q] < new[r]
  <2>1. q \in 1..t /\ (r \in 1..t \/ r = t + 1)
    BY <1>10
  <2>2. QED
    BY <1>1, <1>5, <1>7, <1>10, <2>1 DEF Mapped
<1>11. ASSUME NEW r \in 1..(t + 1) PROVE u[r] = Entry(f, txt, new[r]) /\ ~f[new[r]].overflows
  <2>1. r \in 1..t \/ r = t + 1
    OBVIOUS
  <2>2. QED
    BY <1>1, <1>3, <1>5, <2>1 DEF Mapped
<1>12. ASSUME NEW k \in O \cup {x} PROVE \E r \in 2..(t + 1) : new[r] = k
  <2>1. CASE k \in O
    <3>1. PICK r \in 2..t : pos[r] = k
      BY <1>1, <1>6, <2>1 DEF Mapped
    <3>2. r \in 2..(t + 1) /\ r \in 1..t
      OBVIOUS
    <3>3. QED
      BY <1>5, <3>1, <3>2
  <2>2. CASE k = x
    <3>1. t + 1 \in 2..(t + 1)
      BY <1>1
    <3>2. QED
      BY <1>5, <2>2, <3>1
  <2>3. QED
    BY <2>1, <2>2
<1>13. \A k \in O \cup {x} : ~f[k].overflows
  BY <1>6
<1>14. Len(u) \in Nat /\ Len(u) >= 1
  BY <1>1, <1>3
<1>15. Mapped(txt, O \cup {x}, f, u, new)
  BY <1>3, <1>8, <1>9, <1>10, <1>11, <1>12, <1>13, <1>14 DEF Mapped
<1>16. QED
  BY <1>2, <1>15

(* An opening that exceeds the depth.                                      *)
LEMMA MappedOverflow ==
  ASSUME NEW n \in Nat, NEW txt, NEW O, O \subseteq 1..n, NEW f, NEW s, NEW pos, Mapped(txt, O, f, s, pos),
         NEW x \in 1..n, \A k \in O : k < x, f[x].overflows,
         f[x].level = s[Len(s)].level, f[x].override = s[Len(s)].override
  PROVE  Mapped(txt, O \cup {x}, f, s, pos)
<1>1. PICK t \in Nat : t = Len(s) /\ t >= 1
  BY DEF Mapped
<1>2. pos[t] < x
  <2>1. CASE t = 1
    BY <2>1 DEF Mapped
  <2>2. CASE t # 1
    <3>1. t \in 2..t
      BY <1>1, <2>2
    <3>2. QED
      BY <1>1, <3>1 DEF Mapped
  <2>3. QED
    BY <2>1, <2>2
<1>3. /\ pos[1] = 0
      /\ \A r \in 2..t : pos[r] \in O \cup {x}
      /\ \A r \in 1..t : \A q \in 1..t : q < r => pos[q] < pos[r]
      /\ \A r \in 1..t : s[r] = Entry(f, txt, pos[r]) /\ ~f[pos[r]].overflows
  BY <1>1 DEF Mapped
<1>4. \A k \in O \cup {x} : ~f[k].overflows => \E r \in 2..t : pos[r] = k
  BY <1>1 DEF Mapped
<1>5. \A k \in O \cup {x} : f[k].overflows => /\ pos[t] < k
                                              /\ f[k].level = s[t].level
                                              /\ f[k].override = s[t].override
  BY <1>1, <1>2 DEF Mapped
<1>6. QED
  BY <1>1, <1>3, <1>4, <1>5 DEF Mapped

(* What is open closes down to one that exceeds the depth, which stays on  *)
(* no stack.                                                               *)
LEMMA MappedDrop ==
  ASSUME NEW n \in Nat, NEW txt, NEW O, O \subseteq 1..n, NEW f, NEW s, NEW pos, Mapped(txt, O, f, s, pos),
         NEW g \in O, f[g].overflows, NEW N, N = Below(O, g)
  PROVE  Mapped(txt, N, f, s, pos) /\ OverflowsBelow(N, O, f, g)
<1>0. N = {k \in O : k < g}
  BY DEF Below
<1>1. PICK t \in Nat : t = Len(s) /\ t >= 1
  BY DEF Mapped
<1>2. pos[t] < g /\ g \in Nat
  BY <1>1 DEF Mapped
<1>3. ASSUME NEW r \in 2..t PROVE pos[r] \in N
  <2>1. pos[r] \in O /\ pos[t] \in O
    <3>1. t \in 2..t
      OBVIOUS
    <3>2. QED
      BY <1>1, <3>1 DEF Mapped
  <2>2. r = t \/ pos[r] < pos[t]
    <3>1. t \in 1..t /\ r \in 1..t /\ (r = t \/ r < t)
      OBVIOUS
    <3>2. QED
      BY <1>1, <3>1 DEF Mapped
  <2>3. pos[r] \in Nat /\ pos[t] \in Nat
    <3>1. \A y \in O : y \in Nat
      OBVIOUS
    <3>2. QED
      BY <2>1, <3>1
  <2>4. pos[r] < g
    BY <1>2, <2>2, <2>3
  <2>5. QED
    BY <1>0, <2>1, <2>4
<1>4. /\ pos[1] = 0
      /\ \A r \in 1..t : \A q \in 1..t : q < r => pos[q] < pos[r]
      /\ \A r \in 1..t : s[r] = Entry(f, txt, pos[r]) /\ ~f[pos[r]].overflows
      /\ \A k \in N : ~f[k].overflows => \E r \in 2..t : pos[r] = k
      /\ \A k \in N : f[k].overflows => /\ pos[t] < k
                                        /\ f[k].level = s[t].level
                                        /\ f[k].override = s[t].override
  BY <1>0, <1>1 DEF Mapped
<1>5. Mapped(txt, N, f, s, pos)
  BY <1>1, <1>3, <1>4 DEF Mapped
<1>6. QED
  BY <1>0, <1>5 DEF OverflowsBelow, Overflowing, Below

(* What is open closes down to one on the stack.                           *)
LEMMA MappedCut ==
  ASSUME NEW n \in Nat, NEW txt, NEW O, O \subseteq 1..n, NEW f, NEW s, NEW pos, Mapped(txt, O, f, s, pos),
         NEW g \in 2..Len(s), NEW N, N = Below(O, pos[g])
  PROVE  Mapped(txt, N, f, SubSeq(s, 1, g - 1), pos) /\ Overflowing(N, f) = {}
<1>0. N = {k \in O : k < pos[g]}
  BY DEF Below
<1>1. PICK t \in Nat : t = Len(s) /\ t >= 1
  BY DEF Mapped
<1>2. PICK u : u = SubSeq(s, 1, g - 1)
  OBVIOUS
<1>3. Len(u) = g - 1 /\ g - 1 \in Nat /\ g - 1 >= 1 /\ g \in 2..t /\ \A r \in 1..(g - 1) : u[r] = s[r]
  BY <1>1, <1>2
<1>4. pos[g] \in O /\ pos[g] \in Nat
  <2>1. pos[g] \in O
    BY <1>1, <1>3 DEF Mapped
  <2>2. \A y \in O : y \in Nat
    OBVIOUS
  <2>3. QED
    BY <2>1, <2>2
<1>5. \A r \in 1..(g - 1) : r \in 1..t /\ g \in 1..t /\ r < g
  BY <1>3
<1>6. ASSUME NEW r \in 2..(g - 1) PROVE pos[r] \in N
  <2>1. r \in 1..(g - 1) /\ r \in 2..t
    BY <1>3
  <2>2. pos[r] \in O /\ pos[r] < pos[g]
    BY <1>1, <1>5, <2>1 DEF Mapped
  <2>3. QED
    BY <1>0, <2>2
<1>7. /\ \A r \in 1..(g - 1) : \A q \in 1..(g - 1) : q < r => pos[q] < pos[r]
      /\ \A r \in 1..(g - 1) : u[r] = Entry(f, txt, pos[r]) /\ ~f[pos[r]].overflows
  BY <1>1, <1>3, <1>5 DEF Mapped
<1>8. ASSUME NEW k \in N PROVE ~f[k].overflows /\ \E r \in 2..(g - 1) : pos[r] = k
  <2>1. k \in O /\ k < pos[g] /\ k \in Nat
    BY <1>0
  <2>2. ~f[k].overflows
    <3>1. SUFFICES ASSUME f[k].overflows PROVE FALSE
      OBVIOUS
    <3>2. pos[t] < k
      BY <1>1, <2>1, <3>1 DEF Mapped
    <3>3. pos[t] \in O
      <4>1. t \in 2..t
        BY <1>3
      <4>2. QED
        BY <1>1, <4>1 DEF Mapped
    <3>4. g = t \/ pos[g] < pos[t]
      <4>1. g \in 1..t /\ t \in 1..t /\ (g = t \/ g < t)
        BY <1>1, <1>3
      <4>2. QED
        BY <1>1, <4>1 DEF Mapped
    <3>5. pos[t] \in Nat
      <4>1. \A y \in O : y \in Nat
        OBVIOUS
      <4>2. QED
        BY <3>3, <4>1
    <3>6. QED
      BY <1>4, <2>1, <3>2, <3>4, <3>5
  <2>3. PICK r \in 2..t : pos[r] = k
    BY <1>1, <2>1, <2>2 DEF Mapped
  <2>4. r < g
    <3>1. SUFFICES ASSUME ~(r < g) PROVE FALSE
      OBVIOUS
    <3>2. r \in 1..t /\ g \in 1..t /\ (g = r \/ g < r)
      BY <1>3, <3>1
    <3>3. g = r \/ pos[g] < pos[r]
      BY <1>1, <3>2 DEF Mapped
    <3>4. QED
      BY <1>4, <2>1, <2>3, <3>3
  <2>5. r \in 2..(g - 1)
    BY <1>3, <2>4
  <2>6. QED
    BY <2>2, <2>3, <2>5
<1>9. pos[1] = 0
  BY DEF Mapped
<1>10. Mapped(txt, N, f, u, pos)
  BY <1>3, <1>6, <1>7, <1>8, <1>9 DEF Mapped
<1>11. QED
  BY <1>2, <1>8, <1>10 DEF Overflowing

-----------------------------------------------------------------------------
(* The counters are those of what exceeds the depth.                       *)

LEMMA AmongFinite ==
  ASSUME NEW n \in Nat, NEW txt, NEW W, W \subseteq 1..n
  PROVE  /\ IsFiniteSet(IsolatesAmong(txt, W)) /\ IsFiniteSet(EmbeddingsFirst(txt, W))
         /\ Cardinality(IsolatesAmong(txt, W)) \in Nat /\ Cardinality(EmbeddingsFirst(txt, W)) \in Nat
<1>1. IsFiniteSet(1..n)
  BY FS_Interval
<1>2. IsolatesAmong(txt, W) \in SUBSET (1..n) /\ EmbeddingsFirst(txt, W) \in SUBSET (1..n)
  BY DEF IsolatesAmong, EmbeddingsFirst
<1>3. IsFiniteSet(IsolatesAmong(txt, W)) /\ IsFiniteSet(EmbeddingsFirst(txt, W))
  BY <1>1, <1>2, FS_Subset
<1>4. QED
  BY <1>3, FS_CardinalityType

LEMMA CountedZero ==
  ASSUME NEW n \in Nat, NEW txt, NEW W, W \subseteq 1..n, \A k \in W : txt[k] \in Openings,
         NEW over, NEW embedded, Counted(txt, W, over, embedded)
  PROVE  /\ over \in Nat /\ embedded \in Nat
         /\ over = 0 <=> NoIsolates(txt, W)
         /\ over = 0 => (embedded = 0 <=> W = {})
<1>1. PICK A, B : A = IsolatesAmong(txt, W) /\ B = EmbeddingsFirst(txt, W)
  OBVIOUS
<1>2. IsFiniteSet(A) /\ IsFiniteSet(B) /\ over = Cardinality(A) /\ embedded = Cardinality(B)
      /\ over \in Nat /\ embedded \in Nat
  BY <1>1, AmongFinite DEF Counted
<1>3. (over = 0 <=> A = {}) /\ (embedded = 0 <=> B = {})
  BY <1>2, FS_EmptySet
<1>4. A = {} <=> \A k \in W : txt[k] \notin Initiators
  BY <1>1 DEF IsolatesAmong
<1>5. A = {} => (B = {} <=> W = {})
  <2>1. SUFFICES ASSUME A = {} PROVE B = W
    OBVIOUS
  <2>2. \A k \in W : txt[k] \in Embeddings
    BY <1>4, <2>1, TypesDiffer
  <2>3. QED
    BY <1>1, <1>4, <2>1, <2>2 DEF EmbeddingsFirst
<1>6. A = {} <=> NoIsolates(txt, W)
  BY <1>4 DEF NoIsolates
<1>7. QED
  BY <1>2, <1>3, <1>5, <1>6

LEMMA CountedOpening ==
  ASSUME NEW n \in Nat, NEW txt, NEW W, W \subseteq 1..n, \A k \in W : txt[k] \in Openings,
         NEW over, NEW embedded, Counted(txt, W, over, embedded),
         NEW x \in 1..n, \A k \in W : k < x, txt[x] \in Openings
  PROVE  Counted(txt, W \cup {x}, IF txt[x] \in Initiators THEN over + 1 ELSE over,
                 IF txt[x] \in Embeddings /\ over = 0 THEN embedded + 1 ELSE embedded)
<1>1. PICK A, B : A = IsolatesAmong(txt, W) /\ B = EmbeddingsFirst(txt, W)
  OBVIOUS
<1>2. IsFiniteSet(A) /\ IsFiniteSet(B) /\ over = Cardinality(A) /\ embedded = Cardinality(B)
  BY <1>1, AmongFinite DEF Counted
<1>3. x \notin A /\ x \notin B
  BY <1>1 DEF IsolatesAmong, EmbeddingsFirst
<1>4. over = 0 <=> \A k \in W : txt[k] \notin Initiators
  BY CountedZero DEF NoIsolates
<1>5. CASE txt[x] \in Initiators
  <2>1. IsolatesAmong(txt, W \cup {x}) = A \cup {x}
    BY <1>1, <1>5 DEF IsolatesAmong
  <2>2. EmbeddingsFirst(txt, W \cup {x}) = B
    BY <1>1, <1>5, TypesDiffer DEF EmbeddingsFirst
  <2>3. Cardinality(A \cup {x}) = over + 1
    BY <1>2, <1>3, FS_AddElement
  <2>4. txt[x] \notin Embeddings
    BY <1>5, TypesDiffer
  <2>5. QED
    BY <1>2, <1>5, <2>1, <2>2, <2>3, <2>4 DEF Counted
<1>6. CASE txt[x] \notin Initiators
  <2>1. IsolatesAmong(txt, W \cup {x}) = A /\ txt[x] \in Embeddings
    BY <1>1, <1>6, TypesDiffer DEF IsolatesAmong
  <2>2. CASE over = 0
    <3>1. EmbeddingsFirst(txt, W \cup {x}) = B \cup {x}
      BY <1>1, <1>4, <1>6, <2>1, <2>2 DEF EmbeddingsFirst
    <3>2. Cardinality(B \cup {x}) = embedded + 1
      BY <1>2, <1>3, FS_AddElement
    <3>3. QED
      BY <1>2, <1>6, <2>1, <2>2, <3>1, <3>2 DEF Counted
  <2>3. CASE over # 0
    <3>1. PICK g \in W : txt[g] \in Initiators
      BY <1>4, <2>3
    <3>2. ~(x < g)
      BY <3>1
    <3>3. EmbeddingsFirst(txt, W \cup {x}) = B
      BY <1>1, <1>6, <3>1, <3>2 DEF EmbeddingsFirst
    <3>4. QED
      BY <1>2, <1>6, <2>1, <2>3, <3>3 DEF Counted
  <2>4. QED
    BY <2>2, <2>3
<1>7. QED
  BY <1>5, <1>6

LEMMA CountedIsolateCloses ==
  ASSUME NEW n \in Nat, NEW txt, NEW W, W \subseteq 1..n,
         NEW over, NEW embedded, Counted(txt, W, over, embedded),
         NEW g \in W, txt[g] \in Initiators, \A k \in W : txt[k] \in Initiators => k <= g
  PROVE  Counted(txt, Below(W, g), over - 1, embedded)
<1>1. PICK A, B, V : A = IsolatesAmong(txt, W) /\ B = EmbeddingsFirst(txt, W) /\ V = Below(W, g)
  OBVIOUS
<1>0. V = {k \in W : k < g}
  BY <1>1 DEF Below
<1>2. IsFiniteSet(A) /\ over = Cardinality(A) /\ embedded = Cardinality(B)
  BY <1>1, AmongFinite DEF Counted
<1>3. g \in A
  BY <1>1 DEF IsolatesAmong
<1>4. IsolatesAmong(txt, V) = A \ {g}
  <2>1. \A k \in W : txt[k] \in Initiators => (k < g <=> k # g)
    <3>1. TAKE k \in W
    <3>2. HAVE txt[k] \in Initiators
    <3>3. k <= g /\ k \in Nat /\ g \in Nat
      BY <3>2
    <3>4. QED
      BY <3>3
  <2>2. QED
    BY <1>0, <1>1, <2>1 DEF IsolatesAmong
<1>5. Cardinality(A \ {g}) = over - 1
  BY <1>2, <1>3, FS_RemoveElement
<1>6. EmbeddingsFirst(txt, V) = B
  <2>1. ASSUME NEW k \in V, txt[k] \in Embeddings, \A y \in V : txt[y] \in Initiators => k < y PROVE k \in B
    <3>1. ASSUME NEW y \in W, txt[y] \in Initiators PROVE k < y
      <4>1. y <= g /\ y \in Nat /\ g \in Nat
        BY <3>1
      <4>2. y \in V \/ y = g
        BY <1>0, <4>1
      <4>3. QED
        BY <1>0, <1>1, <2>1, <3>1, <4>2
    <3>2. QED
      BY <1>0, <1>1, <2>1, <3>1 DEF EmbeddingsFirst
  <2>2. ASSUME NEW k \in B PROVE k \in V /\ txt[k] \in Embeddings /\ \A y \in V : txt[y] \in Initiators => k < y
    BY <1>0, <1>1 DEF EmbeddingsFirst
  <2>3. QED
    BY <1>1, <2>1, <2>2 DEF EmbeddingsFirst
<1>7. QED
  BY <1>1, <1>2, <1>4, <1>5, <1>6 DEF Counted

LEMMA CountedEmbeddingCloses ==
  ASSUME NEW n \in Nat, NEW txt, NEW W, W \subseteq 1..n, \A k \in W : txt[k] \in Openings,
         NEW over, NEW embedded, Counted(txt, W, over, embedded),
         NEW g \in W, txt[g] \in Embeddings, \A k \in W : k <= g
  PROVE  Counted(txt, Below(W, g), over, IF over = 0 THEN embedded - 1 ELSE embedded)
<1>1. PICK A, B, V : A = IsolatesAmong(txt, W) /\ B = EmbeddingsFirst(txt, W) /\ V = Below(W, g)
  OBVIOUS
<1>0. V = {k \in W : k < g}
  BY <1>1 DEF Below
<1>2. IsFiniteSet(B) /\ over = Cardinality(A) /\ embedded = Cardinality(B)
  BY <1>1, AmongFinite DEF Counted
<1>3. V = W \ {g}
  <2>1. \A k \in W : k < g <=> k # g
    <3>1. TAKE k \in W
    <3>2. k <= g /\ k \in Nat /\ g \in Nat
      OBVIOUS
    <3>3. QED
      BY <3>2
  <2>2. QED
    BY <1>0, <2>1
<1>4. txt[g] \notin Initiators
  BY TypesDiffer
<1>5. IsolatesAmong(txt, V) = A
  BY <1>1, <1>3, <1>4 DEF IsolatesAmong
<1>6. over = 0 <=> \A k \in W : txt[k] \notin Initiators
  BY CountedZero DEF NoIsolates
<1>7. EmbeddingsFirst(txt, V) = B \ {g}
  BY <1>1, <1>3, <1>4 DEF EmbeddingsFirst
<1>8. CASE over = 0
  <2>1. g \in B
    BY <1>1, <1>6, <1>8 DEF EmbeddingsFirst
  <2>2. Cardinality(B \ {g}) = embedded - 1
    BY <1>2, <2>1, FS_RemoveElement
  <2>3. QED
    BY <1>1, <1>2, <1>5, <1>7, <1>8, <2>2 DEF Counted
<1>9. CASE over # 0
  <2>1. PICK y \in W : txt[y] \in Initiators
    BY <1>6, <1>9
  <2>2. y <= g /\ y \in Nat /\ g \in Nat
    BY <2>1
  <2>3. g \notin B
    BY <1>1, <2>1, <2>2 DEF EmbeddingsFirst
  <2>4. QED
    BY <1>1, <1>2, <1>5, <1>7, <1>9, <2>3 DEF Counted
<1>10. QED
  BY <1>8, <1>9

LEMMA CountedNone ==
  ASSUME NEW txt PROVE Counted(txt, {}, 0, 0)
<1>1. IsolatesAmong(txt, {}) = {} /\ EmbeddingsFirst(txt, {}) = {}
  BY DEF IsolatesAmong, EmbeddingsFirst
<1>2. QED
  BY <1>1, FS_EmptySet DEF Counted

-----------------------------------------------------------------------------
(* What the stack and the counters say of what is open.                    *)

AreOpen(txt, n, O) == O \subseteq 1..n /\ \A k \in O : txt[k] \in Openings

Tracked(txt, O, f, s, over, embedded) ==
  /\ \E pos : Mapped(txt, O, f, s, pos)
  /\ Counted(txt, Overflowing(O, f), over, embedded)

LEMMA OverflowsAre ==
  ASSUME NEW n \in Nat, NEW txt, NEW O, AreOpen(txt, n, O),
         NEW f, NEW over, NEW embedded, NEW W, W = Overflowing(O, f), Counted(txt, W, over, embedded)
  PROVE  /\ AreOpen(txt, n, W) /\ W \subseteq O
         /\ over \in Nat /\ embedded \in Nat
         /\ over = 0 <=> NoIsolates(txt, W)
         /\ over = 0 => (embedded = 0 <=> W = {})
<1>1. W \subseteq O
  BY DEF Overflowing
<1>2. W \subseteq 1..n /\ \A k \in W : txt[k] \in Openings
  BY <1>1 DEF AreOpen
<1>3. AreOpen(txt, n, W)
  BY <1>2 DEF AreOpen
<1>4. over \in Nat /\ embedded \in Nat
  BY <1>2, CountedZero
<1>5. over = 0 <=> NoIsolates(txt, W)
  BY <1>2, CountedZero
<1>6. over = 0 => (embedded = 0 <=> W = {})
  BY <1>2, CountedZero
<1>7. QED
  BY <1>1, <1>3, <1>4, <1>5, <1>6

LEMMA TrackedTop ==
  ASSUME NEW n \in Nat, NEW txt, NEW O, AreOpen(txt, n, O),
         NEW f, NEW s, NEW over, NEW embedded, Tracked(txt, O, f, s, over, embedded),
         NEW m, Innermost(O, m)
  PROVE  /\ GivenTop(f, m, s)
         /\ over \in Nat /\ embedded \in Nat
         /\ f[m].overflows <=> ~(over = 0 /\ embedded = 0)
<1>0. O \subseteq 1..n
  BY DEF AreOpen
<1>1. PICK pos : Mapped(txt, O, f, s, pos)
  BY DEF Tracked
<1>2. PICK W : W = Overflowing(O, f)
  OBVIOUS
<1>3. Counted(txt, W, over, embedded)
  BY <1>2 DEF Tracked
<1>4. /\ over \in Nat /\ embedded \in Nat
      /\ over = 0 <=> NoIsolates(txt, W)
      /\ over = 0 => (embedded = 0 <=> W = {})
  BY <1>2, <1>3, OverflowsAre
<1>5. O \subseteq 1..n
  BY DEF AreOpen
<1>6a. GivenTop(f, m, s)
  BY <1>1, <1>5, TopIsCurrent
<1>6c. f[m].overflows <=> Overflowing(O, f) # {}
  BY <1>1, <1>5, TopIsCurrent
<1>7. W = {} <=> over = 0 /\ embedded = 0
  BY <1>4 DEF NoIsolates
<1>8. f[m].overflows <=> W # {}
  BY <1>2, <1>6c
<1>9. QED
  BY <1>4, <1>6a, <1>7, <1>8

LEMMA OpeningFits ==
  ASSUME NEW n \in Nat, NEW txt, NEW O, AreOpen(txt, n, O),
         NEW f, NEW s, NEW over, NEW embedded, Tracked(txt, O, f, s, over, embedded),
         over = 0, embedded = 0,
         NEW x \in 1..n, \A k \in O : k < x, ~f[x].overflows,
         NEW e, e = Entry(f, txt, x)
  PROVE  Tracked(txt, O \cup {x}, f, Append(s, e), 0, 0)
<1>0. O \subseteq 1..n
  BY DEF AreOpen
<1>1. PICK pos : Mapped(txt, O, f, s, pos)
  BY DEF Tracked
<1>2. PICK W : W = Overflowing(O, f)
  OBVIOUS
<1>3. Counted(txt, W, over, embedded)
  BY <1>2 DEF Tracked
<1>4. over = 0 => (embedded = 0 <=> W = {})
  BY <1>2, <1>3, OverflowsAre
<1>5. Overflowing(O, f) = {}
  BY <1>2, <1>4
<1>6. \E new : Mapped(txt, O \cup {x}, f, Append(s, e), new)
  BY <1>0, <1>1, <1>5, MappedPush
<1>7. Overflowing(O \cup {x}, f) = {}
  BY <1>5 DEF Overflowing
<1>8. QED
  BY <1>6, <1>7, CountedNone DEF Tracked

LEMMA OpeningOverflows ==
  ASSUME NEW n \in Nat, NEW txt, NEW O, AreOpen(txt, n, O),
         NEW f, NEW s, NEW over, NEW embedded, Tracked(txt, O, f, s, over, embedded),
         NEW x \in 1..n, \A k \in O : k < x, txt[x] \in Openings, f[x].overflows,
         f[x].level = s[Len(s)].level, f[x].override = s[Len(s)].override,
         NEW over2, over2 = IF txt[x] \in Initiators THEN over + 1 ELSE over,
         NEW embedded2, embedded2 = IF txt[x] \in Embeddings /\ over = 0 THEN embedded + 1 ELSE embedded
  PROVE  Tracked(txt, O \cup {x}, f, s, over2, embedded2)
<1>0. O \subseteq 1..n
  BY DEF AreOpen
<1>1. PICK pos : Mapped(txt, O, f, s, pos)
  BY DEF Tracked
<1>2. PICK W : W = Overflowing(O, f)
  OBVIOUS
<1>3. Counted(txt, W, over, embedded)
  BY <1>2 DEF Tracked
<1>4. Mapped(txt, O \cup {x}, f, s, pos)
  BY <1>0, <1>1, MappedOverflow
<1>5. AreOpen(txt, n, W) /\ W \subseteq O
  BY <1>2, <1>3, OverflowsAre
<1>6. \A k \in W : k < x
  BY <1>5
<1>7. Counted(txt, W \cup {x}, over2, embedded2)
  BY <1>3, <1>5, <1>6, CountedOpening DEF AreOpen
<1>8. Overflowing(O \cup {x}, f) = W \cup {x}
  BY <1>2 DEF Overflowing
<1>9. QED
  BY <1>4, <1>7, <1>8 DEF Tracked

(* What exceeds the depth opened after all that is on the stack, which is  *)
(* in the order of the positions.                                          *)
IsStacked(txt, O, f, s, pos) ==
  /\ \A w \in O : \A k \in O : f[w].overflows /\ ~f[k].overflows => k < w
  /\ \A r \in 1..Len(s) : s[r].isolate <=> r # 1 /\ txt[pos[r]] \in Initiators
  /\ \A r \in 2..Len(s) : pos[r] \in O /\ ~f[pos[r]].overflows
  /\ \A k \in O : ~f[k].overflows => \E r \in 2..Len(s) : pos[r] = k

LEMMA StackedIs ==
  ASSUME NEW n \in Nat, NEW txt, NEW O, O \subseteq 1..n, NEW f, NEW s, NEW pos, Mapped(txt, O, f, s, pos)
  PROVE  IsStacked(txt, O, f, s, pos)
<1>1. PICK t \in Nat : t = Len(s) /\ t >= 1
  BY DEF Mapped
<1>2. \A r \in 2..t : pos[r] \in O /\ r \in 1..t
  BY <1>1 DEF Mapped
<1>3. \A r \in 2..t : pos[r] \in O /\ ~f[pos[r]].overflows
  BY <1>1, <1>2 DEF Mapped
<1>4. \A k \in O : k \in Nat /\ k # 0
  OBVIOUS
<1>5. \A r \in 1..t : pos[r] \in Nat /\ (pos[r] = 0 <=> r = 1)
  <2>1. TAKE r \in 1..t
  <2>2. CASE r = 1
    BY <2>2 DEF Mapped
  <2>3. CASE r # 1
    <3>1. r \in 2..t
      BY <2>3
    <3>2. QED
      BY <1>2, <1>4, <2>3, <3>1
  <2>4. QED
    BY <2>2, <2>3
<1>6. ASSUME NEW w \in O, NEW k \in O, f[w].overflows, ~f[k].overflows PROVE k < w
  <2>1. PICK r \in 2..t : pos[r] = k
    BY <1>1, <1>6 DEF Mapped
  <2>2. pos[t] < w
    BY <1>1, <1>6 DEF Mapped
  <2>3. pos[r] = pos[t] \/ pos[r] < pos[t]
    <3>1. t \in 1..t /\ r \in 1..t /\ (r = t \/ r < t)
      OBVIOUS
    <3>2. QED
      BY <1>1, <3>1 DEF Mapped
  <2>4. t \in 1..t /\ r \in 1..t
    OBVIOUS
  <2>5. pos[t] \in Nat /\ pos[r] \in Nat /\ w \in Nat
    BY <1>4, <1>5, <2>4
  <2>6. QED
    BY <2>1, <2>2, <2>3, <2>5
<1>7. ASSUME NEW r \in 1..t PROVE s[r].isolate <=> r # 1 /\ txt[pos[r]] \in Initiators
  <2>1. s[r] = Entry(f, txt, pos[r])
    BY <1>1 DEF Mapped
  <2>2. s[r].isolate <=> pos[r] # 0 /\ txt[pos[r]] \in Initiators
    BY <2>1, EntryIs DEF EntryFields
  <2>3. QED
    BY <1>5, <2>2
<1>8. \A k \in O : ~f[k].overflows => \E r \in 2..t : pos[r] = k
  BY <1>1 DEF Mapped
<1>9. QED
  BY <1>1, <1>3, <1>6, <1>7, <1>8 DEF IsStacked

(* What remains of what is open after a PDI and after a PDF.               *)
LeftByPDI(txt, O) ==
  {j \in O : (\A g \in O : txt[g] \notin Initiators) \/ \E g \in O : txt[g] \in Initiators /\ j < g}
LeftByPDF(txt, O) == {j \in O : txt[j] \in Initiators \/ \E k \in O : j < k}

LEMMA LeftIs ==
  ASSUME NEW n \in Nat, NEW txt, NEW O, AreOpen(txt, n, O)
  PROVE  /\ (\A g \in O : txt[g] \notin Initiators) => LeftByPDI(txt, O) = O
         /\ \A g \in O : txt[g] \in Initiators /\ (\A k \in O : txt[k] \in Initiators => k <= g) =>
              LeftByPDI(txt, O) = Below(O, g)
         /\ \A g \in O : (\A k \in O : k <= g) =>
              LeftByPDF(txt, O) = IF txt[g] \in Initiators THEN O ELSE Below(O, g)
         /\ O = {} => LeftByPDF(txt, O) = {}
<1>1. \A k \in O : k \in Nat
  BY DEF AreOpen
<1>2. (\A g \in O : txt[g] \notin Initiators) => LeftByPDI(txt, O) = O
  BY DEF LeftByPDI
<1>3. ASSUME NEW g \in O, txt[g] \in Initiators, \A k \in O : txt[k] \in Initiators => k <= g
      PROVE  LeftByPDI(txt, O) = Below(O, g)
  <2>1. ASSUME NEW j \in O, NEW y \in O, txt[y] \in Initiators, j < y PROVE j < g
    <3>1. y <= g /\ y \in Nat /\ g \in Nat /\ j \in Nat
      BY <1>1, <1>3, <2>1
    <3>2. QED
      BY <2>1, <3>1
  <2>2. QED
    BY <1>3, <2>1 DEF LeftByPDI, Below
<1>4. ASSUME NEW g \in O, \A k \in O : k <= g
      PROVE  LeftByPDF(txt, O) = IF txt[g] \in Initiators THEN O ELSE Below(O, g)
  <2>1. ASSUME NEW j \in O PROVE (\E k \in O : j < k) <=> j < g
    <3>1. ASSUME NEW y \in O, j < y PROVE j < g
      <4>1. y <= g /\ y \in Nat /\ g \in Nat /\ j \in Nat
        BY <1>1, <1>4
      <4>2. QED
        BY <3>1, <4>1
    <3>2. QED
      BY <3>1
  <2>2. \A j \in O : j < g \/ j = g
    <3>1. TAKE j \in O
    <3>2. j <= g /\ g \in Nat /\ j \in Nat
      BY <1>1, <1>4
    <3>3. QED
      BY <3>2
  <2>3. CASE txt[g] \in Initiators
    BY <2>1, <2>2, <2>3 DEF LeftByPDF
  <2>4. CASE txt[g] \notin Initiators
    <3>1. ASSUME NEW j \in O, txt[j] \in Initiators PROVE j < g
      BY <2>2, <2>4, <3>1
    <3>2. LeftByPDF(txt, O) = Below(O, g)
      BY <2>1, <3>1 DEF LeftByPDF, Below
    <3>3. QED
      BY <2>4, <3>2
  <2>5. QED
    BY <2>3, <2>4
<1>5. O = {} => LeftByPDF(txt, O) = {}
  BY DEF LeftByPDF
<1>6. QED
  BY <1>2, <1>3, <1>4, <1>5

(* Closes down to one that exceeds the depth.                              *)
LEMMA DropTracked ==
  ASSUME NEW n \in Nat, NEW txt, NEW O, AreOpen(txt, n, O),
         NEW f, NEW s, NEW over, NEW embedded, Tracked(txt, O, f, s, over, embedded),
         NEW g \in O, f[g].overflows
  PROVE  /\ txt[g] \in Initiators /\ (\A k \in O : txt[k] \in Initiators => k <= g) =>
              Tracked(txt, Below(O, g), f, s, over - 1, embedded)
         /\ txt[g] \in Embeddings /\ (\A k \in O : k <= g) /\ over = 0 =>
              Tracked(txt, Below(O, g), f, s, over, embedded - 1)
         /\ txt[g] \in Embeddings /\ (\A k \in O : k <= g) /\ over # 0 =>
              Tracked(txt, Below(O, g), f, s, over, embedded)
<1>0. O \subseteq 1..n
  BY DEF AreOpen
<1>1. PICK pos : Mapped(txt, O, f, s, pos)
  BY DEF Tracked
<1>2. PICK W : W = Overflowing(O, f)
  OBVIOUS
<1>3. Counted(txt, W, over, embedded)
  BY <1>2 DEF Tracked
<1>4. AreOpen(txt, n, W) /\ W \subseteq O
  BY <1>2, <1>3, OverflowsAre
<1>5. PICK N : N = Below(O, g)
  OBVIOUS
<1>6. Mapped(txt, N, f, s, pos) /\ Overflowing(N, f) = Below(Overflowing(O, f), g)
  <2>1. Mapped(txt, N, f, s, pos)
    BY <1>0, <1>1, <1>5, MappedDrop
  <2>2. OverflowsBelow(N, O, f, g)
    BY <1>0, <1>1, <1>5, MappedDrop
  <2>3. QED
    BY <2>1, <2>2 DEF OverflowsBelow
<1>7. Overflowing(N, f) = Below(W, g)
  BY <1>2, <1>6
<1>8. g \in W
  BY <1>2 DEF Overflowing
<1>9. ASSUME txt[g] \in Initiators, \A k \in O : txt[k] \in Initiators => k <= g
      PROVE  Tracked(txt, N, f, s, over - 1, embedded)
  <2>1. \A k \in W : txt[k] \in Initiators => k <= g
    BY <1>4, <1>9
  <2>2. Counted(txt, Below(W, g), over - 1, embedded)
    BY <1>3, <1>4, <1>8, <1>9, <2>1, CountedIsolateCloses DEF AreOpen
  <2>3. QED
    BY <1>6, <1>7, <2>2 DEF Tracked
<1>10. ASSUME txt[g] \in Embeddings, \A k \in O : k <= g
       PROVE  /\ over = 0 => Tracked(txt, N, f, s, over, embedded - 1)
              /\ over # 0 => Tracked(txt, N, f, s, over, embedded)
  <2>1. \A k \in W : k <= g
    BY <1>4, <1>10
  <2>2. Counted(txt, Below(W, g), over, IF over = 0 THEN embedded - 1 ELSE embedded)
    BY <1>3, <1>4, <1>8, <1>10, <2>1, CountedEmbeddingCloses DEF AreOpen
  <2>3. /\ over = 0 => Counted(txt, Below(W, g), over, embedded - 1)
        /\ over # 0 => Counted(txt, Below(W, g), over, embedded)
    BY <2>2
  <2>4. QED
    BY <1>6, <1>7, <2>3 DEF Tracked
<1>11. QED
  BY <1>5, <1>9, <1>10

(* Closes down to one on the stack.                                        *)
LEMMA CutTracked ==
  ASSUME NEW n \in Nat, NEW txt, NEW O, O \subseteq 1..n,
         NEW f, NEW s, NEW pos, Mapped(txt, O, f, s, pos), NEW r \in 2..Len(s)
  PROVE  Tracked(txt, Below(O, pos[r]), f, SubSeq(s, 1, r - 1), 0, 0)
<1>1. PICK N : N = Below(O, pos[r])
  OBVIOUS
<1>2. Mapped(txt, N, f, SubSeq(s, 1, r - 1), pos) /\ Overflowing(N, f) = {}
  BY <1>1, MappedCut
<1>3. Tracked(txt, N, f, SubSeq(s, 1, r - 1), 0, 0)
  BY <1>2, CountedNone DEF Tracked
<1>4. QED
  BY <1>1, <1>3


(* An opening, by a link of rules X2 to X5c.                               *)
Pushed(txt, x, level) == Status(level, OverrideOf(txt[x]), txt[x] \in Initiators)
OpenedOver(txt, x, over) == IF txt[x] \in Initiators THEN over + 1 ELSE over
OpenedEmbedded(txt, x, over, embedded) ==
  IF txt[x] \in Embeddings /\ over = 0 THEN embedded + 1 ELSE embedded

Fits(level, over, embedded) == level <= MaxLevel /\ over = 0 /\ embedded = 0

Opened(txt, N, f, s, x, level, over, embedded) ==
  /\ Fits(level, over, embedded) => Tracked(txt, N, f, Append(s, Pushed(txt, x, level)), 0, 0)
  /\ ~Fits(level, over, embedded) =>
       Tracked(txt, N, f, s, OpenedOver(txt, x, over), OpenedEmbedded(txt, x, over, embedded))

LEMMA TrackOpening ==
  ASSUME NEW n \in Nat, NEW txt, NEW O, AreOpen(txt, n, O),
         NEW f, NEW s, NEW over, NEW embedded, Tracked(txt, O, f, s, over, embedded),
         NEW x \in 1..n, txt[x] \in Openings, \A k \in O : k < x,
         NEW m, Innermost(O, m), IsScope(f[m]), f[x] = ScopeUnder(f[m], txt, x),
         NEW level \in Nat, level = NextLevel(s[Len(s)].level, TurnsRTL(txt, x))
  PROVE  Opened(txt, O \cup {x}, f, s, x, level, over, embedded)
<1>0. PICK e, over2, embedded2 :
        /\ e = Pushed(txt, x, level) /\ over2 = OpenedOver(txt, x, over)
        /\ embedded2 = OpenedEmbedded(txt, x, over, embedded)
  OBVIOUS
<1>1. GivenTop(f, m, s) /\ (f[m].overflows <=> ~(over = 0 /\ embedded = 0))
  BY TrackedTop
<1>2. f[m].level = s[Len(s)].level /\ f[m].override = s[Len(s)].override
  BY <1>1 DEF GivenTop
<1>3. level = NextLevel(f[m].level, TurnsRTL(txt, x))
  BY <1>2
<1>4. /\ f[m].overflows \/ level > MaxLevel =>
           f[x].overflows /\ f[x].level = f[m].level /\ f[x].override = f[m].override
      /\ ~(f[m].overflows \/ level > MaxLevel) =>
           ~f[x].overflows /\ f[x].level = level /\ f[x].override = OverrideOf(txt[x])
  BY <1>3, ScopeUnderIs
<1>5. level > MaxLevel <=> ~(level <= MaxLevel)
  BY LevelsFacts
<1>6. ASSUME level <= MaxLevel, over = 0, embedded = 0
      PROVE  Tracked(txt, O \cup {x}, f, Append(s, e), 0, 0)
  <2>1. ~f[x].overflows /\ f[x].level = level /\ f[x].override = OverrideOf(txt[x])
    BY <1>1, <1>4, <1>5, <1>6
  <2>2. (x # 0 /\ txt[x] \in Initiators) = (txt[x] \in Initiators)
    OBVIOUS
  <2>3. e = Entry(f, txt, x)
    BY <1>0, <2>1, <2>2 DEF Entry, Pushed
  <2>4. QED
    BY <1>6, <2>1, <2>3, OpeningFits
<1>7. ASSUME ~(level <= MaxLevel /\ over = 0 /\ embedded = 0)
      PROVE  Tracked(txt, O \cup {x}, f, s, over2, embedded2)
  <2>1. f[m].overflows \/ level > MaxLevel
    BY <1>1, <1>5, <1>7
  <2>2. f[x].overflows /\ f[x].level = s[Len(s)].level /\ f[x].override = s[Len(s)].override
    BY <1>2, <1>4, <2>1
  <2>3. over2 = IF txt[x] \in Initiators THEN over + 1 ELSE over
    BY <1>0 DEF OpenedOver
  <2>4. embedded2 = IF txt[x] \in Embeddings /\ over = 0 THEN embedded + 1 ELSE embedded
    BY <1>0 DEF OpenedEmbedded
  <2>5. QED
    BY <2>2, <2>3, <2>4, OpeningOverflows
<1>8. Fits(level, over, embedded) <=> level <= MaxLevel /\ over = 0 /\ embedded = 0
  BY DEF Fits
<1>9. QED
  BY <1>0, <1>6, <1>7, <1>8 DEF Opened

(* A PDI.                                                                  *)
LEMMA TrackPDI ==
  ASSUME NEW n \in Nat, NEW txt, NEW O, AreOpen(txt, n, O),
         NEW f, NEW s, NEW over, NEW embedded, Tracked(txt, O, f, s, over, embedded),
         NEW N, N = LeftByPDI(txt, O)
  PROVE  /\ over # 0 => Tracked(txt, N, f, s, over - 1, embedded)
         /\ over = 0 /\ Isolates(s) = {} => Tracked(txt, N, f, s, over, embedded)
         /\ over = 0 /\ Isolates(s) # {} => Tracked(txt, N, f, SubSeq(s, 1, Max(Isolates(s)) - 1), 0, 0)
<1>0. O \subseteq 1..n /\ \A k \in O : k \in Nat
  BY DEF AreOpen
<1>1. PICK pos : Mapped(txt, O, f, s, pos)
  BY DEF Tracked
<1>2. PICK W : W = Overflowing(O, f)
  OBVIOUS
<1>3. Counted(txt, W, over, embedded)
  BY <1>2 DEF Tracked
<1>4. over = 0 <=> NoIsolates(txt, W)
  BY <1>2, <1>3, OverflowsAre
<1>5. PICK t \in Nat : t = Len(s) /\ t >= 1
  BY <1>1 DEF Mapped
<1>6. /\ \A w \in O : \A k \in O : f[w].overflows /\ ~f[k].overflows => k < w
      /\ \A r \in 1..t : s[r].isolate <=> r # 1 /\ txt[pos[r]] \in Initiators
      /\ \A r \in 2..t : pos[r] \in O /\ ~f[pos[r]].overflows
      /\ \A k \in O : ~f[k].overflows => \E r \in 2..t : pos[r] = k
  <2>1. IsStacked(txt, O, f, s, pos)
    BY <1>0, <1>1, StackedIs
  <2>2. QED
    BY <1>5, <2>1 DEF IsStacked
<1>7. CASE over # 0
  <2>1. PICK w \in W : txt[w] \in Initiators
    BY <1>4, <1>7 DEF NoIsolates
  <2>2. w \in O /\ f[w].overflows
    BY <1>2 DEF Overflowing
  <2>3. PICK G : G = {k \in O : txt[k] \in Initiators}
    OBVIOUS
  <2>4. G \subseteq 0..n /\ w \in G
    <3>1. \A k \in O : k \in 0..n
      BY <1>0
    <3>2. G \subseteq 0..n
      BY <2>3, <3>1
    <3>3. QED
      BY <2>1, <2>2, <2>3, <3>2
  <2>5. PICK g \in G : \A k \in G : k <= g
    BY <2>4, HasGreatest
  <2>6. g \in O /\ txt[g] \in Initiators /\ \A k \in O : txt[k] \in Initiators => k <= g
    BY <2>3, <2>5
  <2>7. f[g].overflows
    <3>1. SUFFICES ASSUME ~f[g].overflows PROVE FALSE
      OBVIOUS
    <3>2. g < w /\ w <= g /\ g \in Nat /\ w \in Nat
      BY <1>0, <1>6, <2>2, <2>4, <2>5, <2>6, <3>1
    <3>3. QED
      BY <3>2
  <2>8. N = Below(O, g)
    BY <2>6, LeftIs
  <2>9. Tracked(txt, Below(O, g), f, s, over - 1, embedded)
    BY <2>6, <2>7, DropTracked
  <2>10. QED
    BY <1>7, <2>8, <2>9
<1>8. CASE over = 0 /\ Isolates(s) = {}
  <2>1. ASSUME NEW g \in O, txt[g] \in Initiators PROVE FALSE
    <3>1. ~f[g].overflows
      BY <1>2, <1>4, <1>8, <2>1 DEF Overflowing, NoIsolates
    <3>2. PICK r \in 2..t : pos[r] = g
      BY <1>6, <3>1
    <3>3. r \in 1..t /\ r # 1
      OBVIOUS
    <3>4. r \in Isolates(s)
      BY <1>5, <1>6, <2>1, <3>2, <3>3 DEF Isolates
    <3>5. QED
      BY <1>8, <3>4
  <2>2. N = O
    BY <2>1, LeftIs
  <2>3. QED
    BY <1>8, <2>2
<1>9. CASE over = 0 /\ Isolates(s) # {}
  <2>1. PICK I : I = Isolates(s)
    OBVIOUS
  <2>2. I \subseteq 0..t /\ I # {}
    BY <1>5, <1>9, <2>1 DEF Isolates
  <2>3. PICK r : r = Max(I)
    OBVIOUS
  <2>4. r \in I /\ \A k \in I : k <= r
    BY <2>2, <2>3, MaxIs
  <2>5. r \in 1..t /\ s[r].isolate
    BY <1>5, <2>1, <2>4 DEF Isolates
  <2>6. r # 1 /\ txt[pos[r]] \in Initiators
    BY <1>6, <2>5
  <2>7. r \in 2..t
    BY <2>5, <2>6
  <2>8. pos[r] \in O
    BY <1>6, <2>7
  <2>9. ASSUME NEW k \in O, txt[k] \in Initiators PROVE k <= pos[r]
    <3>1. ~f[k].overflows
      BY <1>2, <1>4, <1>9, <2>9 DEF Overflowing, NoIsolates
    <3>2. PICK q \in 2..t : pos[q] = k
      BY <1>6, <3>1
    <3>3. q \in 1..t /\ q # 1
      OBVIOUS
    <3>4. q \in I
      BY <1>5, <1>6, <2>1, <2>9, <3>2, <3>3 DEF Isolates
    <3>5. q <= r
      BY <2>4, <3>4
    <3>6. q = r \/ q < r
      BY <2>5, <3>3, <3>5
    <3>7. k = pos[r] \/ k < pos[r]
      BY <1>1, <1>5, <2>5, <3>2, <3>3, <3>6 DEF Mapped
    <3>8. k \in Nat /\ pos[r] \in Nat
      BY <1>0, <2>8
    <3>9. QED
      BY <3>7, <3>8
  <2>10. N = Below(O, pos[r])
    BY <2>6, <2>8, <2>9, LeftIs
  <2>11. Tracked(txt, Below(O, pos[r]), f, SubSeq(s, 1, r - 1), 0, 0)
    BY <1>0, <1>1, <1>5, <2>7, CutTracked
  <2>12. QED
    BY <1>9, <2>1, <2>3, <2>10, <2>11
<1>10. QED
  BY <1>7, <1>8, <1>9

(* A PDF.                                                                  *)
LEMMA TrackPDF ==
  ASSUME NEW n \in Nat, NEW txt, NEW O, AreOpen(txt, n, O),
         NEW f, NEW s, NEW over, NEW embedded, Tracked(txt, O, f, s, over, embedded),
         NEW N, N = LeftByPDF(txt, O)
  PROVE  /\ over = 0 /\ embedded # 0 => Tracked(txt, N, f, s, over, embedded - 1)
         /\ over = 0 /\ embedded = 0 /\ ~s[Len(s)].isolate /\ Len(s) >= 2 =>
              Tracked(txt, N, f, SubSeq(s, 1, Len(s) - 1), 0, 0)
         /\ over # 0 \/ (embedded = 0 /\ (s[Len(s)].isolate \/ Len(s) < 2)) =>
              Tracked(txt, N, f, s, over, embedded)
<1>0. O \subseteq 1..n /\ (\A k \in O : k \in Nat) /\ \A k \in O : txt[k] \in Openings
  BY DEF AreOpen
<1>1. PICK pos : Mapped(txt, O, f, s, pos)
  BY DEF Tracked
<1>2. PICK W : W = Overflowing(O, f)
  OBVIOUS
<1>3. Counted(txt, W, over, embedded)
  BY <1>2 DEF Tracked
<1>4. (over = 0 <=> NoIsolates(txt, W)) /\ (over = 0 => (embedded = 0 <=> W = {}))
  BY <1>2, <1>3, OverflowsAre
<1>5. PICK t \in Nat : t = Len(s) /\ t >= 1
  BY <1>1 DEF Mapped
<1>6. /\ \A r \in 1..t : s[r].isolate <=> r # 1 /\ txt[pos[r]] \in Initiators
      /\ \A r \in 2..t : pos[r] \in O
  <2>1. IsStacked(txt, O, f, s, pos)
    BY <1>0, <1>1, StackedIs
  <2>2. QED
    BY <1>5, <2>1 DEF IsStacked
<1>7. CASE O = {}
  <2>1. W = {}
    BY <1>2, <1>7 DEF Overflowing
  <2>2. over = 0 /\ embedded = 0
    BY <1>4, <2>1 DEF NoIsolates
  <2>3. t = 1
    <3>1. SUFFICES ASSUME t # 1 PROVE FALSE
      OBVIOUS
    <3>2. 2 \in 2..t
      BY <1>5, <3>1
    <3>3. QED
      BY <1>6, <1>7, <3>2
  <2>4. N = O
    BY <1>7, LeftIs
  <2>5. QED
    BY <1>5, <2>2, <2>3, <2>4
<1>8. CASE O # {}
  <2>1. PICK g \in O : \A k \in O : k <= g
    <3>1. O \subseteq 0..n
      BY <1>0
    <3>2. QED
      BY <1>8, <3>1, HasGreatest
  <2>2. Innermost(O, g)
    BY <2>1 DEF Innermost
  <2>3. f[g].overflows <=> ~(over = 0 /\ embedded = 0)
    BY <2>2, TrackedTop
  <2>4. /\ txt[g] \in Initiators => N = O
        /\ txt[g] \notin Initiators => N = Below(O, g)
    <3>1. LeftByPDF(txt, O) = IF txt[g] \in Initiators THEN O ELSE Below(O, g)
      BY <2>1, LeftIs
    <3>2. QED
      BY <3>1
  <2>5. CASE f[g].overflows
    <3>1. g \in W
      BY <1>2, <2>5 DEF Overflowing
    <3>2. CASE txt[g] \in Initiators
      <4>1. over # 0
        BY <1>4, <3>1, <3>2 DEF NoIsolates
      <4>2. QED
        BY <2>4, <3>2, <4>1
    <3>3. CASE txt[g] \notin Initiators
      <4>1. txt[g] \in Embeddings
        BY <1>0, <3>3, TypesDiffer
      <4>2. over = 0 => Tracked(txt, Below(O, g), f, s, over, embedded - 1)
        BY <2>1, <2>5, <4>1, DropTracked
      <4>3. over # 0 => Tracked(txt, Below(O, g), f, s, over, embedded)
        BY <2>1, <2>5, <4>1, DropTracked
      <4>4. N = Below(O, g) /\ ~(over = 0 /\ embedded = 0)
        BY <2>3, <2>4, <2>5, <3>3
      <4>5. QED
        BY <4>2, <4>3, <4>4
    <3>4. QED
      BY <3>2, <3>3
  <2>6. CASE ~f[g].overflows
    <3>1. over = 0 /\ embedded = 0
      BY <2>3, <2>6
    <3>2. Overflowing(O, f) = {}
      BY <1>2, <1>4, <3>1
    <3>3. g = pos[t]
      <4>1. OnTop(O, f, g, s, pos)
        BY <1>0, <1>1, <2>2, TopIsCurrent
      <4>2. QED
        BY <1>5, <3>2, <4>1 DEF OnTop
    <3>4. t # 1
      BY <1>0, <1>1, <3>3 DEF Mapped
    <3>5. t \in 2..t /\ t \in 1..t
      BY <1>5, <3>4
    <3>6. s[t].isolate <=> txt[g] \in Initiators
      BY <1>6, <3>3, <3>4, <3>5
    <3>7. CASE txt[g] \in Initiators
      BY <1>5, <2>4, <3>1, <3>5, <3>6, <3>7
    <3>8. CASE txt[g] \notin Initiators
      <4>1. Tracked(txt, Below(O, pos[t]), f, SubSeq(s, 1, t - 1), 0, 0)
        BY <1>0, <1>1, <1>5, <3>5, CutTracked
      <4>2. N = Below(O, pos[t])
        BY <2>4, <3>3, <3>8
      <4>3. t >= 2 /\ ~(t < 2)
        BY <3>5
      <4>4. QED
        BY <1>5, <3>1, <3>6, <3>8, <4>1, <4>2, <4>3
    <3>9. QED
      BY <3>7, <3>8
  <2>7. QED
    BY <2>5, <2>6
<1>9. QED
  BY <1>7, <1>8

-----------------------------------------------------------------------------
(* From a link to the next one.                                            *)

NextAfter(links, x, y) == y \in links /\ x < y /\ \A m \in links : x < m => y <= m

LEMMA BetweenLinks ==
  ASSUME NEW txt, NEW n \in Nat, n = Len(txt), NEW x \in 1..n, NEW y \in 1..(n + 1),
         NEW links, NEW typeOf, AgreesFrom(links, typeOf, txt, x), NextAfter(links, x, y)
  PROVE  \A p \in (x + 1)..(y - 1) : txt[p] = txt[x] /\ txt[p] \notin SingleTypes
<1>1. \A m \in x..n : txt[m] \in SingleTypes \/ m = 1 \/ txt[m] # txt[m - 1] => m \in links
  <2>1. x \in 1..(n + 1)
    OBVIOUS
  <2>2. QED
    BY <2>1, AgreesIs
<1>2. ASSUME NEW p \in (x + 1)..(y - 1) PROVE txt[p] = txt[p - 1] /\ txt[p] \notin SingleTypes
  <2>1. p \in x..n /\ p # 1 /\ x < p /\ p < y
    OBVIOUS
  <2>2. p \notin links
    <3>1. SUFFICES ASSUME p \in links PROVE FALSE
      OBVIOUS
    <3>2. y <= p
      BY <2>1, <3>1 DEF NextAfter
    <3>3. QED
      BY <2>1, <3>2
  <2>3. QED
    BY <1>1, <2>1, <2>2
<1>3. PICK T : T = {p \in x..n : txt[p] = txt[x]}
  OBVIOUS
<1>4. ASSUME NEW p \in (x + 1)..(y - 1), \A j \in (x + 1)..(p - 1) : j \in T PROVE p \in T
  <2>1. txt[p - 1] = txt[x]
    <3>1. p - 1 = x \/ p - 1 \in (x + 1)..(p - 1)
      OBVIOUS
    <3>2. QED
      BY <1>3, <1>4, <3>1
  <2>2. p \in x..n
    OBVIOUS
  <2>3. QED
    BY <1>2, <1>3, <2>1, <2>2
<1>5. \A p \in (x + 1)..(y - 1) : p \in T
  <2>1. x + 1 \in Nat /\ y - 1 \in Nat
    OBVIOUS
  <2>2. PICK a \in Nat, b \in Nat : a = x + 1 /\ b = y - 1
    BY <2>1
  <2>3. \A p \in a..b : (\A j \in a..(p - 1) : j \in T) => p \in T
    BY <1>4, <2>2
  <2>4. \A p \in a..b : p \in T
    BY <2>3, Upwards
  <2>5. QED
    BY <2>2, <2>4
<1>6. QED
  BY <1>2, <1>3, <1>5

LEMMA AfterBetween ==
  ASSUME NEW txt, NEW n \in Nat, n = Len(txt), NEW x \in 1..n, NEW y \in 1..(n + 1),
         NEW links, NEW typeOf, AgreesFrom(links, typeOf, txt, x), NextAfter(links, x, y)
  PROVE  \A p \in x..(y - 1) : After(txt, p) = After(txt, x)
<1>1. \A p \in (x + 1)..(y - 1) : txt[p] \notin SingleTypes
  BY BetweenLinks
<1>2. PICK T : T = {p \in x..n : After(txt, p) = After(txt, x)}
  OBVIOUS
<1>3. ASSUME NEW p \in x..(y - 1), \A j \in x..(p - 1) : j \in T PROVE p \in T
  <2>1. CASE p = x
    BY <1>2, <2>1
  <2>2. CASE p # x
    <3>1. p \in (x + 1)..(y - 1) /\ p \in 1..n /\ p \in x..n /\ p - 1 \in x..(p - 1)
      BY <2>2
    <3>2. After(txt, p - 1) = After(txt, x)
      BY <1>2, <1>3, <3>1
    <3>3. PICK O : O = After(txt, p - 1)
      OBVIOUS
    <3>4. \A j : j \in After(txt, p) <=> (j \in O /\ Stays(txt, p, O, j)) \/ (j = p /\ txt[p] \in Openings)
      BY <3>1, <3>3, AfterOneMore
    <3>5. txt[p] # "PDI" /\ txt[p] # "PDF" /\ txt[p] \notin Openings
      BY <1>1, <3>1, SinglesAre
    <3>6. \A j : Stays(txt, p, O, j)
      BY <3>5 DEF Stays
    <3>7. After(txt, p) = O
      BY <3>4, <3>5, <3>6
    <3>8. QED
      BY <1>2, <3>1, <3>2, <3>3, <3>7
  <2>3. QED
    BY <2>1, <2>2
<1>4. \A p \in x..(y - 1) : p \in T
  <2>1. PICK a \in Nat, b \in Nat : a = x /\ b = y - 1
    OBVIOUS
  <2>2. \A p \in a..b : (\A j \in a..(p - 1) : j \in T) => p \in T
    BY <1>3, <2>1
  <2>3. \A p \in a..b : p \in T
    BY <2>2, Upwards
  <2>4. QED
    BY <2>1, <2>3
<1>5. QED
  BY <1>2, <1>4

ExplicitAt(txt, base, i) ==
  IF txt[i] = "B" THEN base ELSE ScopesOf(txt, base)[ParentOf(txt, i)].level

LEMMA ExplicitBetween ==
  ASSUME NEW txt, NEW n \in Nat, n = Len(txt), NEW x \in 1..n, NEW y \in 1..(n + 1),
         NEW links, NEW typeOf, AgreesFrom(links, typeOf, txt, x), NextAfter(links, x, y),
         NEW base, NEW p \in x..(y - 1)
  PROVE  txt[p] = txt[x] /\ ExplicitAt(txt, base, p) = ExplicitAt(txt, base, x)
<1>1. CASE p = x
  BY <1>1
<1>2. CASE p # x
  <2>1. p \in (x + 1)..(y - 1) /\ p \in Nat /\ p >= 1 /\ x \in Nat /\ x >= 1 /\ x < p
    BY <1>2
  <2>2. txt[p] = txt[x] /\ txt[p] \notin SingleTypes
    BY <2>1, BetweenLinks
  <2>3. txt[x] \notin Openings
    BY <2>2, SinglesAre
  <2>4. PICK O : O = After(txt, x)
    OBVIOUS
  <2>5. After(txt, p) = O
    BY <2>4, AfterBetween
  <2>6. \A j \in O : j \in 1..x /\ j # x
    BY <2>3, <2>4, AfterType
  <2>7. \A j \in O : j < x /\ j < p
    BY <2>1, <2>6
  <2>8. AroundOf(txt, x) = O /\ AroundOf(txt, p) = O
    BY <2>4, <2>5, <2>7 DEF AroundOf
  <2>9. ParentOf(txt, p) = Max({0} \cup AroundOf(txt, p))
    BY <2>1, ParentIs
  <2>10. ParentOf(txt, x) = Max({0} \cup AroundOf(txt, x))
    BY <2>1, ParentIs
  <2>11. ParentOf(txt, p) = ParentOf(txt, x)
    BY <2>8, <2>9, <2>10
  <2>12. QED
    BY <2>2, <2>11 DEF ExplicitAt
<1>3. QED
  BY <1>1, <1>2

(* The level is what the top of the stack gives.                           *)
LEMMA ExplicitIsTop ==
  ASSUME NEW txt, NEW n \in Nat, n = Len(txt), NEW x \in 1..n, txt[x] # "B",
         NEW O, O = AroundOf(txt, x), NEW base, NEW f, f = ScopesOf(txt, base),
         NEW s, NEW over, NEW embedded, Tracked(txt, O, f, s, over, embedded)
  PROVE  ExplicitAt(txt, base, x) = s[Len(s)].level
<1>1. x \in Nat /\ x >= 1
  OBVIOUS
<1>2. PICK m : m = ParentOf(txt, x)
  OBVIOUS
<1>3. Innermost(O, m)
  <2>1. m \in {0} \cup AroundOf(txt, x) /\ \A j \in AroundOf(txt, x) : j <= m
    BY <1>1, <1>2, ParentIs
  <2>2. QED
    BY <2>1 DEF Innermost
<1>4. AreOpen(txt, n, O)
  <2>1. \A j \in O : j \in 1..x /\ txt[j] \in Openings
    BY AfterType DEF AroundOf
  <2>2. \A j \in O : j \in 1..n
    BY <2>1
  <2>3. QED
    BY <2>1, <2>2 DEF AreOpen
<1>5. GivenTop(f, m, s)
  BY <1>3, <1>4, TrackedTop
<1>6. QED
  BY <1>2, <1>5 DEF GivenTop, ExplicitAt

(* What the links give to the positions before one.                        *)
LevelGiven(links, levelOf, i, level) ==
  \E m \in links : m <= i /\ (\A k \in links : k <= i => k <= m) /\ levelOf[m] = level

IsVisible(txt, i) == txt[i] \notin Embeddings \cup {"PDF", "BN"}

LevelledTo(txt, base, links, levelOf, l) ==
  \A i \in 1..(l - 1) : IsVisible(txt, i) => LevelGiven(links, levelOf, i, ExplicitAt(txt, base, i))

LEMMA LevelledNext ==
  ASSUME NEW txt, NEW x \in Nat, NEW y \in Nat, NEW base,
         NEW links, links \subseteq Nat, NEW levelOf, LevelledTo(txt, base, links, levelOf, x),
         NEW links2, links2 \subseteq links, NEW levelOf2,
         \A m \in links : m < x => m \in links2 /\ levelOf2[m] = levelOf[m],
         \A i \in x..(y - 1) : IsVisible(txt, i) => LevelGiven(links2, levelOf2, i, ExplicitAt(txt, base, i))
  PROVE  LevelledTo(txt, base, links2, levelOf2, y)
<1>1. SUFFICES ASSUME NEW i \in 1..(y - 1), IsVisible(txt, i)
               PROVE  LevelGiven(links2, levelOf2, i, ExplicitAt(txt, base, i))
  BY DEF LevelledTo
<1>2. CASE i < x
  <2>1. i \in 1..(x - 1)
    BY <1>2
  <2>2. PICK e : e = ExplicitAt(txt, base, i)
    OBVIOUS
  <2>3. LevelGiven(links, levelOf, i, e)
    BY <1>1, <2>1, <2>2 DEF LevelledTo
  <2>4. PICK m \in links : m <= i /\ (\A k \in links : k <= i => k <= m) /\ levelOf[m] = e
    BY <2>3 DEF LevelGiven
  <2>5. m < x
    BY <1>2, <2>4
  <2>6. m \in links2 /\ levelOf2[m] = levelOf[m]
    BY <2>5
  <2>7. \A k \in links2 : k <= i => k <= m
    BY <2>4
  <2>8. LevelGiven(links2, levelOf2, i, e)
    BY <2>4, <2>6, <2>7 DEF LevelGiven
  <2>9. QED
    BY <2>2, <2>8
<1>3. CASE ~(i < x)
  <2>1. i \in x..(y - 1)
    BY <1>3
  <2>2. QED
    BY <1>1, <2>1
<1>4. QED
  BY <1>2, <1>3

-----------------------------------------------------------------------------
(* The invariant of rules X1 to X8: the links ahead are as PopulateBidiChain*)
(* left them; the stack and the overflow counters are those of what is open*)
(* after the positions passed; and these have got their level.             *)

ChainAgrees == status = "scanning" => AgreesFrom(chain, types, text, link) /\ types[0] = "Nil"

StackTracks ==
  status = "scanning" /\ link # Past =>
    Tracked(text, After(text, link - 1), ScopesOf(text, baseLevel), stack, overIsolate, overEmbedding)

PassedAreLevelled ==
  status # "failed" =>
    LevelledTo(text, baseLevel, chain, levels, IF status = "scanning" THEN link ELSE Past)

ExplicitInv == ChainAgrees /\ StackTracks /\ PassedAreLevelled

LEMMA AtLink ==
  ASSUME IInv, ExplicitInv, status = "scanning", types[link] # "Nil", NEW n, n = Len(text),
         NEW O, O = After(text, link - 1)
  PROVE  /\ n \in Nat /\ link \in 1..n /\ Past = n + 1 /\ text \in Seq(BidiTypes)
         /\ types[link] = text[link] /\ AgreesFrom(chain, types, text, link) /\ types[0] = "Nil"
         /\ AreOpen(text, n, O) /\ \A k \in O : k < link
         /\ Tracked(text, O, ScopesOf(text, baseLevel), stack, overIsolate, overEmbedding)
         /\ LevelledTo(text, baseLevel, chain, levels, link)
<1>1. text \in Seq(BidiTypes) /\ Past \in Nat /\ Past = n + 1 /\ n \in Nat
  BY PastType DEF IInv
<1>2. link \in 1..Past /\ link < Past /\ link \in chain
  BY NotPast DEF IInv, Walk
<1>3. link \in 1..n /\ link # Past
  BY <1>1, <1>2
<1>4. types[link] = text[link]
  <2>1. types[link] = TypesOf(text)[link]
    BY <1>1, <1>2 DEF IInv, Walk
  <2>2. QED
    BY <1>1, <1>3, <2>1 DEF TypesOf
<1>5. \A k \in O : k \in 1..(link - 1) /\ text[k] \in Openings
  BY AfterType
<1>6. AreOpen(text, n, O) /\ \A k \in O : k < link
  <2>1. \A k \in O : k \in 1..n /\ k < link
    BY <1>3, <1>5
  <2>2. QED
    BY <1>5, <2>1 DEF AreOpen
<1>7. Tracked(text, O, ScopesOf(text, baseLevel), stack, overIsolate, overEmbedding)
  BY <1>3 DEF ExplicitInv, StackTracks
<1>8. LevelledTo(text, baseLevel, chain, levels, link)
  BY DEF ExplicitInv, PassedAreLevelled
<1>9. QED
  BY <1>1, <1>3, <1>4, <1>6, <1>7, <1>8 DEF ExplicitInv, ChainAgrees

LEMMA LinkAfter ==
  ASSUME IInv, ExplicitInv, status = "scanning", types[link] # "Nil", Advance, NEW n, n = Len(text)
  PROVE  link' \in 1..(n + 1) /\ link' \in Nat /\ link < link' /\ NextAfter(chain, link, link')
<1>1. /\ link' \in chain /\ link < link' /\ link' \in 1..Past
      /\ \A m \in chain : link < m => link' <= m
  BY AdvanceGoesOn DEF IInv
<1>2. Past = n + 1 /\ n \in Nat
  BY AtLink
<1>3. QED
  BY <1>1, <1>2 DEF NextAfter

(* What every iteration but the last one keeps.                            *)
TracksNext ==
  link' # Past =>
    Tracked(text, After(text, link), ScopesOf(text, baseLevel), stack', overIsolate', overEmbedding')

LEMMA GoesOn ==
  ASSUME IInv, ExplicitInv, status = "scanning", types[link] # "Nil", Advance,
         chain' \in {chain, chain \ {link}}, TracksNext,
         LevelledTo(text, baseLevel, chain', levels', link')
  PROVE  ExplicitInv'
<1>1. PICK n : n = Len(text)
  OBVIOUS
<1>2. /\ n \in Nat /\ link \in 1..n /\ Past = n + 1
      /\ AgreesFrom(chain, types, text, link) /\ types[0] = "Nil"
  BY <1>1, AtLink
<1>3. link' \in 1..(n + 1) /\ link' \in Nat /\ link < link' /\ NextAfter(chain, link, link')
  BY <1>1, LinkAfter
<1>4. /\ text' = text /\ baseLevel' = baseLevel /\ status' = status /\ Past' = Past
      /\ \A l \in 0..Past : l # link => types'[l] = types[l]
  BY DEF Advance, Past
<1>5. ChainAgrees'
  <2>1. types'[0] = "Nil"
    BY <1>2, <1>4
  <2>2. chain' \subseteq chain /\ chain \subseteq 1..(n + 1)
    BY <1>1, <1>2 DEF AgreesFrom
  <2>3. ASSUME NEW m \in link'..(n + 1) PROVE m \in chain' <=> m \in Populated(text)
    <3>1. m \in link..(n + 1) /\ m # link
      BY <1>2, <1>3
    <3>2. m \in chain <=> m \in Populated(text)
      BY <1>1, <1>2, <3>1 DEF AgreesFrom
    <3>3. QED
      BY <3>1, <3>2
  <2>4. ASSUME NEW m \in chain', link' <= m PROVE types'[m] = TypesOf(text)[m]
    <3>1. m \in chain /\ m \in 0..Past /\ link <= m /\ m # link
      BY <1>2, <1>3, <2>2, <2>4
    <3>2. types[m] = TypesOf(text)[m]
      BY <1>2, <3>1 DEF AgreesFrom
    <3>3. QED
      BY <1>4, <3>1, <3>2
  <2>5. AgreesFrom(chain', types', text, link')
    <3>1. chain' \subseteq 1..(n + 1)
      BY <2>2
    <3>2. QED
      BY <1>1, <2>3, <2>4, <3>1 DEF AgreesFrom
  <2>6. QED
    BY <1>4, <2>1, <2>5 DEF ChainAgrees
<1>6. StackTracks'
  <2>1. SUFFICES ASSUME link' # Past
                 PROVE  Tracked(text, After(text, link' - 1), ScopesOf(text, baseLevel), stack',
                                overIsolate', overEmbedding')
    BY <1>4 DEF StackTracks
  <2>3. PICK y \in 1..(n + 1) : y = link'
    BY <1>3
  <2>4. NextAfter(chain, link, y) /\ link < y
    BY <1>3, <2>3
  <2>2a. y - 1 \in link..(y - 1)
    BY <1>2, <2>4
  <2>2. PICK p \in link..(y - 1) : p = link' - 1
    BY <2>2a, <2>3
  <2>5. After(text, p) = After(text, link)
    BY <1>1, <1>2, <2>2, <2>3, <2>4, AfterBetween
  <2>6. Tracked(text, After(text, link), ScopesOf(text, baseLevel), stack', overIsolate', overEmbedding')
    BY <2>1 DEF TracksNext
  <2>7. QED
    BY <2>2, <2>5, <2>6
<1>7. PassedAreLevelled'
  BY <1>4 DEF PassedAreLevelled
<1>8. QED
  BY <1>5, <1>6, <1>7 DEF ExplicitInv

(* A link that is abandoned gives its level to nothing that is kept.       *)
LEMMA AbandonLevels ==
  ASSUME IInv, ExplicitInv, status = "scanning", types[link] \in Embeddings \cup {"PDF", "BN"}, Advance,
         chain' = chain \ {link}, levels' = levels
  PROVE  LevelledTo(text, baseLevel, chain', levels', link')
<1>1. types[link] # "Nil"
  BY DEF Embeddings
<1>2. PICK n : n = Len(text)
  OBVIOUS
<1>3. /\ n \in Nat /\ link \in 1..n /\ types[link] = text[link]
      /\ AgreesFrom(chain, types, text, link) /\ LevelledTo(text, baseLevel, chain, levels, link)
  BY <1>1, <1>2, AtLink
<1>4. PICK y : y = link'
  OBVIOUS
<1>5. y \in 1..(n + 1) /\ y \in Nat /\ NextAfter(chain, link, y)
  BY <1>1, <1>2, <1>4, LinkAfter
<1>6. chain \subseteq Nat
  BY <1>2, <1>3 DEF AgreesFrom
<1>7. \A i \in link..(y - 1) : ~IsVisible(text, i)
  <2>1. TAKE i \in link..(y - 1)
  <2>2. text[i] = text[link]
    BY <1>2, <1>3, <1>5, ExplicitBetween
  <2>3. QED
    BY <1>3, <2>2 DEF IsVisible
<1>8. PICK links2 : links2 = chain \ {link}
  OBVIOUS
<1>9. links2 \subseteq chain /\ \A m \in chain : m < link => m \in links2
  BY <1>3, <1>6, <1>8
<1>10. LevelledTo(text, baseLevel, links2, levels, y)
  <2>1. links2 \subseteq chain /\ \A m \in chain : m < link => m \in links2 /\ levels[m] = levels[m]
    BY <1>9
  <2>2. \A i \in link..(y - 1) : IsVisible(text, i) =>
           LevelGiven(links2, levels, i, ExplicitAt(text, baseLevel, i))
    BY <1>7
  <2>3. link \in Nat
    BY <1>3
  <2>4. QED
    BY <1>3, <1>5, <1>6, <2>1, <2>2, <2>3, LevelledNext
<1>11. QED
  BY <1>4, <1>8, <1>10

(* A link that is given the level of rule X6, by which it may merge.       *)
LEMMA SettleLevels ==
  ASSUME IInv, ExplicitInv, NEW which, At(which), "Nil" \notin which, Advance,
         NEW level \in 0..MaxLevel, NEW override \in {"ON", "L", "R"}, Settle(level, override),
         ExplicitAt(text, baseLevel, link) = level
  PROVE  /\ chain' \in {chain, chain \ {link}}
         /\ LevelledTo(text, baseLevel, chain', levels', link')
<1>1. status = "scanning" /\ types[link] # "Nil"
  BY DEF At
<1>2. PICK n : n = Len(text)
  OBVIOUS
<1>3. /\ n \in Nat /\ link \in 1..n /\ Past = n + 1 /\ types[0] = "Nil"
      /\ AgreesFrom(chain, types, text, link) /\ LevelledTo(text, baseLevel, chain, levels, link)
  BY <1>1, <1>2, AtLink
<1>4. PICK y : y = link'
  OBVIOUS
<1>5. y \in 1..(n + 1) /\ y \in Nat /\ NextAfter(chain, link, y)
  BY <1>1, <1>2, <1>4, LinkAfter
<1>6. chain \subseteq Nat /\ chain \subseteq 1..(n + 1)
  BY <1>2, <1>3 DEF AgreesFrom
<1>7. levels \in [0..Past -> InvalidLevel..MaxLevel] /\ link \in chain /\ priorLink \in chain \cup {0}
      /\ priorLink < link /\ \A m \in chain : priorLink < m => link <= m
  BY <1>1 DEF IInv, WalkType, Walk
<1>8. levels' = [levels EXCEPT ![link] = level]
  BY DEF Settle
<1>9. levels'[link] = level /\ \A m \in 0..Past : m # link => levels'[m] = levels[m]
  BY <1>3, <1>7, <1>8
<1>10. PICK levels2 : levels2 = levels'
  OBVIOUS
<1>11. \A i \in link..(y - 1) : ExplicitAt(text, baseLevel, i) = level
  <2>1. TAKE i \in link..(y - 1)
  <2>2. ExplicitAt(text, baseLevel, i) = ExplicitAt(text, baseLevel, link)
    BY <1>2, <1>3, <1>5, ExplicitBetween
  <2>3. QED
    BY <2>2
<1>12. \A i \in link..(y - 1) : \A k \in chain : k <= i => k <= link
  <2>1. TAKE i \in link..(y - 1)
  <2>2. TAKE k \in chain
  <2>3. HAVE k <= i
  <2>4. link < k => y <= k
    BY <1>5 DEF NextAfter
  <2>5. k \in Nat /\ i < y /\ link \in Nat
    BY <1>3, <1>5, <1>6
  <2>6. QED
    BY <1>5, <2>3, <2>4, <2>5
<1>13. \A m \in chain : m < link => levels2[m] = levels[m]
  <2>1. TAKE m \in chain
  <2>2. HAVE m < link
  <2>3. m \in 0..Past /\ m # link
    BY <1>3, <1>6, <2>2
  <2>4. QED
    BY <1>9, <1>10, <2>3
<1>14. CASE chain' = chain
  <2>1. ASSUME NEW i \in link..(y - 1) PROVE LevelGiven(chain, levels2, i, ExplicitAt(text, baseLevel, i))
    <3>1. ExplicitAt(text, baseLevel, i) = level /\ link <= i /\ levels2[link] = level
      BY <1>9, <1>10, <1>11
    <3>2. \A k \in chain : k <= i => k <= link
      BY <1>12
    <3>3. QED
      BY <1>7, <3>1, <3>2 DEF LevelGiven
  <2>2. LevelledTo(text, baseLevel, chain, levels2, y)
    <3>1. \A m \in chain : m < link => m \in chain /\ levels2[m] = levels[m]
      BY <1>13
    <3>2. \A i \in link..(y - 1) : IsVisible(text, i) =>
             LevelGiven(chain, levels2, i, ExplicitAt(text, baseLevel, i))
      BY <2>1
    <3>3. link \in Nat
      BY <1>3
    <3>4. QED
      BY <1>3, <1>5, <1>6, <3>1, <3>2, <3>3, LevelledNext
  <2>3. QED
    BY <1>4, <1>10, <1>14, <2>2
<1>15. CASE RemoveLink /\ override # "ON" /\ types[priorLink] = override /\ levels[priorLink] = level
  <2>1. chain' = chain \ {link}
    BY <1>1, <1>15, WalkPrecedes DEF RemoveLink, IInv
  <2>2. priorLink \in chain /\ priorLink # link /\ priorLink \in Nat
    <3>1. priorLink # 0
      BY <1>3, <1>15
    <3>2. QED
      BY <1>6, <1>7, <3>1
  <2>3. PICK links2 : links2 = chain \ {link}
    OBVIOUS
  <2>4. levels2[priorLink] = level
    BY <1>7, <1>13, <1>15, <2>2
  <2>5. ASSUME NEW i \in link..(y - 1) PROVE LevelGiven(links2, levels2, i, ExplicitAt(text, baseLevel, i))
    <3>1. ExplicitAt(text, baseLevel, i) = level
      BY <1>11
    <3>2. priorLink <= i
      BY <1>3, <1>7, <2>2
    <3>3. ASSUME NEW k \in links2, k <= i PROVE k <= priorLink
      <4>1. k \in chain /\ k # link /\ k \in Nat
        BY <1>6, <2>3
      <4>2. k <= link
        BY <1>12, <3>3, <4>1
      <4>3. k < link /\ ~(link <= k)
        BY <1>3, <4>1, <4>2
      <4>4. ~(priorLink < k)
        BY <1>7, <4>1, <4>3
      <4>5. QED
        BY <2>2, <4>1, <4>4
    <3>4. priorLink \in links2
      BY <2>2, <2>3
    <3>5. QED
      BY <2>4, <3>1, <3>2, <3>3, <3>4 DEF LevelGiven
  <2>6. LevelledTo(text, baseLevel, links2, levels2, y)
    <3>1. links2 \subseteq chain /\ \A m \in chain : m < link => m \in links2 /\ levels2[m] = levels[m]
      BY <1>3, <1>6, <1>13, <2>3
    <3>2. \A i \in link..(y - 1) : IsVisible(text, i) =>
             LevelGiven(links2, levels2, i, ExplicitAt(text, baseLevel, i))
      BY <2>5
    <3>3. link \in Nat
      BY <1>3
    <3>4. QED
      BY <1>3, <1>5, <1>6, <3>1, <3>2, <3>3, LevelledNext
  <2>7. QED
    BY <1>4, <1>10, <2>1, <2>3, <2>6
<1>16. chain' = chain \/ (RemoveLink /\ override # "ON" /\ types[priorLink] = override /\ levels[priorLink] = level)
  BY DEF Settle
<1>17. QED
  BY <1>14, <1>15, <1>16

LEMMA SettleAdvances ==
  ASSUME WalkType, NEW which, At(which), "Nil" \notin which,
         NEW level \in 0..MaxLevel, NEW override \in {"ON", "L", "R"}, Settle(level, override)
  PROVE  Advance
<1> DEFINE type == IF override = "ON" THEN types[link] ELSE override
<1>1. status = "scanning" /\ types[link] # "Nil" /\ link \in 0..Past
  BY DEF At, WalkType
<1>2. type \in BidiTypes \cup {"Nil"}
  BY <1>1 DEF WalkType, BidiTypes
<1>3. /\ levels' = [levels EXCEPT ![link] = level] /\ types' = [types EXCEPT ![link] = type]
      /\ status' = status
  BY DEF Settle
<1> HIDE DEF type
<1>4. types' \in [0..Past -> BidiTypes \cup {"Nil"}] /\ \A l \in 0..Past : l # link => types'[l] = types[l]
  BY <1>1, <1>2, <1>3 DEF WalkType
<1>5. levels' \in [0..Past -> InvalidLevel..MaxLevel]
  <2>1. level \in InvalidLevel..MaxLevel
    BY LevelsFacts DEF InvalidLevel
  <2>2. QED
    BY <1>3, <2>1 DEF WalkType
<1>6. QED
  BY <1>3, <1>4, <1>5 DEF Advance, At, paragraphVars

-----------------------------------------------------------------------------
(* The iterations.                                                         *)

LEMMA AfterLink ==
  ASSUME NEW txt, NEW n \in Nat, n = Len(txt), NEW x \in 1..n, NEW O, O = After(txt, x - 1),
         NEW N, N = After(txt, x)
  PROVE  /\ txt[x] \in Openings => N = O \cup {x} /\ AroundOf(txt, x) = O
         /\ txt[x] = "PDI" => N = LeftByPDI(txt, O) /\ AroundOf(txt, x) = N
         /\ txt[x] = "PDF" => N = LeftByPDF(txt, O)
         /\ txt[x] \notin Openings \cup {"PDI", "PDF"} => N = O /\ AroundOf(txt, x) = O
<1>1. \A j : j \in N <=> (j \in O /\ Stays(txt, x, O, j)) \/ (j = x /\ txt[x] \in Openings)
  BY AfterOneMore
<1>2. \A j \in O : j < x /\ j # x
  <2>1. \A j \in O : j \in 1..(x - 1)
    BY AfterType
  <2>2. QED
    BY <2>1
<1>3. AroundOf(txt, x) = {j \in N : j < x}
  BY DEF AroundOf
<1>4. CASE txt[x] = "PDI"
  <2>1. txt[x] \notin Openings
    BY <1>4, TypesDiffer
  <2>2. \A j \in O : Stays(txt, x, O, j) <=> j \in LeftByPDI(txt, O)
    BY <1>4 DEF Stays, LeftByPDI
  <2>3. \A j \in LeftByPDI(txt, O) : j \in O
    BY DEF LeftByPDI
  <2>4. N = LeftByPDI(txt, O)
    BY <1>1, <2>1, <2>2, <2>3
  <2>5. \A j \in N : j < x
    BY <1>2, <2>3, <2>4
  <2>6. AroundOf(txt, x) = N
    BY <1>3, <2>5
  <2>7. QED
    BY <1>4, <2>1, <2>4, <2>6
<1>5. CASE txt[x] = "PDF"
  <2>1. txt[x] \notin Openings /\ txt[x] # "PDI"
    BY <1>5, TypesDiffer
  <2>2. \A j \in O : Stays(txt, x, O, j) <=> j \in LeftByPDF(txt, O)
    BY <1>5 DEF Stays, LeftByPDF
  <2>3. \A j \in LeftByPDF(txt, O) : j \in O
    BY DEF LeftByPDF
  <2>4. N = LeftByPDF(txt, O)
    BY <1>1, <2>1, <2>2, <2>3
  <2>5. QED
    BY <1>5, <2>1, <2>4
<1>6. CASE txt[x] # "PDI" /\ txt[x] # "PDF"
  <2>1. \A j : Stays(txt, x, O, j)
    BY <1>6 DEF Stays
  <2>2. \A j : j \in N <=> j \in O \/ (j = x /\ txt[x] \in Openings)
    BY <1>1, <2>1
  <2>3. \A j : j \in AroundOf(txt, x) <=> j \in N /\ j < x
    BY <1>3
  <2>4. AroundOf(txt, x) = O
    <3>1. ~(x < x)
      OBVIOUS
    <3>2. \A j : j \in AroundOf(txt, x) <=> j \in O
      BY <1>2, <2>2, <2>3, <3>1
    <3>3. QED
      BY <3>2
  <2>5. txt[x] \in Openings => N = O \cup {x}
    BY <2>2
  <2>6. txt[x] \notin Openings => N = O
    BY <2>2
  <2>7. QED
    BY <1>6, <2>4, <2>5, <2>6
<1>7. QED
  BY <1>4, <1>5, <1>6

LEMMA OpeningTracks ==
  ASSUME NEW txt, NEW n \in Nat, n = Len(txt), NEW x \in 1..n, txt[x] \in Openings,
         NEW O, O = After(txt, x - 1), NEW base, NEW f, f = ScopesOf(txt, base),
         NEW s, NEW over, NEW embedded, Tracked(txt, O, f, s, over, embedded),
         NEW level \in Nat, level = NextLevel(s[Len(s)].level, TurnsRTL(txt, x)),
         NEW N, N = After(txt, x)
  PROVE  Opened(txt, N, f, s, x, level, over, embedded)
<1>1. N = O \cup {x} /\ AroundOf(txt, x) = O
  BY AfterLink
<1>2. \A j \in O : j \in 1..(x - 1) /\ txt[j] \in Openings
  BY AfterType
<1>3. AreOpen(txt, n, O) /\ \A k \in O : k < x
  <2>1. \A k \in O : k \in 1..n /\ k < x
    BY <1>2
  <2>2. QED
    BY <1>2, <2>1 DEF AreOpen
<1>4. PICK m : m = ParentOf(txt, x)
  OBVIOUS
<1>5. x \in Nat /\ x >= 1 /\ x # 0 /\ x \in 0..n
  OBVIOUS
<1>6. m \in 0..(x - 1) /\ m \in {0} \cup AroundOf(txt, x) /\ \A j \in AroundOf(txt, x) : j <= m
  BY <1>4, <1>5, ParentIs
<1>7. Innermost(O, m)
  BY <1>1, <1>6 DEF Innermost
<1>8. IsScope(f[m])
  <2>1. m \in 0..n
    BY <1>6
  <2>2. QED
    BY <2>1, ScopesAre
<1>9. f[x] = ScopeUnder(f[m], txt, x)
  <2>1. f[x] = ScopeAt(txt, base, f, x)
    BY <1>5, ScopesOfIs
  <2>2. QED
    BY <1>4, <1>5, <2>1 DEF ScopeAt
<1>10. Opened(txt, O \cup {x}, f, s, x, level, over, embedded)
  BY <1>3, <1>7, <1>8, <1>9, TrackOpening
<1>11. QED
  BY <1>1, <1>10

LEMMA AbandonIs ==
  ASSUME IInv, NEW which, At(which), "Nil" \notin which, Abandon
  PROVE  Advance /\ chain' = chain \ {link} /\ levels' = levels
<1>1. status = "scanning" /\ RemoveLink /\ levels' = levels
  BY DEF At, Abandon
<1>2. Advance
  BY DEF Advance, At, Abandon, paragraphVars, WalkType, IInv
<1>3. chain' = chain \ {link}
  BY <1>1, WalkPrecedes DEF RemoveLink, IInv
<1>4. QED
  BY <1>1, <1>2, <1>3

(* The level of a push.                                                    *)
LEMMA NextLevelIs ==
  ASSUME StackIsAccounted, NEW isRTL \in BOOLEAN, NEW turns, turns \in BOOLEAN, isRTL <=> turns,
         NEW level, level = LeastGreater(isRTL)
  PROVE  level \in Nat /\ level = NextLevel(stack[Len(stack)].level, turns)
<1>1. level \in Nat
  BY LeastGreaterIs
<1>2. isRTL = turns
  OBVIOUS
<1>3. LeastGreater(turns) = NextLevel(stack[Len(stack)].level, turns)
  BY DEF LeastGreater, NextLevel, Top
<1>4. QED
  BY <1>1, <1>2, <1>3

LEMMA EmbedTracks ==
  ASSUME IInv, ExplicitInv, Embed
  PROVE  Tracked(text, After(text, link), ScopesOf(text, baseLevel), stack', overIsolate', overEmbedding')
<1>1. status = "scanning" /\ types[link] \in Embeddings /\ types[link] # "Nil"
  BY DEF Embed, At, Embeddings
<1>2. PICK n, O, f : n = Len(text) /\ O = After(text, link - 1) /\ f = ScopesOf(text, baseLevel)
  OBVIOUS
<1>3. /\ n \in Nat /\ link \in 1..n /\ types[link] = text[link]
      /\ Tracked(text, O, f, stack, overIsolate, overEmbedding)
  BY <1>1, <1>2, AtLink
<1>4. text[link] \in Openings /\ text[link] \in Embeddings /\ text[link] \notin Initiators /\ text[link] # "FSI"
      /\ text[link] # "RLI"
  BY <1>1, <1>3, TypesDiffer DEF Initiators
<1>5. PICK isRTL \in BOOLEAN : isRTL = (types[link] \in {"RLE", "RLO"})
  <2>1. (types[link] \in {"RLE", "RLO"}) \in BOOLEAN
    OBVIOUS
  <2>2. QED
    BY <2>1, Zenon
<1>6. PICK turns \in BOOLEAN : turns = TurnsRTL(text, link)
  BY DEF TurnsRTL
<1>7. isRTL <=> turns
  <2>1. turns <=> text[link] \in {"RLE", "RLO"}
    BY <1>4, <1>6 DEF TurnsRTL
  <2>2. QED
    BY <1>3, <1>5, <2>1
<1>8. PICK level : level = LeastGreater(isRTL)
  OBVIOUS
<1>9. level \in Nat /\ level = NextLevel(stack[Len(stack)].level, TurnsRTL(text, link))
  <2>1. level \in Nat /\ level = NextLevel(stack[Len(stack)].level, turns)
    BY <1>7, <1>8, NextLevelIs DEF IInv
  <2>2. QED
    BY <1>6, <2>1
<1>10. PICK e, over2, embedded2 :
         /\ e = Pushed(text, link, level) /\ over2 = OpenedOver(text, link, overIsolate)
         /\ embedded2 = OpenedEmbedded(text, link, overIsolate, overEmbedding)
  OBVIOUS
<1>11. PICK override : override = IF types[link] = "RLO" THEN "R" ELSE IF types[link] = "LRO" THEN "L" ELSE "ON"
  OBVIOUS
<1>12. e = Status(level, override, FALSE)
  <2>1. override = OverrideOf(text[link])
    BY <1>3, <1>11 DEF OverrideOf
  <2>2. (text[link] \in Initiators) = FALSE
    BY <1>4
  <2>3. QED
    BY <1>10, <2>1, <2>2 DEF Pushed
<1>13. /\ over2 = overIsolate
       /\ embedded2 = IF overIsolate = 0 THEN overEmbedding + 1 ELSE overEmbedding
  BY <1>4, <1>10 DEF OpenedOver, OpenedEmbedded
<1>15. PICK N : N = After(text, link)
  OBVIOUS
<1>16. Opened(text, N, f, stack, link, level, overIsolate, overEmbedding)
  BY <1>2, <1>3, <1>4, <1>9, <1>15, OpeningTracks
<1>17. overIsolate' = overIsolate
  BY DEF Embed
<1>18. \/ CanPush(level) /\ stack' = Append(stack, Status(level, override, FALSE)) /\ overEmbedding' = overEmbedding
       \/ /\ ~CanPush(level)
          /\ overEmbedding' = IF overIsolate = 0 THEN overEmbedding + 1 ELSE overEmbedding
          /\ stack' = stack
  BY <1>5, <1>8, <1>11 DEF Embed
<1>19. Tracked(text, N, f, stack', overIsolate', overEmbedding')
  <2>1. CASE CanPush(level) /\ stack' = Append(stack, Status(level, override, FALSE)) /\ overEmbedding' = overEmbedding
    <3>1. stack' = Append(stack, e) /\ overIsolate' = 0 /\ overEmbedding' = 0
      BY <1>12, <1>17, <2>1 DEF CanPush
    <3>2. Tracked(text, N, f, Append(stack, e), 0, 0)
      BY <1>10, <1>16, <2>1 DEF CanPush, Opened, Fits
    <3>3. QED
      BY <3>1, <3>2
  <2>2. CASE /\ ~CanPush(level)
             /\ overEmbedding' = IF overIsolate = 0 THEN overEmbedding + 1 ELSE overEmbedding
             /\ stack' = stack
    <3>1. over2 = overIsolate' /\ embedded2 = overEmbedding'
      BY <1>13, <1>17, <2>2
    <3>2. Tracked(text, N, f, stack, over2, embedded2)
      BY <1>10, <1>16, <2>2 DEF CanPush, Opened, Fits
    <3>3. QED
      BY <2>2, <3>1, <3>2
  <2>3. QED
    BY <1>18, <2>1, <2>2
<1>20. QED
  BY <1>2, <1>15, <1>19

LEMMA EmbedKeepsExplicit == ASSUME IInv, ExplicitInv, Embed PROVE ExplicitInv'
<1>1. At(Embeddings) /\ Abandon /\ "Nil" \notin Embeddings
  BY DEF Embed, Embeddings
<1>2. status = "scanning" /\ types[link] # "Nil" /\ types[link] \in Embeddings
  BY <1>1 DEF At
<1>3. Advance /\ chain' = chain \ {link} /\ levels' = levels
  BY <1>1, AbandonIs
<1>4. LevelledTo(text, baseLevel, chain', levels', link')
  BY <1>2, <1>3, AbandonLevels
<1>5. TracksNext
  BY EmbedTracks DEF TracksNext
<1>6. QED
  BY <1>2, <1>3, <1>4, <1>5, GoesOn

LEMMA DropKeepsExplicit == ASSUME IInv, ExplicitInv, Drop PROVE ExplicitInv'
<1>1. At({"BN"}) /\ Abandon /\ UNCHANGED stackVars
  BY DEF Drop
<1>2. status = "scanning" /\ types[link] # "Nil" /\ types[link] = "BN"
  BY <1>1 DEF At
<1>3. Advance /\ chain' = chain \ {link} /\ levels' = levels
  BY <1>1, AbandonIs
<1>4. LevelledTo(text, baseLevel, chain', levels', link')
  BY <1>2, <1>3, AbandonLevels
<1>5. PICK n, O, f : n = Len(text) /\ O = After(text, link - 1) /\ f = ScopesOf(text, baseLevel)
  OBVIOUS
<1>6. /\ n \in Nat /\ link \in 1..n /\ types[link] = text[link]
      /\ Tracked(text, O, f, stack, overIsolate, overEmbedding)
  BY <1>2, <1>5, AtLink
<1>7. After(text, link) = O
  <2>1. text[link] \notin Openings \cup {"PDI", "PDF"}
    BY <1>2, <1>6, TypesDiffer
  <2>2. QED
    BY <1>5, <1>6, <2>1, AfterLink
<1>8. TracksNext
  BY <1>1, <1>5, <1>6, <1>7 DEF TracksNext, stackVars
<1>9. QED
  BY <1>2, <1>3, <1>4, <1>8, GoesOn

(* An iteration that gives its link the level of the top of the stack.     *)
LEMMA SettleKeepsExplicit ==
  ASSUME IInv, ExplicitInv, NEW which, At(which), "Nil" \notin which,
         NEW level \in 0..MaxLevel, NEW override \in {"ON", "L", "R"}, Settle(level, override),
         ExplicitAt(text, baseLevel, link) = level, TracksNext
  PROVE  ExplicitInv'
<1>1. status = "scanning" /\ types[link] # "Nil"
  BY DEF At
<1>2. Advance
  BY SettleAdvances DEF IInv
<1>3. chain' \in {chain, chain \ {link}} /\ LevelledTo(text, baseLevel, chain', levels', link')
  BY <1>2, SettleLevels
<1>4. QED
  BY <1>1, <1>2, <1>3, GoesOn

LEMMA IsolateTracks ==
  ASSUME IInv, ExplicitInv, Isolate
  PROVE  Tracked(text, After(text, link), ScopesOf(text, baseLevel), stack', overIsolate', overEmbedding')
<1>1. status = "scanning" /\ types[link] \in Initiators /\ types[link] # "Nil"
  BY DEF Isolate, At, Initiators
<1>2. PICK n, O, f : n = Len(text) /\ O = After(text, link - 1) /\ f = ScopesOf(text, baseLevel)
  OBVIOUS
<1>3. /\ n \in Nat /\ link \in 1..n /\ types[link] = text[link]
      /\ Tracked(text, O, f, stack, overIsolate, overEmbedding)
      /\ AgreesFrom(chain, types, text, link)
  BY <1>1, <1>2, AtLink
<1>4. text[link] \in Openings /\ text[link] \in Initiators /\ text[link] \notin Embeddings
  BY <1>1, <1>3, TypesDiffer
<1>5. text[link] \notin {"RLE", "RLO", "LRO"}
  BY <1>4 DEF Initiators
<1>6. PICK isRTL \in BOOLEAN :
        isRTL = (\/ types[link] = "RLI"
                 \/ types[link] = "FSI" /\ DetermineBaseLevel(chain, types, link, 0, TRUE) = 1)
  OBVIOUS
<1>7. PICK turns \in BOOLEAN : turns = TurnsRTL(text, link)
  BY DEF TurnsRTL
<1>8. isRTL <=> turns
  <2>1. turns <=> text[link] = "RLI" \/ (text[link] = "FSI" /\ IsRTLIsolateOf(text, link))
    BY <1>5, <1>7 DEF TurnsRTL
  <2>2. DetermineBaseLevel(chain, types, link, 0, TRUE) = 1 <=> IsRTLIsolateOf(text, link)
    BY <1>2, <1>3, <1>4, IsolateLevelIs
  <2>3. QED
    BY <1>3, <1>6, <2>1, <2>2
<1>9. PICK level : level = LeastGreater(isRTL)
  OBVIOUS
<1>10. level \in Nat /\ level = NextLevel(stack[Len(stack)].level, TurnsRTL(text, link))
  <2>1. level \in Nat /\ level = NextLevel(stack[Len(stack)].level, turns)
    BY <1>8, <1>9, NextLevelIs DEF IInv
  <2>2. QED
    BY <1>7, <2>1
<1>11. PICK e, over2, embedded2 :
         /\ e = Pushed(text, link, level) /\ over2 = OpenedOver(text, link, overIsolate)
         /\ embedded2 = OpenedEmbedded(text, link, overIsolate, overEmbedding)
  OBVIOUS
<1>12. e = Status(level, "ON", TRUE)
  <2>1. OverrideOf(text[link]) = "ON"
    BY <1>5 DEF OverrideOf
  <2>2. (text[link] \in Initiators) = TRUE
    BY <1>4
  <2>3. QED
    BY <1>11, <2>1, <2>2 DEF Pushed
<1>13. over2 = overIsolate + 1 /\ embedded2 = overEmbedding
  BY <1>4, <1>11 DEF OpenedOver, OpenedEmbedded
<1>14. PICK N : N = After(text, link)
  OBVIOUS
<1>15. Opened(text, N, f, stack, link, level, overIsolate, overEmbedding)
  BY <1>2, <1>3, <1>4, <1>10, <1>14, OpeningTracks
<1>16. overEmbedding' = overEmbedding
  BY DEF Isolate
<1>17. \/ CanPush(level) /\ stack' = Append(stack, Status(level, "ON", TRUE)) /\ overIsolate' = overIsolate
       \/ ~CanPush(level) /\ overIsolate' = overIsolate + 1 /\ stack' = stack
  BY <1>6, <1>9 DEF Isolate
<1>18. Tracked(text, N, f, stack', overIsolate', overEmbedding')
  <2>1. CASE CanPush(level) /\ stack' = Append(stack, Status(level, "ON", TRUE)) /\ overIsolate' = overIsolate
    <3>1. stack' = Append(stack, e) /\ overIsolate' = 0 /\ overEmbedding' = 0
      BY <1>12, <1>16, <2>1 DEF CanPush
    <3>2. Tracked(text, N, f, Append(stack, e), 0, 0)
      BY <1>11, <1>15, <2>1 DEF CanPush, Opened, Fits
    <3>3. QED
      BY <3>1, <3>2
  <2>2. CASE ~CanPush(level) /\ overIsolate' = overIsolate + 1 /\ stack' = stack
    <3>1. over2 = overIsolate' /\ embedded2 = overEmbedding'
      BY <1>13, <1>16, <2>2
    <3>2. Tracked(text, N, f, stack, over2, embedded2)
      BY <1>11, <1>15, <2>2 DEF CanPush, Opened, Fits
    <3>3. QED
      BY <2>2, <3>1, <3>2
  <2>3. QED
    BY <1>17, <2>1, <2>2
<1>19. QED
  BY <1>2, <1>14, <1>18

(* The level of an initiator or of a character.                            *)
LEMMA TopIsExplicit ==
  ASSUME IInv, ExplicitInv, status = "scanning", types[link] # "Nil",
         types[link] \notin {"PDI", "PDF", "B"}
  PROVE  ExplicitAt(text, baseLevel, link) = Top.level
<1>1. PICK n, O, f : n = Len(text) /\ O = After(text, link - 1) /\ f = ScopesOf(text, baseLevel)
  OBVIOUS
<1>2. /\ n \in Nat /\ link \in 1..n /\ types[link] = text[link]
      /\ Tracked(text, O, f, stack, overIsolate, overEmbedding)
  BY <1>1, AtLink
<1>3. AroundOf(text, link) = O
  <2>1. text[link] \in Openings \/ text[link] \notin Openings \cup {"PDI", "PDF"}
    BY <1>2
  <2>2. QED
    BY <1>1, <1>2, <2>1, AfterLink
<1>4. ExplicitAt(text, baseLevel, link) = stack[Len(stack)].level
  <2>1. text[link] # "B"
    BY <1>2
  <2>2. QED
    BY <1>1, <1>2, <1>3, <2>1, ExplicitIsTop
<1>5. QED
  BY <1>4 DEF Top

LEMMA IsolateKeepsExplicit == ASSUME IInv, ExplicitInv, Isolate PROVE ExplicitInv'
<1>1. At(Initiators) /\ "Nil" \notin Initiators /\ Settle(Top.level, Top.override)
  BY DEF Isolate, Initiators
<1>2. status = "scanning" /\ types[link] # "Nil" /\ types[link] \notin {"PDI", "PDF", "B"}
  BY <1>1 DEF At, Initiators
<1>3. PICK level \in 0..MaxLevel, override \in {"ON", "L", "R"} : level = Top.level /\ override = Top.override
  BY TopType DEF IInv
<1>4. ExplicitAt(text, baseLevel, link) = level
  BY <1>2, <1>3, TopIsExplicit
<1>5. TracksNext
  BY IsolateTracks DEF TracksNext
<1>6. Settle(level, override)
  BY <1>1, <1>3
<1>7. QED
  BY <1>1, <1>4, <1>5, <1>6, SettleKeepsExplicit

LEMMA AssignKeepsExplicit == ASSUME IInv, ExplicitInv, Assign PROVE ExplicitInv'
<1>1. At({"L", "R", "ON"}) /\ Settle(Top.level, Top.override) /\ UNCHANGED stackVars
  BY DEF Assign
<1>2. status = "scanning" /\ types[link] # "Nil" /\ types[link] \notin {"PDI", "PDF", "B"}
      /\ types[link] \in {"L", "R", "ON"}
  BY <1>1 DEF At
<1>3. PICK level \in 0..MaxLevel, override \in {"ON", "L", "R"} : level = Top.level /\ override = Top.override
  BY TopType DEF IInv
<1>4. ExplicitAt(text, baseLevel, link) = level
  BY <1>2, <1>3, TopIsExplicit
<1>5. PICK n, O, f : n = Len(text) /\ O = After(text, link - 1) /\ f = ScopesOf(text, baseLevel)
  OBVIOUS
<1>6. /\ n \in Nat /\ link \in 1..n /\ types[link] = text[link]
      /\ Tracked(text, O, f, stack, overIsolate, overEmbedding)
  BY <1>2, <1>5, AtLink
<1>7. After(text, link) = O
  <2>1. text[link] \notin Openings \cup {"PDI", "PDF"}
    BY <1>2, <1>6, TypesDiffer
  <2>2. QED
    BY <1>5, <1>6, <2>1, AfterLink
<1>8. TracksNext
  BY <1>1, <1>5, <1>6, <1>7 DEF TracksNext, stackVars
<1>9. Settle(level, override)
  BY <1>1, <1>3
<1>10. QED
  BY <1>1, <1>4, <1>8, <1>9, SettleKeepsExplicit

LEMMA CloseIsolateKeepsExplicit == ASSUME IInv, ExplicitInv, CloseIsolate PROVE ExplicitInv'
<1>1. status = "scanning" /\ types[link] = "PDI" /\ types[link] # "Nil"
  BY DEF CloseIsolate, At
<1>2. PICK n, O, f : n = Len(text) /\ O = After(text, link - 1) /\ f = ScopesOf(text, baseLevel)
  OBVIOUS
<1>3. /\ n \in Nat /\ link \in 1..n /\ types[link] = text[link] /\ AreOpen(text, n, O)
      /\ Tracked(text, O, f, stack, overIsolate, overEmbedding)
  BY <1>1, <1>2, AtLink
<1>4. PICK N : N = LeftByPDI(text, O)
  OBVIOUS
<1>5. /\ overIsolate # 0 => Tracked(text, N, f, stack, overIsolate - 1, overEmbedding)
      /\ overIsolate = 0 /\ Isolates(stack) = {} => Tracked(text, N, f, stack, overIsolate, overEmbedding)
      /\ overIsolate = 0 /\ Isolates(stack) # {} =>
           Tracked(text, N, f, SubSeq(stack, 1, Max(Isolates(stack)) - 1), 0, 0)
  BY <1>3, <1>4, TrackPDI
<1>6. validIsolate = 0 <=> Isolates(stack) = {}
  <2>1. stack \in Seq(Entries) /\ validIsolate = Cardinality(Isolates(stack))
    BY DEF IInv, StackIsAccounted, Accounted
  <2>2. IsFiniteSet(Isolates(stack))
    BY <2>1, IsolatesFinite
  <2>3. QED
    BY <2>1, <2>2, FS_EmptySet
<1>7. \/ /\ overIsolate # 0 /\ overIsolate' = overIsolate - 1
         /\ overEmbedding' = overEmbedding /\ stack' = stack
      \/ /\ overIsolate = 0 /\ validIsolate = 0
         /\ overIsolate' = overIsolate /\ overEmbedding' = overEmbedding /\ stack' = stack
      \/ /\ overIsolate = 0 /\ validIsolate # 0
         /\ overIsolate' = 0 /\ overEmbedding' = 0
         /\ stack' = SubSeq(stack, 1, Max(Isolates(stack)) - 1)
  BY DEF CloseIsolate, Isolates, stackVars
<1>8. Tracked(text, N, f, stack', overIsolate', overEmbedding')
  <2>1. CASE /\ overIsolate # 0 /\ overIsolate' = overIsolate - 1
             /\ overEmbedding' = overEmbedding /\ stack' = stack
    BY <1>5, <2>1
  <2>2. CASE /\ overIsolate = 0 /\ validIsolate = 0
             /\ overIsolate' = overIsolate /\ overEmbedding' = overEmbedding /\ stack' = stack
    BY <1>5, <1>6, <2>2
  <2>3. CASE /\ overIsolate = 0 /\ validIsolate # 0
             /\ overIsolate' = 0 /\ overEmbedding' = 0
             /\ stack' = SubSeq(stack, 1, Max(Isolates(stack)) - 1)
    <3>1. Tracked(text, N, f, SubSeq(stack, 1, Max(Isolates(stack)) - 1), 0, 0)
      BY <1>5, <1>6, <2>3
    <3>2. QED
      BY <2>3, <3>1
  <2>4. QED
    BY <1>7, <2>1, <2>2, <2>3
<1>9. After(text, link) = N /\ AroundOf(text, link) = N
  <2>1. text[link] = "PDI"
    BY <1>1, <1>3
  <2>2. QED
    BY <1>2, <1>3, <1>4, <2>1, AfterLink
<1>10. TracksNext
  BY <1>2, <1>8, <1>9 DEF TracksNext
<1>11. PICK s, over, embedded : s = stack' /\ over = overIsolate' /\ embedded = overEmbedding'
  OBVIOUS
<1>12. s \in Seq(Entries) /\ Len(s) \in Nat /\ Len(s) >= 1
  <2>1. IInv'
    BY CloseIsolateKeeps
  <2>2. StackIsAccounted'
    BY <2>1 DEF IInv
  <2>3. Accounted(s, baseLevel', validIsolate')
    BY <1>11, <2>2 DEF StackIsAccounted
  <2>4. QED
    BY <2>3 DEF Accounted
<1>13. PICK k \in 1..Len(s) : k = Len(s)
  BY <1>12
<1>14. PICK level \in 0..MaxLevel, override \in {"ON", "L", "R"} :
         level = s[k].level /\ override = s[k].override
  BY <1>12, EntryType
<1>15. At({"PDI"}) /\ Settle(level, override)
  BY <1>11, <1>13, <1>14 DEF CloseIsolate
<1>16. ExplicitAt(text, baseLevel, link) = level
  <2>1. text[link] # "B"
    BY <1>1, <1>3
  <2>2. Tracked(text, N, f, s, over, embedded)
    BY <1>8, <1>11
  <2>3. ExplicitAt(text, baseLevel, link) = s[Len(s)].level
    BY <1>2, <1>3, <1>9, <2>1, <2>2, ExplicitIsTop
  <2>4. QED
    BY <1>13, <1>14, <2>3
<1>17. QED
  BY <1>10, <1>15, <1>16, SettleKeepsExplicit

LEMMA CloseEmbeddingKeepsExplicit == ASSUME IInv, ExplicitInv, CloseEmbedding PROVE ExplicitInv'
<1>1. At({"PDF"}) /\ Abandon
  BY DEF CloseEmbedding
<1>2. status = "scanning" /\ types[link] # "Nil" /\ types[link] = "PDF"
  BY <1>1 DEF At
<1>3. Advance /\ chain' = chain \ {link} /\ levels' = levels
  BY <1>1, AbandonIs
<1>4. LevelledTo(text, baseLevel, chain', levels', link')
  BY <1>2, <1>3, AbandonLevels
<1>5. PICK n, O, f : n = Len(text) /\ O = After(text, link - 1) /\ f = ScopesOf(text, baseLevel)
  OBVIOUS
<1>6. /\ n \in Nat /\ link \in 1..n /\ types[link] = text[link] /\ AreOpen(text, n, O)
      /\ Tracked(text, O, f, stack, overIsolate, overEmbedding)
  BY <1>2, <1>5, AtLink
<1>7. PICK N : N = LeftByPDF(text, O)
  OBVIOUS
<1>8. /\ overIsolate = 0 /\ overEmbedding # 0 => Tracked(text, N, f, stack, overIsolate, overEmbedding - 1)
      /\ overIsolate = 0 /\ overEmbedding = 0 /\ ~stack[Len(stack)].isolate /\ Len(stack) >= 2 =>
           Tracked(text, N, f, SubSeq(stack, 1, Len(stack) - 1), 0, 0)
      /\ overIsolate # 0 \/ (overEmbedding = 0 /\ (stack[Len(stack)].isolate \/ Len(stack) < 2)) =>
           Tracked(text, N, f, stack, overIsolate, overEmbedding)
  BY <1>6, <1>7, TrackPDF
<1>9. overIsolate' = overIsolate
  BY DEF CloseEmbedding
<1>10. \/ /\ overIsolate = 0 /\ overEmbedding # 0
          /\ overEmbedding' = overEmbedding - 1 /\ stack' = stack
       \/ /\ overIsolate = 0 /\ overEmbedding = 0 /\ ~stack[Len(stack)].isolate /\ Len(stack) >= 2
          /\ stack' = SubSeq(stack, 1, Len(stack) - 1) /\ overEmbedding' = overEmbedding
       \/ /\ overIsolate # 0 \/ (overEmbedding = 0 /\ (stack[Len(stack)].isolate \/ Len(stack) < 2))
          /\ overEmbedding' = overEmbedding /\ stack' = stack
  BY DEF CloseEmbedding, Top
<1>11. Tracked(text, N, f, stack', overIsolate', overEmbedding')
  <2>1. CASE /\ overIsolate = 0 /\ overEmbedding # 0
             /\ overEmbedding' = overEmbedding - 1 /\ stack' = stack
    BY <1>8, <1>9, <2>1
  <2>2. CASE /\ overIsolate = 0 /\ overEmbedding = 0 /\ ~stack[Len(stack)].isolate /\ Len(stack) >= 2
             /\ stack' = SubSeq(stack, 1, Len(stack) - 1) /\ overEmbedding' = overEmbedding
    <3>1. Tracked(text, N, f, SubSeq(stack, 1, Len(stack) - 1), 0, 0)
      BY <1>8, <2>2
    <3>2. overIsolate' = 0 /\ overEmbedding' = 0
      BY <1>9, <2>2
    <3>3. QED
      BY <2>2, <3>1, <3>2
  <2>3. CASE /\ overIsolate # 0 \/ (overEmbedding = 0 /\ (stack[Len(stack)].isolate \/ Len(stack) < 2))
             /\ overEmbedding' = overEmbedding /\ stack' = stack
    BY <1>8, <1>9, <2>3
  <2>4. QED
    BY <1>10, <2>1, <2>2, <2>3
<1>12. After(text, link) = N
  <2>1. text[link] = "PDF"
    BY <1>2, <1>6
  <2>2. QED
    BY <1>5, <1>6, <1>7, <2>1, AfterLink
<1>13. TracksNext
  BY <1>5, <1>11, <1>12 DEF TracksNext
<1>14. QED
  BY <1>2, <1>3, <1>4, <1>13, GoesOn

LEMMA SeparateKeepsExplicit == ASSUME IInv, ExplicitInv, Separate PROVE ExplicitInv'
<1>1. At({"B"}) /\ Settle(baseLevel, "ON") /\ "Nil" \notin {"B"}
  BY DEF Separate
<1>2. status = "scanning" /\ types[link] = "B" /\ types[link] # "Nil"
  BY <1>1 DEF At
<1>3. PICK n : n = Len(text)
  OBVIOUS
<1>4. n \in Nat /\ link \in 1..n /\ types[link] = text[link] /\ Past = n + 1
  BY <1>2, <1>3, AtLink
<1>5. link = n
  <2>1. text \in Texts
    BY DEF IInv, WalkType
  <2>2. QED
    BY <1>2, <1>3, <1>4, <2>1, TextsAssumption
<1>6. baseLevel \in 0..(MaxLevel - 1)
  BY DEF IInv, WalkType
<1>7. PICK level \in 0..MaxLevel, override \in {"ON", "L", "R"} : level = baseLevel /\ override = "ON"
  BY <1>6, LevelsFacts
<1>8. Settle(level, override)
  BY <1>1, <1>7
<1>9. Advance
  BY <1>1, <1>8, SettleAdvances DEF IInv
<1>10. TracksNext
  <2>1. link' \in 1..(n + 1) /\ link < link'
    BY <1>2, <1>3, <1>9, LinkAfter
  <2>2. link' = Past
    BY <1>4, <1>5, <2>1
  <2>3. Past' = Past
    BY <1>9 DEF Advance, Past
  <2>4. QED
    BY <2>2, <2>3 DEF TracksNext
<1>11. ExplicitAt(text, baseLevel, link) = level
  BY <1>2, <1>4, <1>7 DEF ExplicitAt
<1>12. QED
  BY <1>1, <1>8, <1>10, <1>11, SettleKeepsExplicit

LEMMA FinishKeepsExplicit == ASSUME IInv, ExplicitInv, Finish PROVE ExplicitInv'
<1>1. /\ status = "scanning" /\ types[link] = "Nil" /\ text' = text /\ baseLevel' = baseLevel
      /\ status' = "resolving" /\ chain' = chain /\ levels' = [levels EXCEPT ![link] = baseLevel]
      /\ Past' = Past
  BY DEF Finish, At, paragraphVars, Past
<1>2. /\ text \in Seq(BidiTypes) /\ Past \in Nat /\ Past = Len(text) + 1
      /\ chain \subseteq 1..Past /\ link \in chain /\ levels \in [0..Past -> InvalidLevel..MaxLevel]
      /\ types[link] = TypesOf(text)[link]
  BY <1>1, PastType DEF IInv, WalkType, Walk
<1>3. link = Past
  <2>1. SUFFICES ASSUME link # Past PROVE FALSE
    OBVIOUS
  <2>2. link \in 1..Len(text)
    <3>1. PICK n : n = Len(text)
      OBVIOUS
    <3>2. n \in Nat /\ Past = n + 1
      BY <1>2, <3>1
    <3>3. link \in 1..(n + 1) /\ link # n + 1
      <4>1. link \in 1..Past
        BY <1>2
      <4>2. QED
        BY <2>1, <3>2, <4>1
    <3>4. link \in 1..n
      BY <3>2, <3>3
    <3>5. QED
      BY <3>1, <3>4
  <2>3. TypesOf(text)[link] = text[link]
    BY <1>2, <2>2 DEF TypesOf
  <2>4. text[link] \in BidiTypes
    <3>1. text \in Seq(BidiTypes)
      BY <1>2
    <3>2. \A k \in 1..Len(text) : text[k] \in BidiTypes
      BY <3>1
    <3>3. QED
      BY <2>2, <3>2
  <2>5. text[link] = "Nil"
    BY <1>1, <1>2, <2>3
  <2>6. "Nil" \notin BidiTypes
    BY DEF BidiTypes, Embeddings, Initiators
  <2>7. QED
    BY <2>4, <2>5, <2>6
<1>4. LevelledTo(text, baseLevel, chain, levels, Past)
  BY <1>1, <1>3 DEF ExplicitInv, PassedAreLevelled
<1>5. PICK levels2 : levels2 = levels'
  OBVIOUS
<1>6. LevelledTo(text, baseLevel, chain, levels2, Past)
  <2>1. \A m \in chain : m < Past => m \in chain /\ levels2[m] = levels[m]
    <3>1. TAKE m \in chain
    <3>2. HAVE m < Past
    <3>3. m \in 0..Past /\ m # link
      BY <1>2, <1>3, <3>2
    <3>4. QED
      BY <1>1, <1>2, <1>5, <3>3
  <2>2. chain \subseteq Nat /\ chain \subseteq chain
    BY <1>2
  <2>3. \A i \in Past..(Past - 1) : IsVisible(text, i) =>
          LevelGiven(chain, levels2, i, ExplicitAt(text, baseLevel, i))
    BY <1>2
  <2>4. QED
    BY <1>2, <1>4, <2>1, <2>2, <2>3, LevelledNext
<1>7. LevelledTo(text', baseLevel', chain', levels', Past')
  BY <1>1, <1>5, <1>6
<1>8. QED
  BY <1>1, <1>7 DEF ExplicitInv, ChainAgrees, StackTracks, PassedAreLevelled

LEMMA RestKeepsExplicit ==
  ASSUME ExplicitInv, Resolve \/ Complete \/ Fail \/ UNCHANGED vars
  PROVE  ExplicitInv'
<1>1. CASE Resolve \/ Complete
  <2>1. /\ text' = text /\ baseLevel' = baseLevel /\ chain' = chain /\ levels' = levels /\ Past' = Past
        /\ status = "resolving" /\ status' \in {"resolving", "resolved"}
    BY <1>1 DEF Resolve, Complete, paragraphVars, Past
  <2>2. LevelledTo(text, baseLevel, chain, levels, Past)
    BY <2>1 DEF ExplicitInv, PassedAreLevelled
  <2>3. QED
    BY <2>1, <2>2 DEF ExplicitInv, ChainAgrees, StackTracks, PassedAreLevelled
<1>2. CASE Fail
  BY <1>2 DEF Fail, ExplicitInv, ChainAgrees, StackTracks, PassedAreLevelled
<1>3. CASE UNCHANGED vars
  BY <1>3 DEF vars, Past, ExplicitInv, ChainAgrees, StackTracks, PassedAreLevelled
<1>4. QED
  BY <1>1, <1>2, <1>3

(* At first nothing is open.                                               *)
LEMMA OneEntry ==
  ASSUME NEW e, NEW s, s = <<e>>
  PROVE  Len(s) = 1 /\ s[1] = e
  OBVIOUS

LEMMA BaseTracked ==
  ASSUME NEW txt, NEW base, NEW n \in Nat, n = Len(txt), NEW f, f = ScopesOf(txt, base),
         NEW s, s = <<Status(base, "ON", FALSE)>>
  PROVE  Tracked(txt, {}, f, s, 0, 0)
<1>1. f[0] = [level |-> base, override |-> "ON", overflows |-> FALSE]
  <2>1. 0 \in 0..n
    OBVIOUS
  <2>2. f[0] = ScopeAt(txt, base, f, 0)
    BY <2>1, ScopesOfIs
  <2>3. QED
    BY <2>2 DEF ScopeAt
<1>2. f[0].level = base /\ f[0].override = "ON" /\ ~f[0].overflows
  BY <1>1
<1>3. PICK e : e = Status(base, "ON", FALSE)
  OBVIOUS
<1>4. e = Entry(f, txt, 0)
  <2>1. (0 # 0 /\ txt[0] \in Initiators) = FALSE
    OBVIOUS
  <2>2. QED
    BY <1>2, <1>3, <2>1 DEF Entry
<1>5. s = <<e>>
  BY <1>3
<1>6. Len(s) = 1 /\ s[1] = e
  BY <1>5, OneEntry
<1>7. PICK pos : pos = [r \in {1} |-> 0]
  OBVIOUS
<1>8. pos[1] = 0
  BY <1>7
<1>9. \A r \in 1..1 : r = 1
  OBVIOUS
<1>10. \A r \in 2..1 : FALSE
  OBVIOUS
<1>11. Mapped(txt, {}, f, s, pos)
  <2>1. Len(s) \in Nat /\ Len(s) >= 1
    BY <1>6
  <2>2. \A r \in 2..Len(s) : pos[r] \in {}
    BY <1>6, <1>10
  <2>3. \A r \in 1..Len(s) : \A q \in 1..Len(s) : q < r => pos[q] < pos[r]
    BY <1>6
  <2>4. \A r \in 1..Len(s) : s[r] = Entry(f, txt, pos[r]) /\ ~f[pos[r]].overflows
    BY <1>2, <1>4, <1>6, <1>8, <1>9
  <2>5. QED
    BY <1>8, <2>1, <2>2, <2>3, <2>4 DEF Mapped
<1>12. Overflowing({}, f) = {}
  BY DEF Overflowing
<1>13. QED
  BY <1>11, <1>12, CountedNone DEF Tracked

LEMMA InitIsExplicit == ASSUME Init PROVE ExplicitInv
<1>1. /\ status = "scanning" /\ link = 1 /\ chain = Populated(text) /\ types = TypesOf(text)
      /\ stack = <<Status(baseLevel, "ON", FALSE)>> /\ overIsolate = 0 /\ overEmbedding = 0
  BY DEF Init
<1>2. text \in Seq(BidiTypes) /\ Len(text) \in Nat
  BY TextsAssumption DEF Init
<1>3. ChainAgrees
  <2>1. types[0] = "Nil"
    BY <1>1, <1>2 DEF TypesOf
  <2>2. chain \subseteq 1..(Len(text) + 1)
    BY <1>1, <1>2 DEF Populated
  <2>3. AgreesFrom(chain, types, text, link)
    BY <1>1, <2>2 DEF AgreesFrom
  <2>4. QED
    BY <2>1, <2>3 DEF ChainAgrees
<1>4. StackTracks
  <2>1. After(text, link - 1) = {}
    <3>1. link - 1 = 0
      BY <1>1
    <3>2. QED
      BY <3>1, AfterType
  <2>2. Tracked(text, {}, ScopesOf(text, baseLevel), stack, overIsolate, overEmbedding)
    BY <1>1, <1>2, BaseTracked
  <2>3. QED
    BY <2>1, <2>2 DEF StackTracks
<1>5. PassedAreLevelled
  <2>1. \A i \in 1..(1 - 1) : FALSE
    OBVIOUS
  <2>2. LevelledTo(text, baseLevel, chain, levels, 1)
    BY <2>1 DEF LevelledTo
  <2>3. QED
    BY <1>1, <2>2 DEF PassedAreLevelled
<1>6. QED
  BY <1>3, <1>4, <1>5 DEF ExplicitInv

(* Through the loop of DetermineLevels the status stack and the counters of*)
(* rules X1 to X8 stand for exactly the embeddings and isolates around the *)
(* link, and the positions before it have the level of the reference.      *)
THEOREM SpecExplicitInv == Spec => []ExplicitInv
<1>1. Init => ExplicitInv
  BY InitIsExplicit
<1>2. IInv /\ ExplicitInv /\ [Next]_vars => ExplicitInv'
  <2>1. SUFFICES ASSUME IInv, ExplicitInv, [Next]_vars PROVE ExplicitInv'
    OBVIOUS
  <2>2. CASE Embed
    BY <2>1, <2>2, EmbedKeepsExplicit
  <2>3. CASE Isolate
    BY <2>1, <2>3, IsolateKeepsExplicit
  <2>4. CASE CloseIsolate
    BY <2>1, <2>4, CloseIsolateKeepsExplicit
  <2>5. CASE CloseEmbedding
    BY <2>1, <2>5, CloseEmbeddingKeepsExplicit
  <2>6. CASE Separate
    BY <2>1, <2>6, SeparateKeepsExplicit
  <2>7. CASE Drop
    BY <2>1, <2>7, DropKeepsExplicit
  <2>8. CASE Assign
    BY <2>1, <2>8, AssignKeepsExplicit
  <2>9. CASE Finish
    BY <2>1, <2>9, FinishKeepsExplicit
  <2>10. CASE Resolve \/ Complete \/ Fail \/ UNCHANGED vars
    BY <2>1, <2>10, RestKeepsExplicit
  <2>11. QED
    BY <2>1, <2>2, <2>3, <2>4, <2>5, <2>6, <2>7, <2>8, <2>9, <2>10 DEF Next, Returned
<1>3. QED
  BY <1>1, <1>2, SpecIInv, PTL DEF Spec

-----------------------------------------------------------------------------
(* The reference of the module is that of the text.                        *)

LEMMA PDIIs == ASSUME NEW i PROVE MatchingPDI(i) = PDIof(text, i)
  BY DEF MatchingPDI, PDIof, CountIn, Past

LEMMA IsolatesAre == ASSUME NEW i PROVE IsolatesAround(i) = IsolatesOf(text, i)
  BY PDIIs DEF IsolatesAround, IsolatesOf

LEMMA EndIs == ASSUME NEW i PROVE EmbeddingEnd(i) = EndOf(text, i)
  BY IsolatesAre DEF EmbeddingEnd, EndOf, Past

LEMMA ParentIsOf == ASSUME NEW i PROVE Parent(i) = ParentOf(text, i)
  BY IsolatesAre, EndIs DEF Parent, ParentOf

(* The entries of Scopes as an operator of the table they are in.          *)
ScopeHere(scope, i) ==
  IF i = 0 THEN [level |-> baseLevel, override |-> "ON", overflows |-> FALSE]
  ELSE LET outer == scope[Parent(i)]
           isRTL == \/ text[i] \in {"RLE", "RLO", "RLI"}
                    \/ text[i] = "FSI" /\ IsRTLIsolate(i)
           level == CHOOSE n \in {outer.level + 1, outer.level + 2} : (n % 2 = 1) = isRTL
       IN  IF outer.overflows \/ level > MaxLevel THEN [outer EXCEPT !.overflows = TRUE]
           ELSE [level |-> level, overflows |-> FALSE,
                 override |-> CASE text[i] = "LRO" -> "L"
                                [] text[i] = "RLO" -> "R"
                                [] OTHER -> "ON"]

AreScopesHere(f) == f = [i \in 0..Len(text) |-> ScopeHere(f, i)]

LEMMA TurnsHere ==
  ASSUME NEW i
  PROVE  TurnsRTL(text, i) = (text[i] \in {"RLE", "RLO", "RLI"} \/ (text[i] = "FSI" /\ IsRTLIsolate(i)))
<1>1. PICK b : b = IsRTLIsolate(i)
  OBVIOUS
<1>2. IsRTLIsolate(i) = IsRTLIsolateOf(text, i)
  BY PDIIs, IsolatesAre DEF IsRTLIsolate, IsRTLIsolateOf, StrongIn
<1>3. QED
  BY <1>2 DEF TurnsRTL

LEMMA ScopeIsHere ==
  ASSUME NEW f, NEW i
  PROVE  ScopeHere(f, i) = ScopeAt(text, baseLevel, f, i)
<1>1. CASE i = 0
  BY <1>1 DEF ScopeHere, ScopeAt
<1>2. CASE i # 0
  <2>1. PICK outer : outer = f[Parent(i)]
    OBVIOUS
  <2>2. outer = f[ParentOf(text, i)]
    BY <2>1, ParentIsOf
  <2>3. PICK isRTL : isRTL = TurnsRTL(text, i)
    OBVIOUS
  <2>4. isRTL = (text[i] \in {"RLE", "RLO", "RLI"} \/ (text[i] = "FSI" /\ IsRTLIsolate(i)))
    BY <2>3, TurnsHere
  <2>5. PICK level : level = CHOOSE n \in {outer.level + 1, outer.level + 2} : (n % 2 = 1) = isRTL
    OBVIOUS
  <2>6. PICK result : result =
            IF outer.overflows \/ level > MaxLevel THEN [outer EXCEPT !.overflows = TRUE]
            ELSE [level |-> level, overflows |-> FALSE,
                  override |-> CASE text[i] = "LRO" -> "L"
                                 [] text[i] = "RLO" -> "R"
                                 [] OTHER -> "ON"]
    OBVIOUS
  <2>7. ScopeHere(f, i) = result
    BY <1>2, <2>1, <2>4, <2>5, <2>6, Zenon DEF ScopeHere
  <2>8. ScopeUnder(outer, text, i) = result
    BY <2>3, <2>5, <2>6, Zenon DEF ScopeUnder, NextLevel
  <2>9. ScopeAt(text, baseLevel, f, i) = ScopeUnder(outer, text, i)
    BY <1>2, <2>2, Zenon DEF ScopeAt
  <2>10. QED
    BY <2>7, <2>8, <2>9
<1>3. QED
  BY <1>1, <1>2

LEMMA ScopesHere ==
  ASSUME NEW n \in Nat, n = Len(text)
  PROVE  \A f : AreScopesHere(f) <=> IsScopes(text, baseLevel, n, f)
<1>1. TAKE f
<1>2. \A i \in 0..n : ScopeHere(f, i) = ScopeAt(text, baseLevel, f, i)
  BY ScopeIsHere
<1>3. [i \in 0..n |-> ScopeHere(f, i)] = [i \in 0..n |-> ScopeAt(text, baseLevel, f, i)]
  BY <1>2
<1>4. QED
  BY <1>3 DEF AreScopesHere, IsScopes

LEMMA ScopesAgree ==
  ASSUME NEW txt, NEW n \in Nat, NEW base, NEW f, NEW g,
         IsScopes(txt, base, n, f), IsScopes(txt, base, n, g)
  PROVE  f = g
<1>1. PICK T : T = {k \in 0..n : f[k] = g[k]}
  OBVIOUS
<1>2. ASSUME NEW k \in 0..n, \A j \in 0..(k - 1) : j \in T PROVE k \in T
  <2>1. f[k] = ScopeAt(txt, base, f, k) /\ g[k] = ScopeAt(txt, base, g, k)
    BY DEF IsScopes
  <2>2. k # 0 => f[ParentOf(txt, k)] = g[ParentOf(txt, k)]
    <3>1. SUFFICES ASSUME k # 0 PROVE f[ParentOf(txt, k)] = g[ParentOf(txt, k)]
      OBVIOUS
    <3>2. k \in Nat /\ k >= 1
      BY <3>1
    <3>3. ParentOf(txt, k) \in 0..(k - 1)
      BY <3>2, ParentIs
    <3>4. ParentOf(txt, k) \in T
      BY <1>2, <3>3
    <3>5. QED
      BY <1>1, <3>4
  <2>3. ScopeAt(txt, base, f, k) = ScopeAt(txt, base, g, k)
    BY <2>2 DEF ScopeAt
  <2>4. QED
    BY <1>1, <2>1, <2>3
<1>3. \A k \in 0..n : k \in T
  BY <1>2, Upwards
<1>4. \A k \in 0..n : f[k] = g[k]
  BY <1>1, <1>3
<1>5. f = [k \in 0..n |-> f[k]] /\ g = [k \in 0..n |-> g[k]]
  BY DEF IsScopes
<1>6. QED
  BY <1>4, <1>5

LEMMA ScopesAlike ==
  ASSUME NEW n \in Nat, n = Len(text)
  PROVE  Scopes = ScopesOf(text, baseLevel)
<1>1. PICK g : IsScopes(text, baseLevel, n, g)
  BY ScopesExist
<1>2. AreScopesHere(g)
  BY <1>1, ScopesHere
<1>3. PICK f : f = Scopes
  OBVIOUS
<1>4. f = CHOOSE h : h = [i \in 0..Len(text) |-> ScopeHere(h, i)]
  BY <1>3 DEF Scopes, ScopeHere
<1>5. f = CHOOSE h : AreScopesHere(h)
  BY <1>4 DEF AreScopesHere
<1>6. AreScopesHere(f)
  BY <1>2, <1>5
<1>7. IsScopes(text, baseLevel, n, f)
  BY <1>6, ScopesHere
<1>8. PICK e : e = ScopesOf(text, baseLevel)
  OBVIOUS
<1>9. e = CHOOSE h : IsScopes(text, baseLevel, n, h)
  <2>1. e = CHOOSE h : h = [i \in 0..n |-> ScopeAt(text, baseLevel, h, i)]
    BY <1>8 DEF ScopesOf
  <2>2. QED
    BY <2>1 DEF IsScopes
<1>10. IsScopes(text, baseLevel, n, e)
  BY <1>1, <1>9
<1>11. e = f
  BY <1>7, <1>10, ScopesAgree
<1>12. QED
  BY <1>3, <1>8, <1>11

LEMMA ExplicitIs ==
  ASSUME NEW n \in Nat, n = Len(text), NEW i \in 1..n
  PROVE  ExplicitLevels[i] = ExplicitAt(text, baseLevel, i)
<1>1. ExplicitLevels[i] = IF text[i] = "B" THEN baseLevel ELSE Scopes[Parent(i)].level
  BY DEF ExplicitLevels, Positions
<1>2. PICK p : p = Parent(i)
  OBVIOUS
<1>3. p = ParentOf(text, i)
  BY <1>2, ParentIsOf
<1>4. Scopes = ScopesOf(text, baseLevel)
  BY ScopesAlike
<1>5. ExplicitAt(text, baseLevel, i) = IF text[i] = "B" THEN baseLevel ELSE ScopesOf(text, baseLevel)[p].level
  BY <1>3, Zenon DEF ExplicitAt
<1>6. QED
  BY <1>1, <1>2, <1>4, <1>5, Zenon

LEMMA SavedIsGiven ==
  ASSUME NEW n \in Nat, chain \subseteq 0..n, NEW i \in Nat, NEW level, LevelGiven(chain, levels, i, level)
  PROVE  SavedLevel(i) = level
<1>1. PICK m \in chain : m <= i /\ (\A k \in chain : k <= i => k <= m) /\ levels[m] = level
  BY DEF LevelGiven
<1>2. PICK S : S = {l \in chain : l <= i}
  OBVIOUS
<1>3. m \in S /\ \A k \in S : k <= m
  BY <1>1, <1>2
<1>4. S \subseteq 0..n /\ S # {}
  BY <1>2, <1>3
<1>5. Max(S) \in S /\ \A k \in S : k <= Max(S)
  BY <1>4, MaxIs
<1>6. Max(S) = m
  <2>1. PICK g : g = Max(S)
    OBVIOUS
  <2>2. g \in S /\ m \in S /\ g <= m /\ m <= g
    BY <1>3, <1>5, <2>1
  <2>3. g \in 0..n /\ m \in 0..n
    BY <1>4, <2>2
  <2>4. g = m
    BY <2>2, <2>3
  <2>5. QED
    BY <2>1, <2>4
<1>7. SavedLevel(i) = levels[Max(S)]
  BY <1>2, <1>4 DEF SavedLevel
<1>8. QED
  BY <1>1, <1>6, <1>7

(* LevelsAreExplicit: when DetermineLevels has come through the paragraph, *)
(* SaveLevels gives each position that rule X9 keeps the level that rules  *)
(* X1 to X8 give it, for every paragraph, base level and depth.            *)
THEOREM SpecLevelsAreExplicit == Spec => []LevelsAreExplicit
<1>1. IInv /\ ExplicitInv => LevelsAreExplicit
  <2>1. SUFFICES ASSUME IInv, ExplicitInv, status = "resolved", NEW i \in Visible
                 PROVE  SavedLevel(i) = ExplicitLevels[i]
    BY DEF LevelsAreExplicit
  <2>2. text \in Seq(BidiTypes) /\ Past \in Nat /\ Past = Len(text) + 1 /\ chain \subseteq 1..Past
    <3>1. WalkType
      BY <2>1 DEF IInv
    <3>2. chain \subseteq 1..Past
      BY <3>1 DEF WalkType
    <3>3. QED
      BY <3>1, <3>2, PastType
  <2>3. PICK n : n = Len(text)
    OBVIOUS
  <2>4. n \in Nat /\ Past = n + 1 /\ i \in 1..n /\ IsVisible(text, i)
    <3>1. n \in Nat /\ Past = n + 1
      BY <2>2, <2>3
    <3>2. i \in 1..n /\ text[i] \notin Embeddings \cup {"PDF", "BN"}
      BY <2>1, <2>3 DEF Visible, Positions
    <3>3. QED
      BY <3>1, <3>2 DEF IsVisible
  <2>5. LevelledTo(text, baseLevel, chain, levels, n + 1)
    BY <2>1, <2>4 DEF ExplicitInv, PassedAreLevelled
  <2>6. PICK e : e = ExplicitAt(text, baseLevel, i)
    OBVIOUS
  <2>7. LevelGiven(chain, levels, i, e)
    <3>1. i \in 1..((n + 1) - 1)
      BY <2>4
    <3>2. QED
      BY <2>4, <2>5, <2>6, <3>1 DEF LevelledTo
  <2>8. SavedLevel(i) = e
    <3>1. chain \subseteq 0..(n + 1)
      BY <2>2, <2>4
    <3>2. n + 1 \in Nat /\ i \in Nat
      BY <2>4
    <3>3. QED
      BY <2>7, <3>1, <3>2, SavedIsGiven
  <2>9. ExplicitLevels[i] = e
    BY <2>3, <2>4, <2>6, ExplicitIs
  <2>10. QED
    BY <2>8, <2>9
<1>2. QED
  BY <1>1, SpecIInv, SpecExplicitInv, PTL

-----------------------------------------------------------------------------
(* The run queue.                                                          *)

RunRecords ==
  [first : Nat, last : Nat, sor : {"L", "R"}, eor : {"L", "R"}, level : 0..MaxLevel,
   partial : BOOLEAN, terminating : BOOLEAN, attached : BOOLEAN, next : Nat]

Partials(rs) == {k \in 1..Len(rs) : rs[k].partial}

IsLast(S, m) == m \in S /\ \A k \in S : k <= m

(* What an enqueue leaves of the earlier runs.                             *)
IsAsBefore(run, old) ==
  run.level = old.level /\ run.terminating = old.terminating /\ run.attached = old.attached

(* The run before the new one that it completes, or none.                  *)
Completes(rs, run, rs2, m) ==
  /\ run.terminating /\ IsLast(Partials(rs), m)
  /\ rs2[m].next = Len(rs) + 1 /\ ~rs2[m].partial /\ rs2[Len(rs) + 1].attached
  /\ \A k \in 1..Len(rs) : k # m => rs2[k] = rs[k]

CompletesNone(rs, run, rs2) ==
  /\ ~run.terminating \/ Partials(rs) = {}
  /\ \A k \in 1..Len(rs) : rs2[k] = rs[k]

Enqueues(rs, run, rs2) ==
  /\ rs2 \in Seq(RunRecords) /\ Len(rs2) = Len(rs) + 1
  /\ rs2[Len(rs) + 1].level = run.level /\ rs2[Len(rs) + 1].partial = run.partial
  /\ rs2[Len(rs) + 1].terminating = run.terminating /\ rs2[Len(rs) + 1].next = None
  /\ \A k \in 1..Len(rs) : IsAsBefore(rs2[k], rs[k])
  /\ (\E m \in 1..Len(rs) : Completes(rs, run, rs2, m)) \/ CompletesNone(rs, run, rs2)

LEMMA RunType ==
  ASSUME NEW rs \in Seq(RunRecords), NEW k \in 1..Len(rs)
  PROVE  rs[k] \in RunRecords /\ rs[k].level \in 0..MaxLevel /\ rs[k].level \in Nat
         /\ rs[k].partial \in BOOLEAN /\ rs[k].terminating \in BOOLEAN /\ rs[k].attached \in BOOLEAN
         /\ rs[k].next \in Nat
<1>1. rs[k] \in RunRecords
  OBVIOUS
<1>2. QED
  BY <1>1, LevelsFacts, SMTT(40) DEF RunRecords

LEMMA LastPartialIs ==
  ASSUME runs \in Seq(RunRecords)
  PROVE  /\ Partials(runs) = {} => LastPartialRun = None
         /\ Partials(runs) # {} => LastPartialRun \in 1..Len(runs) /\ IsLast(Partials(runs), LastPartialRun)
<1>1. PICK P : P = Partials(runs)
  OBVIOUS
<1>2. LastPartialRun = IF P = {} THEN None ELSE Max(P)
  BY <1>1 DEF LastPartialRun, Partials
<1>3. CASE P # {}
  <2>1. PICK n \in Nat : n = Len(runs)
    OBVIOUS
  <2>2. P \subseteq 0..n /\ P \subseteq 1..n
    BY <1>1, <2>1 DEF Partials
  <2>3. Max(P) \in P /\ \A y \in P : y <= Max(P)
    BY <1>3, <2>2, MaxIs
  <2>4. LastPartialRun = Max(P)
    BY <1>2, <1>3
  <2>5. QED
    BY <1>1, <1>3, <2>1, <2>2, <2>3, <2>4 DEF IsLast
<1>4. QED
  BY <1>1, <1>2, <1>3

LEMMA EnqueueIs ==
  ASSUME runs \in Seq(RunRecords), NEW run \in RunRecords, run.next = None, NEW rs2, rs2 = Enqueue(run)
  PROVE  Enqueues(runs, run, rs2)
<1>1. PICK n \in Nat : n = Len(runs)
  OBVIOUS
<1>2. run.terminating \in BOOLEAN
  BY DEF RunRecords
<1>3. CASE run.terminating /\ Partials(runs) # {}
  <2>1. PICK m : m = LastPartialRun
    OBVIOUS
  <2>2. m \in 1..n /\ IsLast(Partials(runs), m) /\ m # None
    <3>1. m \in 1..n /\ IsLast(Partials(runs), m)
      BY <1>1, <1>3, <2>1, LastPartialIs
    <3>2. QED
      BY <3>1 DEF None
  <2>3. PICK old : old = runs[m]
    OBVIOUS
  <2>4. old \in RunRecords
    BY <1>1, <2>2, <2>3
  <2>5. PICK rest : rest = [runs EXCEPT ![m].next = n + 1, ![m].partial = FALSE]
    OBVIOUS
  <2>6. PICK tail : tail = [run EXCEPT !.attached = TRUE]
    OBVIOUS
  <2>7. rs2 = Append(rest, tail)
    BY <1>1, <1>3, <2>1, <2>2, <2>5, <2>6, Zenon DEF Enqueue
  <2>8. tail \in RunRecords /\ tail.level = run.level /\ tail.partial = run.partial
        /\ tail.terminating = run.terminating /\ tail.next = None /\ tail.attached
    BY <2>6 DEF RunRecords
  <2>9. PICK mid : mid = [old EXCEPT !.next = n + 1]
    OBVIOUS
  <2>10. PICK new : new = [mid EXCEPT !.partial = FALSE]
    OBVIOUS
  <2>11. mid \in RunRecords /\ mid.next = n + 1 /\ IsAsBefore(mid, old)
    <3>1. PICK p \in Nat : p = n + 1
      OBVIOUS
    <3>2. mid = [old EXCEPT !.next = p]
      BY <2>9, <3>1
    <3>3. mid \in RunRecords
      BY <2>4, <3>2 DEF RunRecords
    <3>4. mid.next = p /\ mid.level = old.level /\ mid.terminating = old.terminating /\ mid.attached = old.attached
      BY <2>4, <3>2 DEF RunRecords
    <3>5. QED
      BY <3>1, <3>3, <3>4 DEF IsAsBefore
  <2>12. new \in RunRecords /\ new.next = n + 1 /\ ~new.partial /\ IsAsBefore(new, old)
    <3>1. new \in RunRecords
      BY <2>10, <2>11 DEF RunRecords
    <3>2. /\ new.next = mid.next /\ new.partial = FALSE /\ new.level = mid.level
          /\ new.terminating = mid.terminating /\ new.attached = mid.attached
      BY <2>10, <2>11 DEF RunRecords
    <3>3. QED
      BY <2>11, <3>1, <3>2 DEF IsAsBefore
  <2>13. rest \in Seq(RunRecords) /\ Len(rest) = n /\ rest[m] = new /\ \A k \in 1..n : k # m => rest[k] = runs[k]
    <3>1. rest = [runs EXCEPT ![m] = new]
      BY <1>1, <2>2, <2>3, <2>5, <2>9, <2>10
    <3>2. QED
      BY <1>1, <2>2, <2>12, <3>1
  <2>14. rs2 \in Seq(RunRecords) /\ Len(rs2) = n + 1 /\ rs2[n + 1] = tail /\ \A k \in 1..n : rs2[k] = rest[k]
    BY <2>7, <2>8, <2>13
  <2>15. \A k \in 1..n : IsAsBefore(rs2[k], runs[k])
    BY <2>3, <2>12, <2>13, <2>14 DEF IsAsBefore
  <2>16. Completes(runs, run, rs2, m)
    BY <1>1, <1>3, <2>2, <2>8, <2>12, <2>13, <2>14 DEF Completes
  <2>17. QED
    BY <1>1, <2>2, <2>8, <2>14, <2>15, <2>16 DEF Enqueues
<1>4. CASE ~(run.terminating /\ Partials(runs) # {})
  <2>1. rs2 = Append(runs, run)
    <3>1. ~(LastPartialRun # None /\ run.terminating)
      BY <1>4, LastPartialIs
    <3>2. QED
      BY <3>1, Zenon DEF Enqueue
  <2>2. rs2 \in Seq(RunRecords) /\ Len(rs2) = n + 1 /\ rs2[n + 1] = run /\ \A k \in 1..n : rs2[k] = runs[k]
    BY <1>1, <2>1
  <2>3. \A k \in 1..n : IsAsBefore(rs2[k], runs[k])
    BY <2>2 DEF IsAsBefore
  <2>4. CompletesNone(runs, run, rs2)
    BY <1>1, <1>4, <2>2 DEF CompletesNone
  <2>5. QED
    BY <1>1, <2>2, <2>3, <2>4 DEF Enqueues
<1>5. QED
  BY <1>3, <1>4

(* Every completed run goes on with one like it, and no two with the same. *)
Follows(rs, k) ==
  /\ rs[k].next \in 1..Len(rs)
  /\ rs[rs[k].next].level = rs[k].level
  /\ rs[rs[k].next].terminating /\ rs[rs[k].next].attached
  /\ \A m \in 1..Len(rs) : rs[m].next = rs[k].next => m = k

Linked(rs) == \A k \in 1..Len(rs) : rs[k].next # None => Follows(rs, k)

LEMMA EnqueueLinks ==
  ASSUME NEW rs \in Seq(RunRecords), Linked(rs), NEW run, NEW rs2, Enqueues(rs, run, rs2),
         \A m \in Partials(rs) : run.terminating /\ IsLast(Partials(rs), m) => rs[m].level = run.level
  PROVE  Linked(rs2)
<1>1. PICK n \in Nat : n = Len(rs)
  OBVIOUS
<1>2. Len(rs2) = n + 1 /\ rs2 \in Seq(RunRecords) /\ rs2[n + 1].next = None
      /\ rs2[n + 1].level = run.level /\ rs2[n + 1].terminating = run.terminating
  BY <1>1 DEF Enqueues
<1>3. \A k \in 1..n : /\ rs2[k].level = rs[k].level /\ rs2[k].terminating = rs[k].terminating
                      /\ rs2[k].attached = rs[k].attached
  BY <1>1 DEF Enqueues, IsAsBefore
<1>4. \A k \in 1..n : rs[k].next # None =>
        /\ rs[k].next \in 1..n /\ rs[rs[k].next].level = rs[k].level
        /\ rs[rs[k].next].terminating /\ rs[rs[k].next].attached
        /\ \A j \in 1..n : rs[j].next = rs[k].next => j = k
  BY <1>1 DEF Linked, Follows
(* A run whose link is the one it had.                                     *)
<1>5. ASSUME NEW k \in 1..n, rs2[k] = rs[k], rs[k].next # None,
             \A j \in 1..n : rs2[j].next = rs[k].next => rs[j].next = rs[k].next
      PROVE  Follows(rs2, k)
  <2>1. PICK p \in 1..n : p = rs[k].next
    BY <1>4, <1>5
  <2>2. rs2[p].level = rs2[k].level /\ rs2[p].terminating /\ rs2[p].attached
    BY <1>3, <1>4, <1>5, <2>1, SMTT(40)
  <2>3. ASSUME NEW j \in 1..(n + 1), rs2[j].next = p PROVE j = k
    <3>1. j # n + 1
      BY <1>2, <2>1, <2>3 DEF None
    <3>2. j \in 1..n
      BY <3>1
    <3>3. QED
      BY <1>4, <1>5, <2>1, <2>3, <3>2
  <2>4. p \in 1..(n + 1) /\ rs2[k].next = p
    BY <1>5, <2>1
  <2>5. QED
    BY <1>2, <2>2, <2>3, <2>4 DEF Follows
<1>6. ASSUME NEW m \in 1..n, Completes(rs, run, rs2, m) PROVE Linked(rs2)
  <2>1. run.terminating /\ IsLast(Partials(rs), m) /\ rs2[m].next = n + 1 /\ rs2[n + 1].attached
    BY <1>1, <1>6 DEF Completes
  <2>2. \A k \in 1..n : k # m => rs2[k] = rs[k]
    BY <1>1, <1>6 DEF Completes
  <2>3. rs[m].level = run.level
    BY <2>1 DEF IsLast
  <2>4. Follows(rs2, m)
    <3>1. rs2[n + 1].level = rs2[m].level /\ rs2[n + 1].terminating
      BY <1>2, <1>3, <2>1, <2>3
    <3>2. ASSUME NEW j \in 1..(n + 1), rs2[j].next = n + 1 PROVE j = m
      <4>1. j # n + 1
        BY <1>2, <3>2 DEF None
      <4>2. j \in 1..n
        BY <4>1
      <4>3. CASE j # m
        <5>1. rs[j].next = n + 1
          BY <2>2, <3>2, <4>2, <4>3
        <5>2. rs[j].next # None
          BY <5>1 DEF None
        <5>3. rs[j].next \in 1..n
          BY <1>4, <4>2, <5>2
        <5>4. QED
          BY <5>1, <5>3
      <4>4. QED
        BY <4>3
    <3>3. n + 1 \in 1..(n + 1)
      OBVIOUS
    <3>4. QED
      BY <1>2, <2>1, <3>1, <3>2, <3>3 DEF Follows
  <2>5. ASSUME NEW k \in 1..n, k # m, rs2[k].next # None PROVE Follows(rs2, k)
    <3>1. rs2[k] = rs[k] /\ rs[k].next # None
      BY <2>2, <2>5
    <3>2. rs[k].next \in 1..n
      BY <1>4, <3>1
    <3>3. ASSUME NEW j \in 1..n, rs2[j].next = rs[k].next PROVE rs[j].next = rs[k].next
      <4>1. j # m
        BY <2>1, <3>2, <3>3
      <4>2. QED
        BY <2>2, <3>3, <4>1
    <3>4. QED
      BY <1>5, <3>1, <3>3
  <2>6. ASSUME NEW k \in 1..(n + 1), rs2[k].next # None PROVE Follows(rs2, k)
    <3>1. k # n + 1
      BY <1>2, <2>6
    <3>2. k \in 1..n
      BY <3>1
    <3>3. QED
      BY <2>4, <2>5, <2>6, <3>2
  <2>7. QED
    BY <1>2, <2>6 DEF Linked
<1>7. CASE CompletesNone(rs, run, rs2)
  <2>1. \A k \in 1..n : rs2[k] = rs[k]
    BY <1>1, <1>7 DEF CompletesNone
  <2>2. ASSUME NEW k \in 1..(n + 1), rs2[k].next # None PROVE Follows(rs2, k)
    <3>1. k # n + 1
      BY <1>2, <2>2
    <3>2. k \in 1..n
      BY <3>1
    <3>3. rs2[k] = rs[k] /\ rs[k].next # None
      BY <2>1, <2>2, <3>2
    <3>4. \A j \in 1..n : rs2[j].next = rs[k].next => rs[j].next = rs[k].next
      BY <2>1
    <3>5. QED
      BY <1>5, <3>2, <3>3, <3>4
  <2>3. QED
    BY <1>2, <2>2 DEF Linked
<1>8. QED
  BY <1>1, <1>6, <1>7 DEF Enqueues

-----------------------------------------------------------------------------
(* Isolates that wait for their PDI, and the runs that do.                 *)

(* The isolates that the code knows as such: no override is on them.       *)
Waiting(s) == {k \in 2..Len(s) : s[k].isolate /\ s[k - 1].override = "ON"}

(* Those in which a run began already, so that their own has ended.        *)
Broken(s, level) == {k \in Waiting(s) : s[k].level <= level}

WaitsFor(s, rs, k, m) == rs[m].level = s[k - 1].level

(* The partial runs are those of the isolates W, in their order, but the   *)
(* last if the run at hand takes it.                                       *)
PairsUp(W, s, rs, level, takes) ==
  /\ \A j, k \in Partials(rs) : j < k => rs[j].level < rs[k].level
  /\ \A m \in Partials(rs) : (takes /\ rs[m].level = level) \/ \E k \in W : WaitsFor(s, rs, k, m)
  /\ \A k \in W : \E m \in Partials(rs) : WaitsFor(s, rs, k, m)
  /\ takes => \E m \in Partials(rs) : rs[m].level = level

LEMMA WaitingIs ==
  ASSUME NEW s, NEW base, NEW valid, Accounted(s, base, valid), NEW k \in Waiting(s)
  PROVE  /\ k \in 2..Len(s) /\ k - 1 \in 1..Len(s) /\ k \in 1..Len(s) /\ k \in Nat
         /\ s[k].level \in Nat /\ s[k - 1].level \in Nat /\ s[k - 1].level < s[k].level
<1>1. s \in Seq(Entries) /\ Len(s) \in Nat
  BY DEF Accounted
<1>2. k \in 2..Len(s)
  BY DEF Waiting
<1>3. k - 1 \in 1..Len(s) /\ k \in 1..Len(s)
  BY <1>1, <1>2
<1>4. s[k].level \in Nat /\ s[k - 1].level \in Nat
  BY <1>1, <1>3, EntryType
<1>5. QED
  BY <1>2, <1>3, <1>4 DEF Accounted

LEMMA BrokenIs ==
  ASSUME NEW s, NEW base, NEW valid, Accounted(s, base, valid), NEW level \in Nat, NEW k \in Broken(s, level)
  PROVE  k \in Waiting(s) /\ s[k - 1].level \in Nat /\ s[k - 1].level < level
<1>1. k \in Waiting(s) /\ s[k].level <= level
  BY DEF Broken
<1>2. s[k].level \in Nat /\ s[k - 1].level \in Nat /\ s[k - 1].level < s[k].level
  BY <1>1, WaitingIs
<1>3. QED
  BY <1>1, <1>2

(* The run that a terminating run completes has its level.                 *)
LEMMA TakenIs ==
  ASSUME NEW s, NEW base, NEW valid, Accounted(s, base, valid), NEW rs \in Seq(RunRecords),
         NEW level \in Nat, NEW takes, PairsUp(Broken(s, level), s, rs, level, takes), takes,
         NEW m, IsLast(Partials(rs), m)
  PROVE  rs[m].level = level
<1>1. PICK j \in Partials(rs) : rs[j].level = level
  BY DEF PairsUp
<1>2. m \in Partials(rs) /\ j <= m
  BY DEF IsLast
<1>3. j \in 1..Len(rs) /\ m \in 1..Len(rs)
  BY <1>2 DEF Partials
<1>4. rs[m].level \in Nat
  BY <1>3, RunType
<1>5. SUFFICES ASSUME rs[m].level # level PROVE FALSE
  OBVIOUS
<1>6. j < m
  <2>1. j # m
    BY <1>1, <1>5
  <2>2. QED
    BY <1>2, <1>3, <2>1
<1>7. level < rs[m].level
  BY <1>1, <1>2, <1>6 DEF PairsUp
<1>8. PICK k \in Broken(s, level) : rs[m].level = s[k - 1].level
  BY <1>2, <1>5 DEF PairsUp, WaitsFor
<1>9. s[k - 1].level \in Nat /\ s[k - 1].level < level
  BY BrokenIs
<1>10. QED
  BY <1>4, <1>7, <1>8, <1>9

(* The earlier runs that still wait when a run was enqueued.               *)
LEMMA StillPartial ==
  ASSUME NEW rs \in Seq(RunRecords), NEW run, run.terminating \in BOOLEAN, NEW rs2, Enqueues(rs, run, rs2),
         NEW m \in 1..Len(rs)
  PROVE  rs2[m].partial <=> m \in Partials(rs) /\ ~(run.terminating /\ IsLast(Partials(rs), m))
<1>1. ASSUME NEW l \in 1..Len(rs), Completes(rs, run, rs2, l)
      PROVE  rs2[m].partial <=> m \in Partials(rs) /\ ~(run.terminating /\ IsLast(Partials(rs), m))
  <2>1. run.terminating /\ IsLast(Partials(rs), l) /\ ~rs2[l].partial
        /\ \A k \in 1..Len(rs) : k # l => rs2[k] = rs[k]
    BY <1>1 DEF Completes
  <2>2. CASE m = l
    BY <2>1, <2>2
  <2>3. CASE m # l
    <3>1. rs2[m].partial <=> m \in Partials(rs)
      BY <2>1, <2>3 DEF Partials
    <3>2. ~IsLast(Partials(rs), m)
      <4>1. SUFFICES ASSUME IsLast(Partials(rs), m) PROVE FALSE
        OBVIOUS
      <4>2. l <= m /\ m <= l
        BY <2>1, <4>1 DEF IsLast
      <4>3. QED
        BY <2>3, <4>2
    <3>3. QED
      BY <3>1, <3>2
  <2>4. QED
    BY <2>2, <2>3
<1>2. CASE CompletesNone(rs, run, rs2)
  <2>1. rs2[m] = rs[m] /\ (~run.terminating \/ Partials(rs) = {})
    BY <1>2 DEF CompletesNone
  <2>2. IsLast(Partials(rs), m) => Partials(rs) # {}
    BY DEF IsLast
  <2>3. rs2[m].partial <=> m \in Partials(rs)
    BY <2>1 DEF Partials
  <2>4. QED
    BY <2>1, <2>2, <2>3
<1>3. QED
  BY <1>1, <1>2 DEF Enqueues

(* The isolate that a run ends at, if its last link is an initiator.       *)
EndsAtIsolate(s, level, partial, k0) ==
  /\ partial => k0 \in Waiting(s) /\ level = s[k0 - 1].level
  /\ \A k \in Waiting(s) : (partial /\ k = k0) \/ k \in Broken(s, level)

(* A run that ends where the level changes.                                *)
LEMMA BreakPairs ==
  ASSUME NEW s, NEW base, NEW valid, Accounted(s, base, valid), NEW rs \in Seq(RunRecords),
         NEW level \in Nat, NEW takes, PairsUp(Broken(s, level), s, rs, level, takes),
         NEW run \in RunRecords, run.level = level, takes <=> run.terminating /\ Partials(rs) # {},
         NEW rs2, Enqueues(rs, run, rs2),
         NEW k0, EndsAtIsolate(s, level, run.partial, k0), NEW level2
  PROVE  PairsUp(Waiting(s), s, rs2, level2, FALSE)
<1>1. PICK n \in Nat : n = Len(rs)
  OBVIOUS
<1>2. run.terminating \in BOOLEAN /\ run.partial \in BOOLEAN
  BY DEF RunRecords
<1>3. /\ Len(rs2) = n + 1 /\ rs2[n + 1].level = level /\ rs2[n + 1].partial = run.partial
      /\ \A k \in 1..n : rs2[k].level = rs[k].level
  BY <1>1 DEF Enqueues, IsAsBefore
<1>4. PICK Q : Q = {m \in 1..n : rs2[m].partial}
  OBVIOUS
<1>5. ASSUME NEW m \in Partials(rs) PROVE m \in 1..n /\ rs[m].level \in Nat
  <2>1. m \in 1..n
    BY <1>1 DEF Partials
  <2>2. QED
    BY <1>1, <2>1, RunType
<1>6. ASSUME NEW m \in Q
      PROVE  m \in 1..n /\ m \in Partials(rs) /\ \E k \in Broken(s, level) : WaitsFor(s, rs, k, m)
  <2>1. m \in 1..n /\ m \in Partials(rs) /\ ~(run.terminating /\ IsLast(Partials(rs), m))
    BY <1>1, <1>2, <1>4, StillPartial
  <2>2. CASE ~takes
    BY <2>1, <2>2 DEF PairsUp
  <2>3. CASE takes
    <3>1. run.terminating
      BY <2>3
    <3>2. \E l \in Partials(rs) : m < l
      BY <1>5, <2>1, <3>1 DEF IsLast
    <3>3. Partials(rs) \subseteq 0..n
      BY <1>5
    <3>4. PICK l : IsLast(Partials(rs), l)
      <4>1. \E x \in Partials(rs) : \A y \in Partials(rs) : y <= x
        BY <2>1, <3>3, HasGreatest
      <4>2. QED
        BY <4>1 DEF IsLast
    <3>5. rs[l].level = level
      BY <2>3, <3>4, TakenIs
    <3>6. l \in Partials(rs) /\ m < l
      BY <1>5, <2>1, <3>2, <3>4 DEF IsLast
    <3>7. rs[m].level < rs[l].level
      BY <2>1, <3>6 DEF PairsUp
    <3>8. rs[m].level # level
      BY <1>5, <2>1, <3>5, <3>7
    <3>9. QED
      BY <2>1, <3>8 DEF PairsUp
  <2>4. QED
    BY <2>1, <2>2, <2>3
<1>7. ASSUME NEW k \in Broken(s, level) PROVE \E m \in Q : WaitsFor(s, rs, k, m)
  <2>1. PICK m \in Partials(rs) : WaitsFor(s, rs, k, m)
    BY DEF PairsUp
  <2>2. rs[m].level # level
    <3>1. s[k - 1].level \in Nat /\ s[k - 1].level < level
      BY BrokenIs
    <3>2. QED
      BY <2>1, <3>1 DEF WaitsFor
  <2>3. ~(run.terminating /\ IsLast(Partials(rs), m))
    <3>1. SUFFICES ASSUME run.terminating, IsLast(Partials(rs), m) PROVE FALSE
      OBVIOUS
    <3>2. takes
      BY <2>1, <3>1
    <3>3. QED
      BY <2>2, <3>1, <3>2, TakenIs
  <2>4. m \in 1..n
    BY <1>5
  <2>5. m \in Q
    BY <1>1, <1>2, <1>4, <2>1, <2>3, <2>4, StillPartial
  <2>6. QED
    BY <2>1, <2>5
<1>8. \A m : m \in Partials(rs2) <=> m \in Q \/ (run.partial /\ m = n + 1)
  <2>1. \A m : m \in 1..(n + 1) <=> m \in 1..n \/ m = n + 1
    OBVIOUS
  <2>2. \A m : m \in Partials(rs2) <=> m \in 1..(n + 1) /\ rs2[m].partial
    BY <1>3 DEF Partials
  <2>3. \A m : m \in Q <=> m \in 1..n /\ rs2[m].partial
    BY <1>4
  <2>4. n + 1 \notin 1..n
    OBVIOUS
  <2>5. QED
    BY <1>3, <2>1, <2>2, <2>3, <2>4
<1>9. ASSUME NEW j \in Partials(rs2), NEW k \in Partials(rs2), j < k PROVE rs2[j].level < rs2[k].level
  <2>1. j \in Q
    <3>1. SUFFICES ASSUME j = n + 1 PROVE FALSE
      BY <1>8
    <3>2. k \in 1..n \/ k = n + 1
      BY <1>6, <1>8
    <3>3. QED
      BY <1>9, <3>1, <3>2
  <2>2. j \in Partials(rs) /\ rs2[j].level = rs[j].level
    BY <1>3, <1>6, <2>1
  <2>3. CASE k \in Q
    <3>1. k \in Partials(rs) /\ rs2[k].level = rs[k].level
      BY <1>3, <1>6, <2>3
    <3>2. QED
      BY <1>9, <2>2, <3>1 DEF PairsUp
  <2>4. CASE k = n + 1
    <3>1. PICK i \in Broken(s, level) : WaitsFor(s, rs, i, j)
      BY <1>6, <2>1
    <3>2. s[i - 1].level < level
      BY BrokenIs
    <3>3. QED
      BY <1>3, <2>2, <2>4, <3>1, <3>2 DEF WaitsFor
  <2>5. QED
    BY <1>8, <2>3, <2>4
<1>10. ASSUME NEW m \in Partials(rs2) PROVE \E k \in Waiting(s) : WaitsFor(s, rs2, k, m)
  <2>1. CASE m \in Q
    <3>1. PICK k \in Broken(s, level) : WaitsFor(s, rs, k, m)
      BY <1>6, <2>1
    <3>2. k \in Waiting(s)
      BY DEF Broken
    <3>3. rs2[m].level = rs[m].level
      BY <1>3, <1>6, <2>1
    <3>4. QED
      BY <3>1, <3>2, <3>3 DEF WaitsFor
  <2>2. CASE run.partial /\ m = n + 1
    BY <1>3, <2>2 DEF WaitsFor, EndsAtIsolate
  <2>3. QED
    BY <1>8, <2>1, <2>2
<1>11. ASSUME NEW k \in Waiting(s) PROVE \E m \in Partials(rs2) : WaitsFor(s, rs2, k, m)
  <2>1. CASE run.partial /\ k = k0
    <3>1. n + 1 \in Partials(rs2)
      BY <1>8, <2>1
    <3>2. QED
      BY <1>3, <2>1, <3>1 DEF WaitsFor, EndsAtIsolate
  <2>2. CASE k \in Broken(s, level)
    <3>1. PICK m \in Q : WaitsFor(s, rs, k, m)
      BY <1>7, <2>2
    <3>2. m \in Partials(rs2) /\ rs2[m].level = rs[m].level
      BY <1>3, <1>6, <1>8
    <3>3. QED
      BY <3>1, <3>2 DEF WaitsFor
  <2>3. QED
    BY <2>1, <2>2 DEF EndsAtIsolate
<1>12. QED
  BY <1>9, <1>10, <1>11 DEF PairsUp

(* An isolate that is not broken: no run began in it, and the prior link is*)
(* its initiator.                                                          *)
JustOpened(s, level, k) == k \in Waiting(s) /\ level = s[k - 1].level /\ \A j \in Isolates(s) : j <= k

(* The stack s and the queue rs when the run at hand has that level, the   *)
(* prior link that type.                                                   *)
Waits(s, over, level, type, rs, takes) ==
  /\ \A k \in Waiting(s) : k \in Broken(s, level) \/ (type \in Initiators /\ over = 0 /\ JustOpened(s, level, k))
  /\ type \in Initiators /\ over = 0 => \E k \in Waiting(s) : JustOpened(s, level, k)
  /\ over # 0 => level = s[Len(s)].level
  /\ PairsUp(Broken(s, level), s, rs, level, takes)

SettledAt(s, level, rs, takes) ==
  level = s[Len(s)].level /\ PairsUp(Broken(s, level), s, rs, level, takes)

LEMMA WaitingIsIsolate ==
  ASSUME NEW s, Len(s) \in Nat
  PROVE  Waiting(s) \subseteq Isolates(s)
<1>1. ASSUME NEW k \in Waiting(s) PROVE k \in Isolates(s)
  <2>1. k \in 2..Len(s) /\ s[k].isolate
    BY DEF Waiting
  <2>2. k \in 1..Len(s)
    BY <2>1
  <2>3. QED
    BY <2>1, <2>2 DEF Isolates
<1>2. QED
  BY <1>1

(* Changes of the stack that no isolate is about.                          *)
LEMMA WaitsAlike ==
  ASSUME NEW s, NEW s2, Waiting(s2) = Waiting(s), Isolates(s2) = Isolates(s),
         \A k \in Waiting(s) : s2[k].level = s[k].level /\ s2[k - 1].level = s[k - 1].level,
         NEW level, NEW type, NEW rs, NEW takes, Waits(s, 0, level, type, rs, takes)
  PROVE  Waits(s2, 0, level, type, rs, takes)
<1>1. Broken(s2, level) = Broken(s, level)
  BY DEF Broken
<1>2. \A k \in Waiting(s) : JustOpened(s2, level, k) <=> JustOpened(s, level, k)
  BY DEF JustOpened
<1>3. \A k \in Broken(s, level) : \A m : WaitsFor(s2, rs, k, m) <=> WaitsFor(s, rs, k, m)
  BY DEF Broken, WaitsFor
<1>4. PairsUp(Broken(s2, level), s2, rs, level, takes)
  <2>1. PairsUp(Broken(s, level), s, rs, level, takes)
    BY DEF Waits
  <2>2. /\ \A j, k \in Partials(rs) : j < k => rs[j].level < rs[k].level
        /\ takes => \E m \in Partials(rs) : rs[m].level = level
    BY <2>1 DEF PairsUp
  <2>3. \A m \in Partials(rs) : (takes /\ rs[m].level = level) \/ \E k \in Broken(s2, level) : WaitsFor(s2, rs, k, m)
    BY <1>1, <1>3, <2>1 DEF PairsUp
  <2>4. \A k \in Broken(s2, level) : \E m \in Partials(rs) : WaitsFor(s2, rs, k, m)
    BY <1>1, <1>3, <2>1 DEF PairsUp
  <2>5. QED
    BY <2>2, <2>3, <2>4 DEF PairsUp
<1>5. \A k \in Waiting(s2) : k \in Broken(s2, level) \/ (type \in Initiators /\ 0 = 0 /\ JustOpened(s2, level, k))
  BY <1>1, <1>2 DEF Waits
<1>6. type \in Initiators /\ 0 = 0 => \E k \in Waiting(s2) : JustOpened(s2, level, k)
  BY <1>2 DEF Waits
<1>7. QED
  BY <1>4, <1>5, <1>6 DEF Waits

LEMMA PushWaits ==
  ASSUME NEW s \in Seq(Entries), Len(s) >= 1, NEW e \in Entries, ~e.isolate, NEW s2, s2 = Append(s, e),
         NEW level, NEW type, NEW rs, NEW takes, Waits(s, 0, level, type, rs, takes)
  PROVE  Waits(s2, 0, level, type, rs, takes) /\ Isolates(s2) = Isolates(s)
<1>1. PICK n \in Nat : n = Len(s)
  OBVIOUS
<1>2. Len(s2) = n + 1 /\ s2[n + 1] = e /\ \A k \in 1..n : s2[k] = s[k]
  BY <1>1
<1>3. Waiting(s2) = Waiting(s)
  <2>1. \A k : k \in Waiting(s2) <=> k \in 2..(n + 1) /\ s2[k].isolate /\ s2[k - 1].override = "ON"
    BY <1>2 DEF Waiting
  <2>2. \A k : k \in Waiting(s) <=> k \in 2..n /\ s[k].isolate /\ s[k - 1].override = "ON"
    BY <1>1 DEF Waiting
  <2>3. \A k \in 2..n : s2[k] = s[k] /\ s2[k - 1] = s[k - 1]
    BY <1>2
  <2>4. \A k : k \in 2..(n + 1) <=> k \in 2..n \/ (k = n + 1 /\ n >= 1)
    BY <1>1
  <2>5. ASSUME NEW k \in Waiting(s2) PROVE k \in Waiting(s)
    <3>1. k # n + 1
      BY <1>2, <2>1
    <3>2. k \in 2..n
      BY <2>1, <2>4, <3>1
    <3>3. QED
      BY <2>1, <2>2, <2>3, <3>2, ZenonT(60)
  <2>6. ASSUME NEW k \in Waiting(s) PROVE k \in Waiting(s2)
    <3>1. k \in 2..n /\ s[k].isolate /\ s[k - 1].override = "ON"
      BY <2>2
    <3>2. s2[k] = s[k] /\ s2[k - 1] = s[k - 1] /\ k \in 2..(n + 1)
      BY <2>3, <2>4, <3>1
    <3>3. QED
      BY <2>1, <3>1, <3>2
  <2>7. QED
    BY <2>5, <2>6
<1>4. Isolates(s2) = Isolates(s)
  <2>1. \A k : k \in Isolates(s2) <=> k \in 1..(n + 1) /\ s2[k].isolate
    BY <1>2 DEF Isolates
  <2>2. \A k : k \in Isolates(s) <=> k \in 1..n /\ s[k].isolate
    BY <1>1 DEF Isolates
  <2>3. \A k : k \in 1..(n + 1) <=> k \in 1..n \/ k = n + 1
    BY <1>1
  <2>4. QED
    BY <1>2, <2>1, <2>2, <2>3
<1>5. \A k \in Waiting(s) : s2[k].level = s[k].level /\ s2[k - 1].level = s[k - 1].level
  <2>1. \A k \in Waiting(s) : k \in 1..n /\ k - 1 \in 1..n
    BY <1>1 DEF Waiting
  <2>2. QED
    BY <1>2, <2>1
<1>6. QED
  BY <1>3, <1>4, <1>5, WaitsAlike

LEMMA PopWaits ==
  ASSUME NEW s \in Seq(Entries), Len(s) >= 2, ~s[Len(s)].isolate, NEW s2,
         Len(s2) = Len(s) - 1, \A k \in 1..(Len(s) - 1) : s2[k] = s[k],
         NEW level, NEW type, NEW rs, NEW takes, Waits(s, 0, level, type, rs, takes)
  PROVE  Waits(s2, 0, level, type, rs, takes) /\ Isolates(s2) = Isolates(s)
<1>1. PICK n \in Nat : n = Len(s)
  OBVIOUS
<1>2. Len(s2) = n - 1 /\ \A k \in 1..(n - 1) : s2[k] = s[k]
  BY <1>1
<1>3. Waiting(s2) = Waiting(s)
  <2>1. \A k : k \in Waiting(s2) <=> k \in 2..(n - 1) /\ s2[k].isolate /\ s2[k - 1].override = "ON"
    BY <1>2 DEF Waiting
  <2>2. \A k : k \in Waiting(s) <=> k \in 2..n /\ s[k].isolate /\ s[k - 1].override = "ON"
    BY <1>1 DEF Waiting
  <2>3. \A k \in 2..(n - 1) : s2[k] = s[k] /\ s2[k - 1] = s[k - 1]
    BY <1>2
  <2>4. \A k : k \in 2..n <=> k \in 2..(n - 1) \/ (k = n /\ n >= 2)
    BY <1>1
  <2>5. ASSUME NEW k \in Waiting(s) PROVE k \in Waiting(s2)
    <3>1. k # n
      BY <1>1, <2>2
    <3>2. k \in 2..(n - 1) /\ s[k].isolate /\ s[k - 1].override = "ON"
      BY <2>2, <2>4, <3>1
    <3>3. s2[k] = s[k] /\ s2[k - 1] = s[k - 1]
      BY <2>3, <3>2
    <3>4. QED
      BY <2>1, <3>2, <3>3
  <2>6. ASSUME NEW k \in Waiting(s2) PROVE k \in Waiting(s)
    <3>1. k \in 2..(n - 1) /\ s2[k].isolate /\ s2[k - 1].override = "ON"
      BY <2>1
    <3>2. s2[k] = s[k] /\ s2[k - 1] = s[k - 1] /\ k \in 2..n
      BY <2>3, <2>4, <3>1
    <3>3. QED
      BY <2>2, <3>1, <3>2
  <2>7. QED
    BY <2>5, <2>6
<1>4. Isolates(s2) = Isolates(s)
  <2>1. \A k : k \in Isolates(s2) <=> k \in 1..(n - 1) /\ s2[k].isolate
    BY <1>2 DEF Isolates
  <2>2. \A k : k \in Isolates(s) <=> k \in 1..n /\ s[k].isolate
    BY <1>1 DEF Isolates
  <2>3. \A k : k \in 1..n <=> k \in 1..(n - 1) \/ (k = n /\ n >= 1)
    BY <1>1
  <2>4. QED
    BY <1>1, <1>2, <2>1, <2>2, <2>3
<1>5. \A k \in Waiting(s) : s2[k].level = s[k].level /\ s2[k - 1].level = s[k - 1].level
  <2>1. \A k \in Waiting(s2) : k \in 1..(n - 1) /\ k - 1 \in 1..(n - 1)
    BY <1>2 DEF Waiting
  <2>2. QED
    BY <1>2, <1>3, <2>1
<1>6. Waits(s2, 0, level, type, rs, takes)
  BY <1>3, <1>4, <1>5, WaitsAlike
<1>7. QED
  BY <1>4, <1>6

LEMMA TopIsGreatest ==
  ASSUME NEW s, NEW base, NEW valid, Accounted(s, base, valid), NEW k \in 1..Len(s)
  PROVE  s[k].level <= s[Len(s)].level
<1>1. PICK n \in Nat : n = Len(s)
  BY DEF Accounted
<1>2. \A j \in 1..n : s[j].level \in Nat
  BY <1>1, EntryType DEF Accounted
<1>3. \A j \in 2..n : s[j - 1].level < s[j].level
  BY <1>1 DEF Accounted
<1>4. PICK T : T = {j \in k..n : s[k].level <= s[j].level}
  OBVIOUS
<1>5. k \in Nat /\ k \in 1..n
  BY <1>1
<1>6. ASSUME NEW i \in k..n, \A j \in k..(i - 1) : j \in T PROVE i \in T
  <2>1. CASE i = k
    BY <1>2, <1>4, <1>5, <2>1
  <2>2. CASE i # k
    <3>1. i - 1 \in k..(i - 1) /\ i - 1 \in 1..n /\ i \in 2..n /\ i \in 1..n
      BY <1>5, <2>2
    <3>2. s[k].level <= s[i - 1].level
      BY <1>4, <1>6, <3>1
    <3>3. s[k].level <= s[i].level
      <4>1. s[i - 1].level < s[i].level
        BY <1>3, <3>1
      <4>2. s[k].level \in Nat /\ s[i - 1].level \in Nat /\ s[i].level \in Nat
        BY <1>2, <1>5, <3>1
      <4>3. QED
        BY <3>2, <4>1, <4>2, SMTT(40)
    <3>4. QED
      BY <1>4, <3>3
  <2>3. QED
    BY <2>1, <2>2
<1>7. \A i \in k..n : i \in T
  BY <1>1, <1>5, <1>6, Upwards
<1>8. n \in k..n
  BY <1>5
<1>9. QED
  BY <1>1, <1>4, <1>7, <1>8

LEMMA AllBroken ==
  ASSUME NEW s, NEW base, NEW valid, Accounted(s, base, valid), NEW level, level = s[Len(s)].level
  PROVE  Broken(s, level) = Waiting(s)
<1>1. ASSUME NEW k \in Waiting(s) PROVE s[k].level <= level
  <2>1. k \in 1..Len(s)
    BY WaitingIs
  <2>2. QED
    BY <2>1, TopIsGreatest
<1>2. QED
  BY <1>1 DEF Broken

LEMMA BreakWaits ==
  ASSUME NEW s, NEW base, NEW valid, Accounted(s, base, valid), NEW rs \in Seq(RunRecords),
         NEW level \in Nat, NEW type, NEW takes, Waits(s, 0, level, type, rs, takes),
         NEW run \in RunRecords, run.level = level, run.partial <=> type \in Initiators,
         takes <=> run.terminating /\ Partials(rs) # {},
         NEW rs2, Enqueues(rs, run, rs2), NEW level2
  PROVE  PairsUp(Waiting(s), s, rs2, level2, FALSE)
<1>1. PairsUp(Broken(s, level), s, rs, level, takes)
  BY DEF Waits
<1>2. CASE type \in Initiators
  <2>1. PICK k0 \in Waiting(s) : JustOpened(s, level, k0)
    BY <1>2 DEF Waits
  <2>2. level = s[k0 - 1].level
    BY <2>1 DEF JustOpened
  <2>3. ASSUME NEW k \in Waiting(s) PROVE (run.partial /\ k = k0) \/ k \in Broken(s, level)
    <3>1. CASE JustOpened(s, level, k)
      <4>1. Len(s) \in Nat
        BY DEF Accounted
      <4>2. k \in Isolates(s) /\ k0 \in Isolates(s)
        BY <4>1, WaitingIsIsolate
      <4>3. k <= k0 /\ k0 <= k
        BY <2>1, <3>1, <4>2 DEF JustOpened
      <4>4. k \in Nat /\ k0 \in Nat
        BY WaitingIs
      <4>5. k = k0
        BY <4>3, <4>4
      <4>6. QED
        BY <1>2, <4>5
    <3>2. CASE ~JustOpened(s, level, k)
      BY <3>2 DEF Waits
    <3>3. QED
      BY <3>1, <3>2
  <2>4. EndsAtIsolate(s, level, run.partial, k0)
    BY <2>2, <2>3 DEF EndsAtIsolate
  <2>5. QED
    BY <1>1, <2>4, BreakPairs
<1>3. CASE type \notin Initiators
  <2>1. ~run.partial
    BY <1>3
  <2>2. PICK k0 : k0 = rs
    OBVIOUS
  <2>3. EndsAtIsolate(s, level, run.partial, k0)
    BY <1>3, <2>1 DEF Waits, EndsAtIsolate
  <2>4. QED
    BY <1>1, <2>3, BreakPairs
<1>4. QED
  BY <1>2, <1>3

(* The level of the top, where the stack stays.                            *)
LEMMA StaySettles ==
  ASSUME NEW s, NEW over, NEW level, NEW type, NEW rs, NEW takes, Waits(s, over, level, type, rs, takes),
         level = s[Len(s)].level
  PROVE  SettledAt(s, level, rs, takes)
  BY DEF Waits, SettledAt

LEMMA FirstSettles ==
  ASSUME NEW s, Len(s) \in Nat, Isolates(s) = {}, NEW rs, rs = <<>>, NEW level, level = s[Len(s)].level
  PROVE  SettledAt(s, level, rs, FALSE) /\ Partials(rs) = {}
<1>1. Partials(rs) = {}
  BY DEF Partials
<1>2. Broken(s, level) = {}
  BY WaitingIsIsolate DEF Broken
<1>3. QED
  BY <1>1, <1>2 DEF SettledAt, PairsUp

LEMMA SettledWaits ==
  ASSUME NEW s, NEW base, NEW valid, Accounted(s, base, valid), NEW rs, NEW level, NEW takes,
         SettledAt(s, level, rs, takes), NEW over, NEW type, type \notin Initiators \/ over # 0
  PROVE  Waits(s, over, level, type, rs, takes)
<1>1. level = s[Len(s)].level /\ PairsUp(Broken(s, level), s, rs, level, takes)
  BY DEF SettledAt
<1>2. Broken(s, level) = Waiting(s)
  BY <1>1, AllBroken
<1>3. QED
  BY <1>1, <1>2 DEF Waits

(* The stack below its last isolate, which a PDI leaves.                   *)
IsCut(s, s2, K) ==
  /\ IsLast(Isolates(s), K) /\ Len(s2) = K - 1 /\ \A k \in 1..(K - 1) : s2[k] = s[k]

LEMMA CutIs ==
  ASSUME NEW s, NEW base, NEW valid, Accounted(s, base, valid), NEW s2, NEW K, IsCut(s, s2, K)
  PROVE  /\ K \in 2..Len(s) /\ K - 1 \in 1..Len(s) /\ K - 1 \in 1..(K - 1)
         /\ s[K - 1].level < s[K].level /\ s[K - 1].level \in Nat /\ s[K].level \in Nat
         /\ s2[Len(s2)] = s[K - 1]
         /\ K \in Waiting(s) <=> s[K - 1].override = "ON"
         /\ Waiting(s2) = Waiting(s) \ {K}
         /\ \A k \in Waiting(s2) : s2[k] = s[k] /\ s2[k - 1] = s[k - 1]
<1>1. PICK n \in Nat : n = Len(s)
  BY DEF Accounted
<1>2. s \in Seq(Entries) /\ s[1].isolate = FALSE
  BY DEF Accounted, Status
<1>3. K \in Isolates(s) /\ \A k \in Isolates(s) : k <= K
  BY DEF IsCut, IsLast
<1>4. K \in 2..n /\ s[K].isolate
  <2>1. K \in 1..n /\ s[K].isolate
    BY <1>1, <1>3 DEF Isolates
  <2>2. K # 1
    BY <1>2, <2>1
  <2>3. QED
    BY <2>1, <2>2
<1>5. K - 1 \in 1..n /\ K - 1 \in 1..(K - 1) /\ K \in 1..n
  BY <1>4
<1>6. s[K - 1].level \in Nat /\ s[K].level \in Nat
  BY <1>1, <1>2, <1>5, EntryType
<1>7. s[K - 1].level < s[K].level
  BY <1>1, <1>4 DEF Accounted
<1>8. Len(s2) = K - 1 /\ \A k \in 1..(K - 1) : s2[k] = s[k]
  BY DEF IsCut
<1>9. s2[Len(s2)] = s[K - 1]
  BY <1>5, <1>8
<1>10. K \in Waiting(s) <=> s[K - 1].override = "ON"
  BY <1>1, <1>4 DEF Waiting
<1>11. ASSUME NEW k \in 2..(K - 1) PROVE s2[k] = s[k] /\ s2[k - 1] = s[k - 1] /\ k \in 2..n /\ k # K
  <2>1. k \in 1..(K - 1) /\ k - 1 \in 1..(K - 1) /\ k \in 2..n /\ k # K
    BY <1>4
  <2>2. QED
    BY <1>8, <2>1
<1>12. ASSUME NEW k \in Waiting(s2) PROVE k \in 2..(K - 1) /\ k \in Waiting(s) \ {K}
  <2>1. k \in 2..(K - 1) /\ s2[k].isolate /\ s2[k - 1].override = "ON"
    BY <1>8 DEF Waiting
  <2>2. k \in 2..n /\ k # K /\ s[k].isolate /\ s[k - 1].override = "ON"
    BY <1>11, <2>1
  <2>3. QED
    BY <1>1, <2>1, <2>2 DEF Waiting
<1>13. ASSUME NEW k \in Waiting(s) \ {K} PROVE k \in Waiting(s2)
  <2>1. k \in 2..n /\ s[k].isolate /\ s[k - 1].override = "ON"
    BY <1>1 DEF Waiting
  <2>2. k <= K
    <3>1. k \in Isolates(s)
      BY <1>1, WaitingIsIsolate
    <3>2. QED
      BY <1>3, <3>1
  <2>3. k \in 2..(K - 1)
    BY <1>4, <2>1, <2>2
  <2>4. s2[k] = s[k] /\ s2[k - 1] = s[k - 1]
    BY <1>11, <2>3
  <2>5. QED
    BY <1>8, <2>1, <2>3, <2>4 DEF Waiting
<1>14. Waiting(s2) = Waiting(s) \ {K}
  BY <1>12, <1>13
<1>15. \A k \in Waiting(s2) : s2[k] = s[k] /\ s2[k - 1] = s[k - 1]
  BY <1>11, <1>12
<1>16. QED
  BY <1>1, <1>4, <1>5, <1>6, <1>7, <1>9, <1>10, <1>14, <1>15

LEMMA PairsAlike ==
  ASSUME NEW W, NEW s, NEW s2, \A k \in W : s2[k - 1] = s[k - 1],
         NEW rs, NEW level, NEW takes, PairsUp(W, s, rs, level, takes)
  PROVE  PairsUp(W, s2, rs, level, takes)
<1>1. \A k \in W : \A m : WaitsFor(s2, rs, k, m) <=> WaitsFor(s, rs, k, m)
  BY DEF WaitsFor
<1>2. QED
  BY <1>1 DEF PairsUp

LEMMA CutStays ==
  ASSUME NEW s, NEW base, NEW valid, Accounted(s, base, valid), NEW s2, NEW K, IsCut(s, s2, K),
         NEW level, NEW type, NEW rs, NEW takes, Waits(s, 0, level, type, rs, takes),
         level = s2[Len(s2)].level
  PROVE  SettledAt(s2, level, rs, takes)
<1>1. /\ s[K - 1].level < s[K].level /\ s[K - 1].level \in Nat /\ s[K].level \in Nat
      /\ s2[Len(s2)] = s[K - 1] /\ Waiting(s2) = Waiting(s) \ {K}
  BY CutIs
<1>2. \A k \in Waiting(s2) : s2[k] = s[k] /\ s2[k - 1] = s[k - 1]
  BY CutIs
<1>3. ~(s[K].level <= level)
  BY <1>1
<1>4. Broken(s2, level) = Broken(s, level)
  BY <1>1, <1>2, <1>3 DEF Broken
<1>5. \A k \in Broken(s, level) : s2[k - 1] = s[k - 1]
  BY <1>2, <1>4 DEF Broken
<1>6. PairsUp(Broken(s, level), s, rs, level, takes)
  BY DEF Waits
<1>7. PairsUp(Broken(s, level), s2, rs, level, takes)
  BY <1>5, <1>6, PairsAlike
<1>8. QED
  BY <1>4, <1>7 DEF SettledAt

LEMMA CutBreaks ==
  ASSUME NEW s, NEW base, NEW valid, Accounted(s, base, valid), NEW s2, NEW K, IsCut(s, s2, K),
         NEW valid2, Accounted(s2, base, valid2),
         NEW rs \in Seq(RunRecords), NEW level \in Nat, NEW type, NEW takes, Waits(s, 0, level, type, rs, takes),
         NEW run \in RunRecords, run.level = level, run.partial <=> type \in Initiators,
         takes <=> run.terminating /\ Partials(rs) # {},
         NEW rs2, Enqueues(rs, run, rs2), NEW level2, level2 = s2[Len(s2)].level,
         NEW takes2, takes2 <=> s[K - 1].override = "ON" /\ Partials(rs2) # {}
  PROVE  SettledAt(s2, level2, rs2, takes2)
<1>1. PairsUp(Waiting(s), s, rs2, level2, FALSE)
  BY BreakWaits
<1>2. /\ s2[Len(s2)] = s[K - 1] /\ Waiting(s2) = Waiting(s) \ {K}
      /\ K \in Waiting(s) <=> s[K - 1].override = "ON"
  BY CutIs
<1>3. \A k \in Waiting(s2) : s2[k - 1] = s[k - 1]
  BY CutIs
<1>4. PairsUp(Waiting(s2), s, rs2, level2, takes2)
  <2>1. CASE K \in Waiting(s)
    <3>1. PICK l \in Partials(rs2) : WaitsFor(s, rs2, K, l)
      BY <1>1, <2>1 DEF PairsUp
    <3>2. takes2 /\ rs2[l].level = level2
      BY <1>2, <2>1, <3>1 DEF WaitsFor
    <3>3. ASSUME NEW m \in Partials(rs2)
          PROVE  (takes2 /\ rs2[m].level = level2) \/ \E k \in Waiting(s2) : WaitsFor(s, rs2, k, m)
      <4>1. PICK k \in Waiting(s) : WaitsFor(s, rs2, k, m)
        BY <1>1 DEF PairsUp
      <4>2. CASE k = K
        BY <1>2, <3>2, <4>1, <4>2 DEF WaitsFor
      <4>3. CASE k # K
        <5>1. k \in Waiting(s2)
          BY <1>2, <4>3
        <5>2. QED
          BY <4>1, <5>1
      <4>4. QED
        BY <4>2, <4>3
    <3>4. \A k \in Waiting(s2) : \E m \in Partials(rs2) : WaitsFor(s, rs2, k, m)
      BY <1>1, <1>2 DEF PairsUp
    <3>5. \A j, k \in Partials(rs2) : j < k => rs2[j].level < rs2[k].level
      BY <1>1 DEF PairsUp
    <3>6. QED
      BY <3>1, <3>2, <3>3, <3>4, <3>5 DEF PairsUp
  <2>2. CASE K \notin Waiting(s)
    <3>1. Waiting(s2) = Waiting(s) /\ ~takes2
      BY <1>2, <2>2
    <3>2. QED
      BY <1>1, <3>1 DEF PairsUp
  <2>3. QED
    BY <2>1, <2>2
<1>5. PairsUp(Waiting(s2), s2, rs2, level2, takes2)
  BY <1>3, <1>4, PairsAlike
<1>6. Broken(s2, level2) = Waiting(s2)
  BY AllBroken
<1>7. QED
  BY <1>5, <1>6 DEF SettledAt

(* An isolate that rule X5c pushes.                                        *)
LEMMA OpenedWaits ==
  ASSUME NEW s, NEW base, NEW valid, Accounted(s, base, valid), NEW e \in Entries, e.isolate,
         s[Len(s)].level < e.level, NEW s2, s2 = Append(s, e),
         NEW rs, NEW level, NEW takes, SettledAt(s, level, rs, takes),
         NEW type, type \in Initiators <=> s[Len(s)].override = "ON"
  PROVE  Waits(s2, 0, level, type, rs, takes)
<1>1. PICK n \in Nat : n = Len(s)
  BY DEF Accounted
<1>2. s \in Seq(Entries) /\ n >= 1
  BY <1>1 DEF Accounted
<1>3. Len(s2) = n + 1 /\ s2[n + 1] = e /\ \A k \in 1..n : s2[k] = s[k]
  BY <1>1, <1>2
<1>4. level = s[n].level /\ PairsUp(Broken(s, level), s, rs, level, takes)
  BY <1>1 DEF SettledAt
<1>5. Broken(s, level) = Waiting(s)
  BY <1>1, <1>4, AllBroken
<1>6. n + 1 \in 2..(n + 1) /\ s2[n + 1].isolate /\ s2[(n + 1) - 1] = s[n]
  <2>1. n \in 1..n /\ (n + 1) - 1 = n
    BY <1>2
  <2>2. QED
    BY <1>2, <1>3, <2>1
<1>7. ASSUME NEW k \in Waiting(s)
      PROVE  k \in Waiting(s2) /\ s2[k] = s[k] /\ s2[k - 1] = s[k - 1] /\ k # n + 1
  <2>1. k \in 2..n /\ s[k].isolate /\ s[k - 1].override = "ON"
    BY <1>1 DEF Waiting
  <2>2. k \in 1..n /\ k - 1 \in 1..n /\ k \in 2..(n + 1) /\ k # n + 1
    BY <2>1
  <2>3. s2[k] = s[k] /\ s2[k - 1] = s[k - 1]
    BY <1>3, <2>2
  <2>4. QED
    BY <1>3, <2>1, <2>2, <2>3 DEF Waiting
<1>8. ASSUME NEW k \in Waiting(s2) PROVE k \in Waiting(s) \/ (k = n + 1 /\ s[n].override = "ON")
  <2>1. k \in 2..(n + 1) /\ s2[k].isolate /\ s2[k - 1].override = "ON"
    BY <1>3 DEF Waiting
  <2>2. CASE k = n + 1
    BY <1>6, <2>1, <2>2
  <2>3. CASE k # n + 1
    <3>1. k \in 2..n /\ k \in 1..n /\ k - 1 \in 1..n
      BY <2>1, <2>3
    <3>2. s2[k] = s[k] /\ s2[k - 1] = s[k - 1]
      BY <1>3, <3>1
    <3>3. QED
      BY <1>1, <2>1, <3>1, <3>2 DEF Waiting
  <2>4. QED
    BY <2>2, <2>3
<1>9. ~(s2[n + 1].level <= level)
  <2>1. e.level \in Nat /\ s[n].level \in Nat
    <3>1. n \in 1..n
      BY <1>2
    <3>2. s[n].level \in Nat
      BY <1>1, <1>2, <3>1, EntryType
    <3>3. e.level \in Nat
      BY LevelsFacts DEF Entries
    <3>4. QED
      BY <3>2, <3>3
  <2>2. QED
    BY <1>1, <1>3, <1>4, <2>1
<1>10. Broken(s2, level) = Broken(s, level)
  <2>1. ASSUME NEW k \in Broken(s2, level) PROVE k \in Broken(s, level)
    <3>1. k \in Waiting(s2) /\ s2[k].level <= level
      BY DEF Broken
    <3>2. k \in Waiting(s)
      BY <1>8, <1>9, <3>1
    <3>3. QED
      BY <1>5, <3>2
  <2>2. ASSUME NEW k \in Broken(s, level) PROVE k \in Broken(s2, level)
    <3>1. k \in Waiting(s) /\ s[k].level <= level
      BY DEF Broken
    <3>2. QED
      BY <1>7, <3>1 DEF Broken
  <2>3. QED
    BY <2>1, <2>2
<1>11. PairsUp(Broken(s2, level), s2, rs, level, takes)
  <2>1. \A k \in Broken(s, level) : s2[k - 1] = s[k - 1]
    BY <1>5, <1>7
  <2>2. QED
    BY <1>4, <1>10, <2>1, PairsAlike
<1>12. s[n].override = "ON" => JustOpened(s2, level, n + 1)
  <2>1. SUFFICES ASSUME s[n].override = "ON" PROVE JustOpened(s2, level, n + 1)
    OBVIOUS
  <2>2. n + 1 \in Waiting(s2)
    BY <1>3, <1>6, <2>1 DEF Waiting
  <2>3. \A j \in Isolates(s2) : j <= n + 1
    BY <1>3 DEF Isolates
  <2>4. QED
    BY <1>4, <1>6, <2>2, <2>3 DEF JustOpened
<1>13. \A k \in Waiting(s2) :
         k \in Broken(s2, level) \/ (type \in Initiators /\ 0 = 0 /\ JustOpened(s2, level, k))
  BY <1>1, <1>5, <1>8, <1>10, <1>12
<1>14. type \in Initiators /\ 0 = 0 => \E k \in Waiting(s2) : JustOpened(s2, level, k)
  BY <1>1, <1>12 DEF JustOpened
<1>15. QED
  BY <1>11, <1>13, <1>14 DEF Waits

-----------------------------------------------------------------------------
(* The run at hand.                                                        *)

(* It takes the last partial run when it is enqueued.                      *)
TakesPartial == types[firstLink] = "PDI" /\ Partials(runs) # {}

AtHand ==
  IF sor = "Nil" THEN runs = <<>> /\ priorLink = 0 /\ firstLink = 0
  ELSE /\ levels[firstLink] = priorLevel /\ levels[priorLink] = priorLevel
       /\ firstLink \in 1..Past /\ firstLink < link /\ priorLink \in 1..Past

NothingOpen == sor = "Nil" => overIsolate = 0 /\ Isolates(stack) = {}

TakesItsLevel == TakesPartial => \A m \in Partials(runs) : IsLast(Partials(runs), m) => runs[m].level = priorLevel

PriorType == types[priorLink]

RunsType == runs \in Seq(RunRecords) /\ Linked(runs)
RunsAtHand == status = "scanning" => AtHand /\ TakesItsLevel
RunsWait ==
  status = "scanning" /\ link # Past =>
    NothingOpen /\ Waits(stack, overIsolate, priorLevel, PriorType, runs, TakesPartial)

(* The invariant of the run queue.                                         *)
QueueInv == RunsType /\ RunsAtHand /\ RunsWait

IsRunAtHand(run) ==
  /\ run \in RunRecords /\ run.level = priorLevel /\ run.next = None
  /\ run.partial <=> PriorType \in Initiators
  /\ run.terminating <=> types[firstLink] = "PDI"

LEMMA RunAtHandIs ==
  ASSUME WalkType, AtHand, sor # "Nil", NEW eor \in {"L", "R"},
         NEW run, run = LevelRun(firstLink, priorLink, sor, eor)
  PROVE  IsRunAtHand(run)
<1>1. priorLevel \in 0..MaxLevel /\ sor \in {"L", "R"} /\ firstLink \in 0..Past /\ priorLink \in 0..Past /\ Past \in Nat
  BY PastType DEF WalkType
<1>2. firstLink \in Nat /\ priorLink \in Nat
  BY <1>1
<1>3. PICK partial \in BOOLEAN : partial = (types[priorLink] \in Initiators)
  <2>1. (types[priorLink] \in Initiators) \in BOOLEAN
    OBVIOUS
  <2>2. QED
    BY <2>1, Zenon
<1>4. PICK terminating \in BOOLEAN : terminating = (types[firstLink] = "PDI")
  OBVIOUS
<1>5. levels[firstLink] = priorLevel
  BY DEF AtHand
<1>6. run = [first |-> firstLink, last |-> priorLink, sor |-> sor, eor |-> eor, level |-> levels[firstLink],
             partial |-> partial, terminating |-> terminating, attached |-> FALSE, next |-> None]
  BY <1>3, <1>4, Zenon DEF LevelRun
<1>7. run \in RunRecords
  BY <1>1, <1>2, <1>5, <1>6 DEF RunRecords, None
<1>8. run.level = priorLevel /\ run.next = None /\ run.partial = partial /\ run.terminating = terminating
  BY <1>5, <1>6
<1>9. QED
  BY <1>3, <1>4, <1>7, <1>8 DEF IsRunAtHand, PriorType

(* How a link that gets a level goes on.                                   *)
StaysInRun(level) ==
  level = priorLevel /\ runs' = runs /\ types'[firstLink'] = types[firstLink]

BeginsRun(type) ==
  runs = <<>> /\ runs' = <<>> /\ types'[firstLink'] = type /\ overIsolate = 0 /\ Isolates(stack) = {}

BreaksRun(level, type) ==
  /\ level # priorLevel /\ types'[firstLink'] = type
  /\ \E run : IsRunAtHand(run) /\ Enqueues(runs, run, runs')

LEMMA RunGoesOn ==
  ASSUME IInv, ExplicitInv, QueueInv, NEW which, At(which), "Nil" \notin which,
         NEW level \in 0..MaxLevel, NEW override \in {"ON", "L", "R"}, Settle(level, override),
         NEW type, type = IF override = "ON" THEN types[link] ELSE override
  PROVE  /\ AtHand' /\ sor' # "Nil" /\ priorLevel' = level /\ PriorType' = type
         /\ StaysInRun(level) \/ BeginsRun(type) \/ BreaksRun(level, type)
<1>1. status = "scanning" /\ types[link] # "Nil" /\ link # Past /\ WalkType
  <2>1. status = "scanning" /\ types[link] # "Nil" /\ WalkType
    BY DEF At, IInv
  <2>2. link < Past /\ Past \in Nat
    BY <2>1, NotPast, PastType DEF IInv
  <2>3. QED
    BY <2>1, <2>2
<1>2. Advance /\ Past' = Past
  BY SettleAdvances DEF IInv, Advance, Past
<1>3. AtHand /\ NothingOpen /\ runs \in Seq(RunRecords)
  BY <1>1 DEF QueueInv, RunsType, RunsAtHand, RunsWait
<1>4. link \in 1..Past /\ link \in 0..Past /\ link \in Nat /\ link' \in 1..Past /\ link < link' /\ link' \in Nat
  <2>1. link \in 1..Past /\ Past \in Nat
    BY <1>1, NotPast, PastType DEF IInv
  <2>2. link' \in 1..Past /\ link < link'
    BY <1>1, <1>2, AdvanceGoesOn DEF IInv
  <2>3. QED
    BY <2>1, <2>2
<1>5. /\ levels' = [levels EXCEPT ![link] = level] /\ types' = [types EXCEPT ![link] = type]
      /\ levels \in [0..Past -> InvalidLevel..MaxLevel] /\ types \in [0..Past -> BidiTypes \cup {"Nil"}]
  BY <1>1 DEF Settle, WalkType
<1>6. /\ levels'[link] = level /\ types'[link] = type
      /\ \A l \in 0..Past : l # link => levels'[l] = levels[l] /\ types'[l] = types[l]
  BY <1>4, <1>5
<1>7. priorLink \in 0..Past /\ priorLink < link /\ firstLink \in 0..Past
  BY <1>1 DEF IInv, WalkType, Walk
<1>8. sor # "Nil" => /\ levels[firstLink] = priorLevel /\ levels[priorLink] = priorLevel
                     /\ firstLink \in 1..Past /\ firstLink < link /\ priorLink \in 1..Past
                     /\ firstLink # link /\ priorLink # link
  <2>1. firstLink < link => firstLink # link
    BY <1>4
  <2>2. priorLink # link
    BY <1>4, <1>7
  <2>3. QED
    BY <1>3, <2>1, <2>2 DEF AtHand
<1>9. CASE override # "ON" /\ types[priorLink] = type /\ levels[priorLink] = level /\ RemoveLink
  <2>1. sor # "Nil"
    <3>1. SUFFICES ASSUME sor = "Nil" PROVE FALSE
      OBVIOUS
    <3>2. types[0] = "Nil" /\ priorLink = 0
      BY <1>1, <1>3, <3>1 DEF AtHand, ExplicitInv, ChainAgrees
    <3>3. QED
      BY <1>9, <3>2
  <2>2. /\ priorLink' = priorLink /\ firstLink' = firstLink /\ priorLevel' = priorLevel
        /\ sor' = sor /\ runs' = runs
    BY <1>9 DEF RemoveLink, runVars
  <2>3. level = priorLevel
    BY <1>8, <1>9, <2>1
  <2>4. /\ types'[firstLink'] = types[firstLink] /\ types'[priorLink'] = types[priorLink]
        /\ levels'[firstLink'] = levels[firstLink] /\ levels'[priorLink'] = levels[priorLink]
    BY <1>6, <1>7, <1>8, <2>1, <2>2
  <2>5. firstLink' < link'
    BY <1>4, <1>7, <1>8, <2>1, <2>2
  <2>6. AtHand'
    BY <1>2, <1>8, <2>1, <2>2, <2>4, <2>5 DEF AtHand
  <2>7. PriorType' = type
    BY <1>9, <2>4 DEF PriorType
  <2>8. StaysInRun(level)
    BY <2>2, <2>3, <2>4 DEF StaysInRun
  <2>9. QED
    BY <2>1, <2>2, <2>3, <2>6, <2>7, <2>8
<1>10. CASE ContinueRun(level, FALSE)
  <2>1. priorLink' = link
    BY <1>10 DEF ContinueRun
  <2>2. levels'[priorLink'] = level /\ types'[priorLink'] = type
    BY <1>6, <2>1
  <2>3. CASE sor = "Nil" /\ sor' = Direction(Larger(baseLevel, level)) /\ firstLink' = link
             /\ priorLevel' = level /\ UNCHANGED runs
    <3>1. sor' # "Nil"
      BY <2>3, DirectionType
    <3>2. types'[firstLink'] = type /\ levels'[firstLink'] = level /\ runs = <<>> /\ runs' = <<>>
      BY <1>3, <1>6, <2>3 DEF AtHand
    <3>3. BeginsRun(type)
      BY <1>3, <2>3, <3>2 DEF BeginsRun, NothingOpen
    <3>4. AtHand'
      BY <1>2, <1>4, <2>1, <2>2, <2>3, <3>1, <3>2 DEF AtHand
    <3>5. QED
      BY <2>2, <2>3, <3>1, <3>3, <3>4 DEF PriorType
  <2>4. CASE /\ sor # "Nil" /\ priorLevel # level
             /\ runs' = Enqueue(LevelRun(firstLink, priorLink, sor, Direction(Larger(priorLevel, level))))
             /\ sor' = Direction(Larger(priorLevel, level)) /\ firstLink' = link /\ priorLevel' = level
    <3>1. PICK eor \in {"L", "R"} : eor = Direction(Larger(priorLevel, level))
      BY DirectionType
    <3>2. PICK run : run = LevelRun(firstLink, priorLink, sor, eor)
      OBVIOUS
    <3>3. IsRunAtHand(run)
      BY <1>1, <1>3, <2>4, <3>2, RunAtHandIs
    <3>4. runs' = Enqueue(run)
      BY <2>4, <3>1, <3>2
    <3>5. run \in RunRecords /\ run.next = None
      BY <3>3 DEF IsRunAtHand
    <3>6. Enqueues(runs, run, runs')
      BY <1>3, <3>4, <3>5, EnqueueIs
    <3>7. types'[firstLink'] = type /\ levels'[firstLink'] = level
      BY <1>6, <2>4
    <3>8. BreaksRun(level, type)
      BY <2>4, <3>3, <3>6, <3>7 DEF BreaksRun
    <3>9. sor' # "Nil"
      BY <2>4, DirectionType
    <3>10. AtHand'
      BY <1>2, <1>4, <2>1, <2>2, <2>4, <3>7, <3>9 DEF AtHand
    <3>11. QED
      BY <2>2, <2>4, <3>8, <3>9, <3>10 DEF PriorType
  <2>5. CASE sor # "Nil" /\ priorLevel = level /\ UNCHANGED runVars
    <3>1. firstLink' = firstLink /\ priorLevel' = priorLevel /\ sor' = sor /\ runs' = runs
      BY <2>5 DEF runVars
    <3>2. types'[firstLink'] = types[firstLink] /\ levels'[firstLink'] = levels[firstLink]
      BY <1>6, <1>7, <1>8, <2>5, <3>1
    <3>3. firstLink' < link'
      BY <1>4, <1>7, <1>8, <2>5, <3>1
    <3>4. AtHand'
      BY <1>2, <1>4, <1>8, <2>1, <2>2, <2>5, <3>1, <3>2, <3>3 DEF AtHand
    <3>5. StaysInRun(level)
      BY <2>5, <3>1, <3>2 DEF StaysInRun
    <3>6. QED
      BY <2>2, <2>5, <3>1, <3>4, <3>5 DEF PriorType
  <2>6. QED
    BY <1>10, <2>3, <2>4, <2>5, Zenon DEF ContinueRun
<1>11. QED
  BY <1>9, <1>10 DEF Settle

-----------------------------------------------------------------------------
(* The iterations, and the run queue.                                      *)

LEMMA AtIteration ==
  ASSUME IInv, QueueInv, NEW which, At(which), "Nil" \notin which
  PROVE  /\ status = "scanning" /\ types[link] # "Nil" /\ types[link] \in which /\ link # Past
         /\ RunsType /\ AtHand /\ TakesItsLevel /\ NothingOpen
         /\ Waits(stack, overIsolate, priorLevel, PriorType, runs, TakesPartial)
<1>1. status = "scanning" /\ types[link] # "Nil" /\ types[link] \in which
  BY DEF At
<1>2. link # Past
  <2>1. link < Past /\ Past \in Nat
    BY <1>1, NotPast, PastType DEF IInv
  <2>2. QED
    BY <2>1
<1>3. QED
  BY <1>1, <1>2 DEF QueueInv, RunsAtHand, RunsWait

(* A link that is abandoned leaves the run at hand.                        *)
LEMMA AbandonKeepsRuns ==
  ASSUME IInv, QueueInv, NEW which, At(which), "Nil" \notin which, Abandon,
         sor = "Nil" => overIsolate' = 0 /\ Isolates(stack') = {},
         Waits(stack', overIsolate', priorLevel, PriorType, runs, TakesPartial)
  PROVE  QueueInv'
<1>1. /\ status = "scanning" /\ types[link] # "Nil"
      /\ RunsType /\ AtHand /\ TakesItsLevel
  BY AtIteration
<1>2. /\ runs' = runs /\ firstLink' = firstLink /\ priorLevel' = priorLevel /\ sor' = sor
      /\ priorLink' = priorLink /\ types' = types /\ levels' = levels
  BY DEF Abandon, RemoveLink, runVars
<1>3. Advance /\ Past' = Past
  BY AbandonIs DEF Advance, Past
<1>4. link < link' /\ link \in Nat /\ link' \in 1..Past /\ Past \in Nat
  BY <1>1, <1>3, AdvanceGoesOn, PastType DEF IInv, WalkType
<1>5. RunsType'
  BY <1>1, <1>2 DEF RunsType
<1>6. AtHand'
  <2>1. CASE sor = "Nil"
    BY <1>1, <1>2, <2>1 DEF AtHand
  <2>2. CASE sor # "Nil"
    <3>1. /\ levels[firstLink] = priorLevel /\ levels[priorLink] = priorLevel
          /\ firstLink \in 1..Past /\ firstLink < link /\ priorLink \in 1..Past
      BY <1>1, <2>2 DEF AtHand
    <3>2. firstLink < link'
      BY <1>4, <3>1
    <3>3. QED
      BY <1>2, <1>3, <2>2, <3>1, <3>2 DEF AtHand
  <2>3. QED
    BY <2>1, <2>2
<1>7. TakesItsLevel'
  BY <1>1, <1>2 DEF TakesItsLevel, TakesPartial
<1>8. NothingOpen'
  BY <1>2 DEF NothingOpen
<1>9. Waits(stack, overIsolate, priorLevel, PriorType, runs, TakesPartial)'
  BY <1>2 DEF PriorType, TakesPartial
<1>10. QED
  BY <1>5, <1>6, <1>7, <1>8, <1>9 DEF QueueInv, RunsAtHand, RunsWait

LEMMA DropKeepsRuns == ASSUME IInv, QueueInv, Drop PROVE QueueInv'
<1>1. At({"BN"}) /\ Abandon /\ "Nil" \notin {"BN"} /\ stack' = stack /\ overIsolate' = overIsolate
  BY DEF Drop, stackVars
<1>2. NothingOpen /\ Waits(stack, overIsolate, priorLevel, PriorType, runs, TakesPartial)
  BY <1>1, AtIteration
<1>3. sor = "Nil" => overIsolate' = 0 /\ Isolates(stack') = {}
  BY <1>1, <1>2 DEF NothingOpen
<1>4. Waits(stack', overIsolate', priorLevel, PriorType, runs, TakesPartial)
  BY <1>1, <1>2
<1>5. QED
  BY <1>1, <1>3, <1>4, AbandonKeepsRuns

LEMMA EmbedKeepsRuns == ASSUME IInv, QueueInv, Embed PROVE QueueInv'
<1>1. At(Embeddings) /\ Abandon /\ "Nil" \notin Embeddings /\ overIsolate' = overIsolate
  BY DEF Embed, Embeddings
<1>2. NothingOpen /\ Waits(stack, overIsolate, priorLevel, PriorType, runs, TakesPartial)
  BY <1>1, AtIteration
<1>3. StackIsAccounted
  BY DEF IInv
<1>4. Isolates(stack') = Isolates(stack) /\ Waits(stack', overIsolate', priorLevel, PriorType, runs, TakesPartial)
  <2>1. PICK isRTL \in BOOLEAN : isRTL = (types[link] \in {"RLE", "RLO"})
    <3>1. (types[link] \in {"RLE", "RLO"}) \in BOOLEAN
      OBVIOUS
    <3>2. QED
      BY <3>1, Zenon
  <2>2. PICK level : level = LeastGreater(isRTL)
    OBVIOUS
  <2>3. level \in Nat
    BY <1>3, <2>2, LeastGreaterIs
  <2>4. PICK override \in {"ON", "L", "R"} :
          override = IF types[link] = "RLO" THEN "R" ELSE IF types[link] = "LRO" THEN "L" ELSE "ON"
    OBVIOUS
  <2>5. \/ CanPush(level) /\ stack' = Append(stack, Status(level, override, FALSE))
        \/ stack' = stack
    BY <2>1, <2>2, <2>4 DEF Embed
  <2>6. CASE stack' = stack
    BY <1>1, <1>2, <2>6
  <2>7. CASE CanPush(level) /\ stack' = Append(stack, Status(level, override, FALSE))
    <3>1. PICK e : e = Status(level, override, FALSE)
      OBVIOUS
    <3>2. e \in Entries /\ ~e.isolate
      BY <2>3, <2>7, <3>1, LevelsFacts DEF Status, Entries, CanPush
    <3>3. stack \in Seq(Entries) /\ Len(stack) >= 1
      BY <1>3 DEF StackIsAccounted, Accounted
    <3>4. overIsolate = 0 /\ overIsolate' = 0
      BY <1>1, <2>7 DEF CanPush
    <3>5. Waits(stack, 0, priorLevel, PriorType, runs, TakesPartial)
      BY <1>2, <3>4
    <3>6. PICK s2 : s2 = Append(stack, e)
      OBVIOUS
    <3>7. Waits(s2, 0, priorLevel, PriorType, runs, TakesPartial) /\ Isolates(s2) = Isolates(stack)
      BY <3>2, <3>3, <3>5, <3>6, PushWaits
    <3>8. stack' = s2
      BY <2>7, <3>1, <3>6
    <3>9. QED
      BY <3>4, <3>7, <3>8
  <2>8. QED
    BY <2>5, <2>6, <2>7
<1>5. sor = "Nil" => overIsolate' = 0 /\ Isolates(stack') = {}
  BY <1>1, <1>2, <1>4 DEF NothingOpen
<1>6. QED
  BY <1>1, <1>4, <1>5, AbandonKeepsRuns

LEMMA CloseEmbeddingKeepsRuns == ASSUME IInv, QueueInv, CloseEmbedding PROVE QueueInv'
<1>1. At({"PDF"}) /\ Abandon /\ "Nil" \notin {"PDF"} /\ overIsolate' = overIsolate
  BY DEF CloseEmbedding
<1>2. NothingOpen /\ Waits(stack, overIsolate, priorLevel, PriorType, runs, TakesPartial)
  BY <1>1, AtIteration
<1>3. \/ stack' = stack
      \/ /\ overIsolate = 0 /\ ~stack[Len(stack)].isolate /\ Len(stack) >= 2
         /\ stack' = SubSeq(stack, 1, Len(stack) - 1)
  BY DEF CloseEmbedding, Top
<1>4. Isolates(stack') = Isolates(stack) /\ Waits(stack', overIsolate', priorLevel, PriorType, runs, TakesPartial)
  <2>1. CASE stack' = stack
    BY <1>1, <1>2, <2>1
  <2>2. CASE /\ overIsolate = 0 /\ ~stack[Len(stack)].isolate /\ Len(stack) >= 2
             /\ stack' = SubSeq(stack, 1, Len(stack) - 1)
    <3>1. stack \in Seq(Entries) /\ Len(stack) \in Nat
      BY DEF IInv, StackIsAccounted, Accounted
    <3>2. PICK s2 : s2 = SubSeq(stack, 1, Len(stack) - 1)
      OBVIOUS
    <3>3. Len(s2) = Len(stack) - 1 /\ \A k \in 1..(Len(stack) - 1) : s2[k] = stack[k]
      BY <2>2, <3>1, <3>2
    <3>4. Waits(stack, 0, priorLevel, PriorType, runs, TakesPartial)
      BY <1>2, <2>2
    <3>5. Waits(s2, 0, priorLevel, PriorType, runs, TakesPartial) /\ Isolates(s2) = Isolates(stack)
      BY <2>2, <3>1, <3>3, <3>4, PopWaits
    <3>6. QED
      BY <1>1, <2>2, <3>2, <3>5
  <2>3. QED
    BY <1>3, <2>1, <2>2
<1>5. sor = "Nil" => overIsolate' = 0 /\ Isolates(stack') = {}
  BY <1>1, <1>2, <1>4 DEF NothingOpen
<1>6. QED
  BY <1>1, <1>4, <1>5, AbandonKeepsRuns

(* A run that ends where the level changes leaves the queue linked.        *)
LEMMA EnqueueKeepsType ==
  ASSUME RunsType, TakesItsLevel, NEW run, IsRunAtHand(run), Enqueues(runs, run, runs')
  PROVE  RunsType'
<1>1. runs \in Seq(RunRecords) /\ Linked(runs)
  BY DEF RunsType
<1>2. runs' \in Seq(RunRecords)
  BY DEF Enqueues
<1>3. ASSUME NEW m \in Partials(runs), run.terminating, IsLast(Partials(runs), m)
      PROVE  runs[m].level = run.level
  <2>1. run.level = priorLevel /\ types[firstLink] = "PDI"
    BY <1>3 DEF IsRunAtHand
  <2>2. TakesPartial
    BY <2>1 DEF TakesPartial
  <2>3. QED
    BY <1>3, <2>1, <2>2 DEF TakesItsLevel
<1>4. PICK rs, rs2 : rs = runs /\ rs2 = runs'
  OBVIOUS
<1>5. Linked(rs2)
  <2>1. \A m \in Partials(rs) : run.terminating /\ IsLast(Partials(rs), m) => rs[m].level = run.level
    BY <1>3, <1>4
  <2>2. rs \in Seq(RunRecords) /\ Linked(rs) /\ Enqueues(rs, run, rs2)
    BY <1>1, <1>4
  <2>3. QED
    BY <2>1, <2>2, EnqueueLinks
<1>6. QED
  BY <1>2, <1>4, <1>5 DEF RunsType

LEMMA SettledTakes ==
  ASSUME NEW s, NEW base, NEW valid, Accounted(s, base, valid), NEW rs \in Seq(RunRecords),
         NEW level \in Nat, NEW takes, SettledAt(s, level, rs, takes)
  PROVE  takes => \A m \in Partials(rs) : IsLast(Partials(rs), m) => rs[m].level = level
<1>1. SUFFICES ASSUME takes, NEW m \in Partials(rs), IsLast(Partials(rs), m) PROVE rs[m].level = level
  OBVIOUS
<1>2. PairsUp(Broken(s, level), s, rs, level, takes)
  BY DEF SettledAt
<1>3. QED
  BY <1>1, <1>2, TakenIs

(* A link that is given a level.                                           *)
LEMMA SettleKeepsRuns ==
  ASSUME IInv, ExplicitInv, QueueInv, NEW which, At(which), "Nil" \notin which,
         NEW level \in 0..MaxLevel, NEW override \in {"ON", "L", "R"}, Settle(level, override),
         NEW type, type = IF override = "ON" THEN types[link] ELSE override,
         TakesPartial' => \A m \in Partials(runs') : IsLast(Partials(runs'), m) => runs'[m].level = level,
         link' # Past' => Waits(stack', overIsolate', level, type, runs', TakesPartial')
  PROVE  QueueInv'
<1>1. /\ AtHand' /\ sor' # "Nil" /\ priorLevel' = level /\ PriorType' = type
      /\ StaysInRun(level) \/ BeginsRun(type) \/ BreaksRun(level, type)
  BY RunGoesOn
<1>2. RunsType /\ TakesItsLevel
  BY AtIteration
<1>3. RunsType'
  <2>1. CASE runs' = runs
    BY <1>2, <2>1 DEF RunsType
  <2>2. CASE BreaksRun(level, type)
    <3>1. PICK run : IsRunAtHand(run) /\ Enqueues(runs, run, runs')
      BY <2>2 DEF BreaksRun
    <3>2. QED
      BY <1>2, <3>1, EnqueueKeepsType
  <2>3. StaysInRun(level) \/ BeginsRun(type) => runs' = runs
    BY DEF StaysInRun, BeginsRun
  <2>4. QED
    BY <1>1, <2>1, <2>2, <2>3
<1>4. TakesItsLevel'
  BY <1>1 DEF TakesItsLevel
<1>5. NothingOpen'
  BY <1>1 DEF NothingOpen
<1>6. link' # Past' => Waits(stack, overIsolate, priorLevel, PriorType, runs, TakesPartial)'
  BY <1>1
<1>7. QED
  BY <1>1, <1>3, <1>4, <1>5, <1>6 DEF QueueInv, RunsAtHand, RunsWait

(* The level of the top, where the stack stays.                            *)
LEMMA TopSettles ==
  ASSUME IInv, ExplicitInv, QueueInv, NEW which, At(which), "Nil" \notin which,
         NEW level \in 0..MaxLevel, NEW override \in {"ON", "L", "R"}, Settle(level, override),
         NEW type, type = IF override = "ON" THEN types[link] ELSE override,
         level = Top.level, type # "PDI" \/ overIsolate # 0 \/ Isolates(stack) = {}
  PROVE  SettledAt(stack, level, runs', TakesPartial')
<1>1. StaysInRun(level) \/ BeginsRun(type) \/ BreaksRun(level, type)
  BY RunGoesOn
<1>2. RunsType /\ Waits(stack, overIsolate, priorLevel, PriorType, runs, TakesPartial)
  BY AtIteration
<1>3. level = stack[Len(stack)].level
  BY DEF Top
<1>4. Accounted(stack, baseLevel, validIsolate) /\ priorLevel \in Nat
  BY LevelsFacts DEF IInv, StackIsAccounted, WalkType
<1>5. CASE StaysInRun(level)
  <2>1. priorLevel = level /\ runs' = runs /\ (TakesPartial' <=> TakesPartial)
    BY <1>5 DEF StaysInRun, TakesPartial
  <2>2. SettledAt(stack, priorLevel, runs, TakesPartial)
    BY <1>2, <1>3, <2>1, StaySettles
  <2>3. QED
    BY <2>1, <2>2 DEF SettledAt, PairsUp
<1>6. CASE BeginsRun(type)
  <2>1. runs' = <<>> /\ Isolates(stack) = {}
    BY <1>6 DEF BeginsRun
  <2>2. Len(stack) \in Nat
    BY <1>4 DEF Accounted
  <2>3. SettledAt(stack, level, runs', FALSE) /\ Partials(runs') = {}
    BY <1>3, <2>1, <2>2, FirstSettles
  <2>4. ~TakesPartial'
    BY <2>3 DEF TakesPartial
  <2>5. QED
    BY <2>3, <2>4 DEF SettledAt, PairsUp
<1>7. CASE BreaksRun(level, type)
  <2>1. PICK run : IsRunAtHand(run) /\ Enqueues(runs, run, runs')
    BY <1>7 DEF BreaksRun
  <2>2. level # priorLevel /\ types'[firstLink'] = type
    BY <1>7 DEF BreaksRun
  <2>3. run \in RunRecords /\ run.level = priorLevel /\ (run.partial <=> PriorType \in Initiators)
    BY <2>1 DEF IsRunAtHand
  <2>4. TakesPartial <=> run.terminating /\ Partials(runs) # {}
    BY <2>1 DEF IsRunAtHand, TakesPartial
  <2>5. runs \in Seq(RunRecords)
    BY <1>2 DEF RunsType
  <2>6. overIsolate = 0 /\ SettledAt(stack, level, runs', FALSE)
    <3>1. PICK takes \in BOOLEAN : takes = TakesPartial
      BY DEF TakesPartial
    <3>2. PICK rs2 : rs2 = runs'
      OBVIOUS
    <3>3. takes <=> run.terminating /\ Partials(runs) # {}
      BY <2>4, <3>1
    <3>4. Waits(stack, overIsolate, priorLevel, PriorType, runs, takes)
      BY <1>2, <3>1
    <3>5. Enqueues(runs, run, rs2)
      BY <2>1, <3>2
    <3>6. PICK type0, level0 : type0 = PriorType /\ level0 = priorLevel
      OBVIOUS
    <3>7. run.partial <=> type0 \in Initiators
      BY <2>1, <3>6 DEF IsRunAtHand
    <3>8. level # level0 /\ run \in RunRecords /\ run.level = level0 /\ level0 \in Nat
      BY <1>4, <2>2, <2>3, <3>6
    <3>9. Waits(stack, overIsolate, level0, type0, runs, takes)
      BY <3>4, <3>6
    <3>10. overIsolate = 0 /\ SettledAt(stack, level, rs2, FALSE)
      <4>1. overIsolate = 0
        BY <1>3, <3>8, <3>9 DEF Waits
      <4>2. Waits(stack, 0, level0, type0, runs, takes)
        BY <3>9, <4>1
      <4>3. PairsUp(Waiting(stack), stack, rs2, level, FALSE)
        BY <1>4, <2>5, <3>3, <3>5, <3>7, <3>8, <4>2, BreakWaits
      <4>4. Broken(stack, level) = Waiting(stack)
        BY <1>3, <1>4, AllBroken
      <4>5. QED
        BY <1>3, <4>1, <4>3, <4>4 DEF SettledAt
    <3>11. QED
      BY <3>2, <3>10
  <2>7. ~TakesPartial'
    <3>1. CASE type # "PDI"
      BY <2>2, <3>1 DEF TakesPartial
    <3>2. CASE Isolates(stack) = {}
      <4>1. Len(stack) \in Nat
        BY <1>4 DEF Accounted
      <4>2. Waiting(stack) = {}
        BY <3>2, <4>1, WaitingIsIsolate
      <4>3. Broken(stack, level) = {}
        BY <4>2 DEF Broken
      <4>4. PairsUp({}, stack, runs', level, FALSE)
        BY <2>6, <4>3 DEF SettledAt
      <4>5. Partials(runs') = {}
        BY <4>4 DEF PairsUp
      <4>6. QED
        BY <4>5 DEF TakesPartial
    <3>3. QED
      BY <2>6, <3>1, <3>2
  <2>8. QED
    BY <2>6, <2>7 DEF SettledAt, PairsUp
<1>8. QED
  BY <1>1, <1>5, <1>6, <1>7

(* What the top gives, if the stack then stays or has one more isolate on  *)
(* it.                                                                     *)
LEMMA SettledGoesOn ==
  ASSUME IInv, ExplicitInv, QueueInv, NEW which, At(which), "Nil" \notin which,
         NEW level \in 0..MaxLevel, NEW override \in {"ON", "L", "R"}, Settle(level, override),
         NEW type, type = IF override = "ON" THEN types[link] ELSE override,
         NEW s, NEW valid, Accounted(s, baseLevel, valid), SettledAt(s, level, runs', TakesPartial'),
         \/ stack' = s /\ (type \notin Initiators \/ overIsolate' # 0)
         \/ \E e \in Entries : /\ e.isolate /\ s[Len(s)].level < e.level /\ stack' = Append(s, e)
                               /\ overIsolate' = 0 /\ (type \in Initiators <=> s[Len(s)].override = "ON")
  PROVE  QueueInv'
<1>1. runs' \in Seq(RunRecords)
  <2>1. RunsType
    BY AtIteration
  <2>2. StaysInRun(level) \/ BeginsRun(type) \/ BreaksRun(level, type)
    BY RunGoesOn
  <2>3. QED
    BY <2>1, <2>2 DEF RunsType, StaysInRun, BeginsRun, BreaksRun, Enqueues
<1>2. PICK rs \in Seq(RunRecords) : rs = runs'
  BY <1>1
<1>3. PICK takes \in BOOLEAN : takes = TakesPartial'
  BY DEF TakesPartial
<1>4. SettledAt(s, level, rs, takes) /\ level \in Nat
  BY <1>2, <1>3, LevelsFacts
<1>5. takes => \A m \in Partials(rs) : IsLast(Partials(rs), m) => rs[m].level = level
  BY <1>4, SettledTakes
<1>6. TakesPartial' => \A m \in Partials(runs') : IsLast(Partials(runs'), m) => runs'[m].level = level
  BY <1>2, <1>3, <1>5
<1>7. PICK s2, over2 : s2 = stack' /\ over2 = overIsolate'
  OBVIOUS
<1>8. Waits(s2, over2, level, type, rs, takes)
  <2>1. CASE s2 = s /\ (type \notin Initiators \/ over2 # 0)
    <3>1. Waits(s, over2, level, type, rs, takes)
      BY <1>4, <2>1, SettledWaits
    <3>2. QED
      BY <2>1, <3>1
  <2>2. CASE \E e \in Entries : /\ e.isolate /\ s[Len(s)].level < e.level /\ s2 = Append(s, e)
                                /\ over2 = 0 /\ (type \in Initiators <=> s[Len(s)].override = "ON")
    <3>1. PICK e \in Entries : /\ e.isolate /\ s[Len(s)].level < e.level /\ s2 = Append(s, e)
                               /\ over2 = 0 /\ (type \in Initiators <=> s[Len(s)].override = "ON")
      BY <2>2
    <3>2. Waits(s2, 0, level, type, rs, takes)
      BY <1>4, <3>1, OpenedWaits
    <3>3. QED
      BY <3>1, <3>2
  <2>3. QED
    BY <1>7, <2>1, <2>2
<1>9. Waits(stack', overIsolate', level, type, runs', TakesPartial')
  BY <1>2, <1>3, <1>7, <1>8
<1>10. QED
  BY <1>6, <1>9, SettleKeepsRuns

LEMMA AssignKeepsRuns == ASSUME IInv, ExplicitInv, QueueInv, Assign PROVE QueueInv'
<1>1. At({"L", "R", "ON"}) /\ Settle(Top.level, Top.override) /\ stack' = stack /\ overIsolate' = overIsolate
      /\ "Nil" \notin {"L", "R", "ON"}
  BY DEF Assign, stackVars
<1>2. types[link] \in {"L", "R", "ON"}
  BY <1>1 DEF At
<1>3. PICK level \in 0..MaxLevel, override \in {"ON", "L", "R"} : level = Top.level /\ override = Top.override
  BY TopType DEF IInv
<1>4. Settle(level, override)
  BY <1>1, <1>3
<1>5. PICK type : type = IF override = "ON" THEN types[link] ELSE override
  OBVIOUS
<1>6. type # "PDI" /\ type \notin Initiators
  BY <1>2, <1>3, <1>5 DEF Initiators
<1>7. SettledAt(stack, level, runs', TakesPartial')
  BY <1>1, <1>3, <1>4, <1>5, <1>6, TopSettles
<1>8. Accounted(stack, baseLevel, validIsolate)
  BY DEF IInv, StackIsAccounted
<1>9. QED
  BY <1>1, <1>4, <1>5, <1>6, <1>7, <1>8, SettledGoesOn

LEMMA IsolateKeepsRuns == ASSUME IInv, ExplicitInv, QueueInv, Isolate PROVE QueueInv'
<1>1. At(Initiators) /\ Settle(Top.level, Top.override) /\ "Nil" \notin Initiators
  BY DEF Isolate, Initiators
<1>2. types[link] \in Initiators
  BY <1>1 DEF At
<1>3. PICK level \in 0..MaxLevel, override \in {"ON", "L", "R"} : level = Top.level /\ override = Top.override
  BY TopType DEF IInv
<1>4. Settle(level, override)
  BY <1>1, <1>3
<1>5. PICK type : type = IF override = "ON" THEN types[link] ELSE override
  OBVIOUS
<1>6. type # "PDI" /\ (type \in Initiators <=> stack[Len(stack)].override = "ON")
  BY <1>2, <1>3, <1>5 DEF Initiators, Top
<1>7. SettledAt(stack, level, runs', TakesPartial')
  BY <1>1, <1>3, <1>4, <1>5, <1>6, TopSettles
<1>8. Accounted(stack, baseLevel, validIsolate) /\ StackIsAccounted /\ overIsolate \in Nat
  BY DEF IInv, StackIsAccounted, OverType
<1>9. \/ stack' = stack /\ overIsolate' # 0
      \/ \E e \in Entries : e.isolate /\ stack[Len(stack)].level < e.level /\ stack' = Append(stack, e) /\ overIsolate' = 0
  <2>1. PICK isRTL \in BOOLEAN :
          isRTL = (\/ types[link] = "RLI"
                   \/ types[link] = "FSI" /\ DetermineBaseLevel(chain, types, link, 0, TRUE) = 1)
    OBVIOUS
  <2>2. PICK above : above = LeastGreater(isRTL)
    OBVIOUS
  <2>3. above \in Nat /\ stack[Len(stack)].level < above
    BY <1>8, <2>2, LeastGreaterIs DEF Top
  <2>4. \/ /\ CanPush(above)
           /\ stack' = Append(stack, Status(above, "ON", TRUE)) /\ overIsolate' = overIsolate
        \/ overIsolate' = overIsolate + 1 /\ stack' = stack
    BY <2>1, <2>2 DEF Isolate
  <2>5. CASE CanPush(above) /\ stack' = Append(stack, Status(above, "ON", TRUE)) /\ overIsolate' = overIsolate
    <3>1. PICK e : e = Status(above, "ON", TRUE)
      OBVIOUS
    <3>2. e \in Entries /\ e.isolate /\ e.level = above
      BY <2>3, <2>5, <3>1, LevelsFacts DEF Status, Entries, CanPush
    <3>3. overIsolate' = 0
      BY <2>5 DEF CanPush
    <3>4. QED
      BY <2>3, <2>5, <3>1, <3>2, <3>3
  <2>6. CASE overIsolate' = overIsolate + 1 /\ stack' = stack
    BY <1>8, <2>6
  <2>7. QED
    BY <2>4, <2>5, <2>6
<1>10. QED
  BY <1>1, <1>4, <1>5, <1>6, <1>7, <1>8, <1>9, SettledGoesOn

(* The PDI of the last isolate.                                            *)
LEMMA CutSettles ==
  ASSUME IInv, ExplicitInv, QueueInv, At({"PDI"}), overIsolate = 0,
         NEW level \in 0..MaxLevel, NEW override \in {"ON", "L", "R"}, Settle(level, override),
         NEW type, type = IF override = "ON" THEN types[link] ELSE override,
         NEW s2, NEW K, IsCut(stack, s2, K), NEW valid2, Accounted(s2, baseLevel, valid2),
         level = s2[Len(s2)].level, override = s2[Len(s2)].override
  PROVE  SettledAt(s2, level, runs', TakesPartial')
<1>1. StaysInRun(level) \/ BeginsRun(type) \/ BreaksRun(level, type)
  BY RunGoesOn
<1>2. RunsType /\ Waits(stack, 0, priorLevel, PriorType, runs, TakesPartial)
  BY AtIteration
<1>3. Accounted(stack, baseLevel, validIsolate) /\ priorLevel \in Nat
  BY LevelsFacts DEF IInv, StackIsAccounted, WalkType
<1>4. type = "PDI" <=> stack[K - 1].override = "ON"
  <2>1. s2[Len(s2)] = stack[K - 1]
    BY <1>3, CutIs
  <2>2. types[link] = "PDI"
    BY DEF At
  <2>3. QED
    BY <2>1, <2>2
<1>5. CASE StaysInRun(level)
  <2>1. priorLevel = level /\ runs' = runs /\ (TakesPartial' <=> TakesPartial)
    BY <1>5 DEF StaysInRun, TakesPartial
  <2>2. SettledAt(s2, priorLevel, runs, TakesPartial)
    <3>1. PICK takes \in BOOLEAN : takes = TakesPartial
      BY DEF TakesPartial
    <3>2. PICK level0, type0 : level0 = priorLevel /\ type0 = PriorType
      OBVIOUS
    <3>3. Waits(stack, 0, level0, type0, runs, takes) /\ level0 = s2[Len(s2)].level
      BY <1>2, <2>1, <3>1, <3>2
    <3>4. SettledAt(s2, level0, runs, takes)
      BY <1>3, <3>3, CutStays
    <3>5. QED
      BY <3>1, <3>2, <3>4
  <2>3. QED
    BY <2>1, <2>2 DEF SettledAt, PairsUp
<1>6. CASE BeginsRun(type)
  BY <1>6 DEF BeginsRun, IsCut, IsLast
<1>7. CASE BreaksRun(level, type)
  <2>1. PICK run : IsRunAtHand(run) /\ Enqueues(runs, run, runs')
    BY <1>7 DEF BreaksRun
  <2>2. level # priorLevel /\ types'[firstLink'] = type
    BY <1>7 DEF BreaksRun
  <2>3. PICK takes \in BOOLEAN : takes = TakesPartial
    BY DEF TakesPartial
  <2>4. PICK level0, type0 : level0 = priorLevel /\ type0 = PriorType
    OBVIOUS
  <2>5. PICK rs2 : rs2 = runs'
    OBVIOUS
  <2>6. PICK takes2 \in BOOLEAN : takes2 = TakesPartial'
    BY DEF TakesPartial
  <2>7. takes2 <=> stack[K - 1].override = "ON" /\ Partials(rs2) # {}
    BY <1>4, <2>2, <2>5, <2>6 DEF TakesPartial
  <2>8. run \in RunRecords /\ run.level = level0 /\ level0 \in Nat
    BY <1>3, <2>1, <2>4 DEF IsRunAtHand
  <2>9. run.partial <=> type0 \in Initiators
    BY <2>1, <2>4 DEF IsRunAtHand
  <2>10. takes <=> run.terminating /\ Partials(runs) # {}
    BY <2>1, <2>3 DEF IsRunAtHand, TakesPartial
  <2>11. Waits(stack, 0, level0, type0, runs, takes)
    BY <1>2, <2>3, <2>4
  <2>12. runs \in Seq(RunRecords) /\ Enqueues(runs, run, rs2)
    BY <1>2, <2>1, <2>5 DEF RunsType
  <2>13. SettledAt(s2, level, rs2, takes2)
    BY <1>3, <2>7, <2>8, <2>9, <2>10, <2>11, <2>12, CutBreaks
  <2>14. QED
    BY <2>5, <2>6, <2>13
<1>8. QED
  BY <1>1, <1>5, <1>6, <1>7

LEMMA CloseIsolateKeepsRuns == ASSUME IInv, ExplicitInv, QueueInv, CloseIsolate PROVE QueueInv'
<1>1. At({"PDI"}) /\ "Nil" \notin {"PDI"} /\ types[link] = "PDI"
  BY DEF CloseIsolate, At
<1>2. PICK s : s = stack'
  OBVIOUS
<1>3. PICK valid : Accounted(s, baseLevel, valid)
  <2>1. IInv'
    BY CloseIsolateKeeps
  <2>2. StackIsAccounted'
    BY <2>1 DEF IInv
  <2>3. baseLevel' = baseLevel
    BY <1>1 DEF At, paragraphVars
  <2>4. QED
    BY <1>2, <2>2, <2>3 DEF StackIsAccounted
<1>4. s \in Seq(Entries) /\ Len(s) \in Nat /\ Len(s) >= 1
  BY <1>3 DEF Accounted
<1>5. PICK k \in 1..Len(s) : k = Len(s)
  BY <1>4
<1>6. PICK level \in 0..MaxLevel, override \in {"ON", "L", "R"} : level = s[k].level /\ override = s[k].override
  BY <1>4, EntryType
<1>7. Settle(level, override)
  BY <1>2, <1>5, <1>6 DEF CloseIsolate
<1>8. PICK type : type = IF override = "ON" THEN types[link] ELSE override
  OBVIOUS
<1>9. type \notin Initiators
  BY <1>1, <1>6, <1>8 DEF Initiators
<1>10. validIsolate = 0 <=> Isolates(stack) = {}
  <2>1. stack \in Seq(Entries) /\ validIsolate = Cardinality(Isolates(stack))
    BY DEF IInv, StackIsAccounted, Accounted
  <2>2. IsFiniteSet(Isolates(stack))
    BY <2>1, IsolatesFinite
  <2>3. QED
    BY <2>1, <2>2, FS_EmptySet
<1>11. \/ stack' = stack /\ (overIsolate # 0 \/ validIsolate = 0)
       \/ /\ overIsolate = 0 /\ validIsolate # 0
          /\ stack' = SubSeq(stack, 1, Max(Isolates(stack)) - 1)
  BY DEF CloseIsolate, Isolates, stackVars
<1>12. SettledAt(s, level, runs', TakesPartial')
  <2>1. CASE stack' = stack /\ (overIsolate # 0 \/ validIsolate = 0)
    <3>1. s = stack /\ level = Top.level
      BY <1>2, <1>5, <1>6, <2>1 DEF Top
    <3>2. SettledAt(stack, level, runs', TakesPartial')
      BY <1>1, <1>7, <1>8, <1>10, <2>1, <3>1, TopSettles
    <3>3. QED
      BY <3>1, <3>2
  <2>2. CASE /\ overIsolate = 0 /\ validIsolate # 0
             /\ stack' = SubSeq(stack, 1, Max(Isolates(stack)) - 1)
    <3>1. PICK K : K = Max(Isolates(stack))
      OBVIOUS
    <3>2. stack \in Seq(Entries) /\ Len(stack) \in Nat
      BY DEF IInv, StackIsAccounted, Accounted
    <3>3. Isolates(stack) # {} /\ Isolates(stack) \subseteq 0..Len(stack)
      BY <1>10, <2>2, <3>2 DEF Isolates
    <3>4. K \in Isolates(stack) /\ \A j \in Isolates(stack) : j <= K
      BY <3>1, <3>2, <3>3, MaxIs
    <3>5. K \in 1..Len(stack)
      BY <3>4 DEF Isolates
    <3>6. s = SubSeq(stack, 1, K - 1)
      BY <1>2, <2>2, <3>1
    <3>7. Len(s) = K - 1 /\ \A j \in 1..(K - 1) : s[j] = stack[j]
      BY <3>2, <3>5, <3>6
    <3>8. IsCut(stack, s, K)
      BY <3>4, <3>7 DEF IsCut, IsLast
    <3>9. QED
      BY <1>1, <1>3, <1>5, <1>6, <1>7, <1>8, <2>2, <3>8, CutSettles
  <2>3. QED
    BY <1>11, <2>1, <2>2
<1>13. stack' = s
  BY <1>2
<1>14. QED
  BY <1>1, <1>3, <1>7, <1>8, <1>9, <1>12, <1>13, SettledGoesOn

LEMMA SeparateKeepsRuns == ASSUME IInv, ExplicitInv, QueueInv, Separate PROVE QueueInv'
<1>1. At({"B"}) /\ Settle(baseLevel, "ON") /\ "Nil" \notin {"B"}
  BY DEF Separate
<1>2. status = "scanning" /\ types[link] = "B" /\ types[link] # "Nil"
  BY <1>1 DEF At
<1>3. PICK n : n = Len(text)
  OBVIOUS
<1>4. n \in Nat /\ link \in 1..n /\ types[link] = text[link] /\ Past = n + 1
  BY <1>2, <1>3, AtLink
<1>5. link = n
  <2>1. text \in Texts
    BY DEF IInv, WalkType
  <2>2. QED
    BY <1>2, <1>3, <1>4, <2>1, TextsAssumption
<1>6. baseLevel \in 0..(MaxLevel - 1)
  BY DEF IInv, WalkType
<1>7. PICK level \in 0..MaxLevel, override \in {"ON", "L", "R"} : level = baseLevel /\ override = "ON"
  BY <1>6, LevelsFacts
<1>8. Settle(level, override)
  BY <1>1, <1>7
<1>9. link' = Past'
  <2>1. Advance
    BY <1>1, <1>8, SettleAdvances DEF IInv
  <2>2. link' \in 1..(n + 1) /\ link < link'
    BY <1>2, <1>3, <2>1, LinkAfter
  <2>3. Past' = Past
    BY <2>1 DEF Advance, Past
  <2>4. QED
    BY <1>4, <1>5, <2>2, <2>3
<1>10. PICK type : type = IF override = "ON" THEN types[link] ELSE override
  OBVIOUS
<1>11. type = "B"
  BY <1>2, <1>7, <1>10
<1>12. TakesPartial' => \A m \in Partials(runs') : IsLast(Partials(runs'), m) => runs'[m].level = level
  <2>1. TakesItsLevel
    BY <1>1, AtIteration
  <2>2. StaysInRun(level) \/ BeginsRun(type) \/ BreaksRun(level, type)
    BY <1>1, <1>8, <1>10, RunGoesOn
  <2>3. CASE StaysInRun(level)
    <3>1. priorLevel = level /\ runs' = runs /\ (TakesPartial' <=> TakesPartial)
      BY <2>3 DEF StaysInRun, TakesPartial
    <3>2. QED
      BY <2>1, <3>1 DEF TakesItsLevel
  <2>4. CASE BeginsRun(type) \/ BreaksRun(level, type)
    <3>1. types'[firstLink'] = "B"
      BY <1>11, <2>4 DEF BeginsRun, BreaksRun
    <3>2. QED
      BY <3>1 DEF TakesPartial
  <2>5. QED
    BY <2>2, <2>3, <2>4
<1>13. QED
  BY <1>1, <1>8, <1>9, <1>10, <1>12, SettleKeepsRuns

LEMMA FinishKeepsRuns == ASSUME IInv, QueueInv, Finish PROVE QueueInv'
<1>1. status = "scanning" /\ status' = "resolving" /\ ContinueRun(baseLevel, TRUE)
  BY DEF Finish, At
<1>2. RunsType /\ AtHand /\ TakesItsLevel /\ WalkType
  BY <1>1 DEF QueueInv, RunsAtHand, IInv
<1>3. \/ runs' = runs
      \/ /\ sor # "Nil"
         /\ runs' = Enqueue(LevelRun(firstLink, priorLink, sor, Direction(Larger(priorLevel, baseLevel))))
  BY <1>1, Zenon DEF ContinueRun, runVars
<1>4. RunsType'
  <2>1. CASE runs' = runs
    BY <1>2, <2>1 DEF RunsType
  <2>2. CASE /\ sor # "Nil"
             /\ runs' = Enqueue(LevelRun(firstLink, priorLink, sor, Direction(Larger(priorLevel, baseLevel))))
    <3>1. PICK eor \in {"L", "R"} : eor = Direction(Larger(priorLevel, baseLevel))
      BY DirectionType
    <3>2. PICK run : run = LevelRun(firstLink, priorLink, sor, eor)
      OBVIOUS
    <3>3. IsRunAtHand(run)
      BY <1>2, <2>2, <3>2, RunAtHandIs
    <3>4. runs' = Enqueue(run)
      BY <2>2, <3>1, <3>2
    <3>5. run \in RunRecords /\ run.next = None /\ runs \in Seq(RunRecords)
      BY <1>2, <3>3 DEF IsRunAtHand, RunsType
    <3>6. Enqueues(runs, run, runs')
      BY <3>4, <3>5, EnqueueIs
    <3>7. QED
      BY <1>2, <3>3, <3>6, EnqueueKeepsType
  <2>3. QED
    BY <1>3, <2>1, <2>2
<1>5. QED
  BY <1>1, <1>4 DEF QueueInv, RunsAtHand, RunsWait

LEMMA RestKeepsRuns ==
  ASSUME QueueInv, Resolve \/ Complete \/ Fail \/ UNCHANGED vars
  PROVE  QueueInv'
<1>1. CASE Resolve \/ Complete \/ Fail
  <2>1. runs' = runs /\ status' # "scanning"
    BY <1>1 DEF Resolve, Complete, Fail, runVars
  <2>2. QED
    BY <2>1 DEF QueueInv, RunsType, RunsAtHand, RunsWait
<1>2. CASE UNCHANGED vars
  BY <1>2 DEF vars, Past, QueueInv, RunsType, RunsAtHand, RunsWait, AtHand, TakesItsLevel, TakesPartial,
              NothingOpen, PriorType
<1>3. QED
  BY <1>1, <1>2

LEMMA InitHasNoRuns == ASSUME Init PROVE QueueInv
<1>1. /\ runs = <<>> /\ priorLink = 0 /\ firstLink = 0 /\ sor = "Nil" /\ overIsolate = 0
      /\ stack = <<Status(baseLevel, "ON", FALSE)>> /\ priorLevel = baseLevel /\ types = TypesOf(text)
  BY DEF Init, None
<1>2. Partials(runs) = {}
  BY <1>1 DEF Partials
<1>3. RunsType
  BY <1>1 DEF RunsType, Linked
<1>4. AtHand /\ TakesItsLevel /\ ~TakesPartial
  BY <1>1, <1>2 DEF AtHand, TakesItsLevel, TakesPartial
<1>5. PICK e : e = Status(baseLevel, "ON", FALSE)
  OBVIOUS
<1>6. Len(stack) = 1 /\ stack[1] = e /\ ~e.isolate /\ e.level = baseLevel
  <2>1. stack = <<e>>
    BY <1>1, <1>5
  <2>2. QED
    BY <1>5, <2>1, OneEntry DEF Status
<1>7. Isolates(stack) = {}
  BY <1>6 DEF Isolates
<1>8. priorLevel = stack[Len(stack)].level
  BY <1>1, <1>6
<1>9. SettledAt(stack, priorLevel, runs, FALSE)
  BY <1>1, <1>6, <1>7, <1>8, FirstSettles
<1>10. PriorType \notin Initiators
  <2>1. Len(text) \in Nat
    BY TextsAssumption DEF Init
  <2>2. types[0] = "Nil"
    BY <1>1, <2>1 DEF TypesOf
  <2>3. QED
    BY <1>1, <2>2 DEF PriorType, Initiators
<1>11. Waits(stack, overIsolate, priorLevel, PriorType, runs, FALSE)
  <2>1. Accounted(stack, baseLevel, validIsolate)
    BY InitInv DEF IInv, StackIsAccounted
  <2>2. QED
    BY <1>9, <1>10, <2>1, SettledWaits
<1>12. Waits(stack, overIsolate, priorLevel, PriorType, runs, TakesPartial)
  BY <1>4, <1>11 DEF Waits, PairsUp
<1>13. NothingOpen
  BY <1>1, <1>7 DEF NothingOpen
<1>14. QED
  BY <1>3, <1>4, <1>12, <1>13 DEF QueueInv, RunsAtHand, RunsWait

(* The partial runs of the queue are those of the isolates that wait for   *)
(* their PDI, in the order of the status stack, and a run that begins with *)
(* the PDI of one has the level of its partial run (RunQueueEnqueue).      *)
THEOREM SpecQueueInv == Spec => []QueueInv
<1>1. Init => QueueInv
  BY InitHasNoRuns
<1>2. IInv /\ ExplicitInv /\ QueueInv /\ [Next]_vars => QueueInv'
  <2>1. SUFFICES ASSUME IInv, ExplicitInv, QueueInv, [Next]_vars PROVE QueueInv'
    OBVIOUS
  <2>2. CASE Embed
    BY <2>1, <2>2, EmbedKeepsRuns
  <2>3. CASE Isolate
    BY <2>1, <2>3, IsolateKeepsRuns
  <2>4. CASE CloseIsolate
    BY <2>1, <2>4, CloseIsolateKeepsRuns
  <2>5. CASE CloseEmbedding
    BY <2>1, <2>5, CloseEmbeddingKeepsRuns
  <2>6. CASE Separate
    BY <2>1, <2>6, SeparateKeepsRuns
  <2>7. CASE Drop
    BY <2>1, <2>7, DropKeepsRuns
  <2>8. CASE Assign
    BY <2>1, <2>8, AssignKeepsRuns
  <2>9. CASE Finish
    BY <2>1, <2>9, FinishKeepsRuns
  <2>10. CASE Resolve \/ Complete \/ Fail \/ UNCHANGED vars
    BY <2>1, <2>10, RestKeepsRuns
  <2>11. QED
    BY <2>1, <2>2, <2>3, <2>4, <2>5, <2>6, <2>7, <2>8, <2>9, <2>10 DEF Next, Returned
<1>3. QED
  BY <1>1, <1>2, SpecIInv, SpecExplicitInv, PTL DEF Spec

(* A run that the queue completes goes on with a run of the same level that*)
(* starts with a PDI, which goes on from no other one: the assertions of   *)
(* LevelRunAttach.                                                         *)
THEOREM SpecAttachesAlike == Spec => []AttachesAlike
<1>1. QueueInv => AttachesAlike
  <2>1. SUFFICES ASSUME QueueInv, NEW k \in 1..Len(runs), runs[k].next # None
                 PROVE  /\ runs[runs[k].next].level = runs[k].level
                        /\ runs[runs[k].next].terminating /\ runs[runs[k].next].attached
                        /\ \A m \in 1..Len(runs) : runs[m].next = runs[k].next => m = k
    BY DEF AttachesAlike
  <2>2. Follows(runs, k)
    BY <2>1 DEF QueueInv, RunsType, Linked
  <2>3. QED
    BY <2>2 DEF Follows
<1>2. QED
  BY <1>1, SpecQueueInv, PTL

=============================================================================
