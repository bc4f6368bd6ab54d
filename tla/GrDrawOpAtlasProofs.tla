------------------------ MODULE GrDrawOpAtlasProofs ------------------------
(***************************************************************************)
(* The generation of the atlas tells whether coordinates are good, uploads *)
(* are used, and draws read the glyphs they were made for, for every       *)
(* atlas, set of subruns and bound.                                        *)
(***************************************************************************)
EXTENDS GrDrawOpAtlas, DataLemmas

SlotOf(loc) == <<loc.page, loc.index>>
QuadsOf == [loc : Locators \union {None}, glyph : Glyphs, whole : BOOLEAN]

(* What is to be uploaded, before which draw: 0 stands for before them all. *)
UploadRecords == [plot : PlotObjects, before : Nat]
UploadsIn(asap, inline) ==
  {[plot |-> asap[i], before |-> 0] : i \in DOMAIN asap}
    \union {inline[i] : i \in DOMAIN inline}
Uploads == UploadsIn(fASAPUploads, fInlineUploads)

Live == Listed \union Pending
Prepares == pc # "execute"

(* The glyph is the one at that place of the plot.                         *)
Holds(p, at, g) == at \in 1 .. Len(plot[p].glyphs) /\ plot[p].glyphs[at] = g

(* The listed plot of the slot that a locator names, of its generation.    *)
Located(loc, p) == p \in Listed /\ Slot(p) = SlotOf(loc) /\ plot[p].gen = loc.gen
Good(loc) == loc # None /\ loc.page \in Active /\ \E p \in Listed : Located(loc, p)
-----------------------------------------------------------------------------
PlotMaps == [PlotObjects -> Records \union {None}]
ListMaps == [Pages -> Seq(PlotObjects)]

AtlasTypes ==
  /\ plot \in PlotMaps
  /\ fPlotList \in ListMaps
  /\ fNumActivePages \in 0 .. MaxPages
  /\ fGeneration \in Nat /\ fAtlasGeneration \in Nat
  /\ texture \in [Slots -> [1 .. Room -> Glyphs \union {None}]]
  /\ locator \in [Glyphs -> Locators \union {None}]

TokenTypes ==
  /\ fPrevFlushToken \in Nat /\ fLastIssuedToken \in Nat /\ fLastFlushedToken \in Nat
  /\ fASAPUploads \in Seq(PlotObjects)
  /\ fInlineUploads \in Seq(UploadRecords)
  /\ fDraws \in Seq(SUBSET QuadsOf)
  /\ fLastFlushedToken + Len(fDraws) = fLastIssuedToken

OpTypes ==
  /\ subRunGeneration \in [SubRuns -> Nat]
  /\ fBulkUseToken \in [SubRuns -> Seq(Slots)]
  /\ DOMAIN texCoords = SubRuns
  /\ \A s \in SubRuns : texCoords[s] \in [1 .. Len(GlyphsOf[s]) -> Locators \union {None}]
  /\ pc \in {"idle", "op", "placing", "again", "execute"}
  /\ pc \in {"op", "placing", "again"} => current \in SubRuns
  /\ begin \in Nat /\ placed \in Nat /\ begin <= placed
  /\ pc \in {"placing", "again"} => placed <= Len(GlyphsOf[current])
  /\ quads \in SUBSET QuadsOf
  /\ left \in [subRuns : 0 .. MaxSubRuns, flushes : Nat, bails : Nat]
  /\ broken \in SUBSET SubRuns

(* A plot for each slot, in the list of its page.                          *)
ListedIn(lists) == UNION {ToSet(lists[page]) : page \in Pages}
IsOnce(list) == \A i, j \in DOMAIN list : list[i] = list[j] => i = j
SlotIn(plots, p) == <<plots[p].page, plots[p].index>>

ListsAre(plots, lists) ==
  /\ \A page \in Pages : Len(lists[page]) = NumPlots /\ IsOnce(lists[page])
  /\ \A page \in Pages : \A p \in ToSet(lists[page]) : plots[p] # None /\ plots[p].page = page
  /\ \A slot \in Slots : \E p \in ListedIn(lists) : SlotIn(plots, p) = slot
  /\ \A p, q \in ListedIn(lists) : SlotIn(plots, p) = SlotIn(plots, q) => p = q

ListsRight == ListsAre(plot, fPlotList)

RecordsRight ==
  /\ \A p \in Live :
       /\ plot[p] # None
       /\ Len(plot[p].glyphs) <= Room /\ plot[p].clean <= Len(plot[p].glyphs)
       /\ plot[p].gen < fGeneration
       /\ plot[p].lastUse <= NextDrawToken /\ plot[p].lastUpload <= NextDrawToken
  /\ \A p \in Listed : plot[p].glyphs # <<>> => plot[p].lastUse # 0

(* What a good locator says is so.                                         *)
LocatorsRight ==
  \A g \in Glyphs : locator[g] # None =>
    /\ locator[g].gen < fGeneration
    /\ \A p \in Listed : Located(locator[g], p) => Holds(p, locator[g].at, g)

GenerationsRight ==
  /\ fAtlasGeneration < fGeneration
  /\ \A s \in SubRuns : subRunGeneration[s] < fGeneration
  /\ \A s \in SubRuns : \A i, j \in 1 .. Len(fBulkUseToken[s]) :
       fBulkUseToken[s][i] = fBulkUseToken[s][j] => i = j
  /\ \A s \in SubRuns \ broken : subRunGeneration[s] = fAtlasGeneration =>
       \A i \in 1 .. Len(GlyphsOf[s]) :
         /\ texCoords[s][i] = locator[GlyphsOf[s][i]]
         /\ Good(texCoords[s][i])
         /\ SlotOf(texCoords[s][i]) \in ToSet(fBulkUseToken[s])

(* What has been placed stays until the draw is recorded.                  *)
PlacingRight ==
  /\ pc \in {"placing", "again"} => subRunGeneration[current] # fAtlasGeneration
  /\ pc = "again" /\ placed # 0 => current \in broken
  /\ pc = "placing" =>
       /\ begin # 0 => current \in broken
       /\ \A p \in Listed : Slot(p) \in ToSet(fBulkUseToken[current]) =>
            plot[p].lastUse = NextDrawToken
       /\ \A i \in begin + 1 .. placed :
            /\ Good(locator[GlyphsOf[current][i]])
            /\ SlotOf(locator[GlyphsOf[current][i]]) \in ToSet(fBulkUseToken[current])

(* ... and so do the quads that are for the next draw.                     *)
Ready(quad) ==
  /\ quad.loc # None
  /\ \A p \in Listed : Slot(p) = SlotOf(quad.loc) =>
       /\ plot[p].gen = quad.loc.gen /\ plot[p].lastUse = NextDrawToken
       /\ Holds(p, quad.loc.at, quad.glyph)

AreReady(read) == \A quad \in read : quad.whole => Ready(quad) /\ ~IsLapsed(quad.loc)

QuadsRight ==
  /\ pc \in {"idle", "again", "execute"} => quads = {}
  /\ \A quad \in quads : quad.whole => Ready(quad) /\ ~IsLapsed(quad.loc)

(* While ops are prepared, what a recorded draw reads is listed, or is to  *)
(* be replaced after the draw.                                             *)
Reserved(quad, token) ==
  \A p \in Listed : Slot(p) = SlotOf(quad.loc) =>
    /\ token <= plot[p].lastUse
    /\ \/ Holds(p, quad.loc.at, quad.glyph)
       \/ \E u \in Uploads : u.plot = p /\ token < u.before

(* The upload, when it comes, is of that part of the plot.                 *)
Covers(u, loc) ==
  /\ Slot(u.plot) = SlotOf(loc)
  /\ loc.at \in plot[u.plot].clean + 1 .. Len(plot[u.plot].glyphs)

(* The last upload before the draw that covers what the quad reads has the *)
(* glyph, or the texture has it and there is none.                         *)
WillRead(quad, token) ==
  \/ \E u \in Uploads :
       /\ u.before <= token /\ Covers(u, quad.loc)
       /\ plot[u.plot].glyphs[quad.loc.at] = quad.glyph
       /\ \A v \in Uploads : v.before <= token /\ Slot(v.plot) = SlotOf(quad.loc) /\ v # u =>
            v.before < u.before
  \/ /\ ReadsRight(quad)
     /\ \A u \in Uploads : u.before <= token => ~Covers(u, quad.loc)

DrawsRight ==
  \A k \in 1 .. Len(fDraws) : \A quad \in fDraws[k] : quad.whole =>
    /\ quad.loc # None
    /\ WillRead(quad, fLastFlushedToken + k)
    /\ Prepares => Reserved(quad, fLastFlushedToken + k)

(* The part of a plot that is not to be uploaded is in the texture, unless *)
(* an upload has lapsed.                                                   *)
TextureRight ==
  /\ \A p \in Listed : \A i \in 1 .. plot[p].clean : texture[Slot(p)][i] = plot[p].glyphs[i]
  /\ \A p \in Listed \ Pending : plot[p].gen \in lapsed \/ plot[p].clean = Len(plot[p].glyphs)
  /\ \A u \in Uploads :
       plot[u.plot].clean < Len(plot[u.plot].glyphs) /\ (u.before # 0 => plot[u.plot].clean = 0)

UploadsRight ==
  /\ \A i, j \in 1 .. Len(fASAPUploads) : fASAPUploads[i] = fASAPUploads[j] => i = j
  /\ \A i, j \in 1 .. Len(fInlineUploads) :
       /\ fInlineUploads[i].plot = fInlineUploads[j].plot => i = j
       /\ i <= j => fInlineUploads[i].before <= fInlineUploads[j].before
  /\ \A u, v \in Uploads : u.plot = v.plot => u = v
  /\ \A i \in 1 .. Len(fInlineUploads) :
       fInlineUploads[i].before \in NextTokenToFlush .. NextDrawToken
  /\ \A u \in Uploads : u.plot \notin Listed =>
       \E v \in Uploads : v.plot \in Listed /\ Slot(v.plot) = Slot(u.plot) /\ u.before < v.before

(* While ops are prepared, a plot is to be uploaded exactly when its last  *)
(* upload has not been flushed.                                            *)
ScheduleRight ==
  Prepares =>
    /\ \A u \in Uploads : u.plot \in Listed =>
         /\ u.before <= plot[u.plot].lastUse /\ NextTokenToFlush <= plot[u.plot].lastUse
         /\ NextTokenToFlush <= plot[u.plot].lastUpload
    /\ \A p \in Listed :
         NextTokenToFlush <= plot[p].lastUpload => p \in Pending \/ plot[p].gen \in lapsed

(* The draw that an upload was made for is recorded, or is given up.       *)
DrawComes ==
  \/ pc \in {"op", "placing"} /\ quads # {}
  \/ pc = "placing" /\ begin < placed

Excused == DrawComes \/ gaveUp = NextDrawToken

TokensRight ==
  ~DrawComes /\ gaveUp # NextDrawToken =>
    /\ \A u \in Uploads : u.before <= fLastIssuedToken
    /\ \A p \in Listed : plot[p].lastUpload <= fLastIssuedToken

(* There is a plot object for each glyph that is still to be placed.       *)
Missing == IF pc \in {"placing", "again"} THEN Len(GlyphsOf[current]) - placed ELSE 0

PlotsLast ==
  Cardinality(Live) + Missing <= MaxPages * NumPlots + (MaxSubRuns - left.subRuns) * MaxGlyphs

AtlasInv ==
  /\ AtlasTypes /\ TokenTypes /\ OpTypes
  /\ ListsRight /\ RecordsRight /\ LocatorsRight /\ GenerationsRight /\ PlacingRight
  /\ QuadsRight /\ DrawsRight /\ TextureRight /\ UploadsRight /\ ScheduleRight /\ TokensRight
  /\ PlotsLast
-----------------------------------------------------------------------------
(* The constants.                                                          *)
LEMMA LeastOf ==
  ASSUME NEW S \in SUBSET Int, NEW n \in Nat, S \subseteq 0 .. n, S # {}
  PROVE  Min(S) \in S /\ (\A i \in S : Min(S) <= i) /\ Max(S) \in S /\ \A i \in S : i <= Max(S)
<1>1. S \in SUBSET (0 .. n)
  OBVIOUS
<1>2. (\E k \in S : \A j \in S : k <= j) /\ (\E k \in S : \A j \in S : j <= k)
  BY <1>1, FirstOf, LastOf
<1>3. (\E k \in S : \A j \in S : k =< j) /\ (\E k \in S : \A j \in S : k >= j)
  BY <1>2
<1>4. Min(S) \in S /\ \A j \in S : Min(S) =< j
  BY <1>3 DEF Min
<1>5. Max(S) \in S /\ \A j \in S : Max(S) >= j
  BY <1>3 DEF Max
<1> QED
  BY <1>1, <1>4, <1>5

LEMMA MostGlyphs ==
  /\ MaxGlyphs \in Nat
  /\ \A s \in SubRuns : /\ GlyphsOf[s] \in Seq(Glyphs) /\ Len(GlyphsOf[s]) \in 1 .. MaxGlyphs
                        /\ \A i \in 1 .. Len(GlyphsOf[s]) : GlyphsOf[s][i] \in Glyphs
<1> DEFINE L == {Len(GlyphsOf[s]) : s \in SubRuns}
<1>1. \A s \in SubRuns : GlyphsOf[s] \in Seq(Glyphs) /\ GlyphsOf[s] # <<>>
  BY AtlasAssumption
<1>2. \A s \in SubRuns : Len(GlyphsOf[s]) \in Nat \ {0} /\ \A i \in 1 .. Len(GlyphsOf[s]) : GlyphsOf[s][i] \in Glyphs
  BY <1>1, EmptySeq, ElementOfSeq
<1>3. L \in SUBSET Nat /\ L # {}
  <2>1. SubRuns # {}
    BY AtlasAssumption
  <2> QED
    BY <1>2, <2>1
<1>4. IsFiniteSet(L)
  <2> DEFINE f == [s \in SubRuns |-> Len(GlyphsOf[s])]
  <2>1. f \in [SubRuns -> L] /\ \A n \in L : \E s \in SubRuns : f[s] = n
    OBVIOUS
  <2> HIDE DEF L, f
  <2>2. f \in Surjection(SubRuns, L)
    BY <2>1 DEF Surjection
  <2>3. IsFiniteSet(SubRuns)
    BY AtlasAssumption
  <2> QED
    BY <2>2, <2>3, FS_Surjection
<1>5. \E n \in Nat : \A x \in L : x <= n
  <2> HIDE DEF L
  <2> QED
    BY <1>3, <1>4, FiniteIsBounded
<1>6. Max(L) \in L /\ \A x \in L : x <= Max(L)
  <2>1. PICK n \in Nat : \A x \in L : x <= n
    BY <1>5
  <2>2. L \in SUBSET Int /\ L \subseteq 0 .. n
    BY <1>3, <2>1
  <2> HIDE DEF L
  <2> QED
    BY <1>3, <2>2, LeastOf
<1>7. MaxGlyphs = Max(L)
  BY DEF MaxGlyphs
<1>8. \A s \in SubRuns : Len(GlyphsOf[s]) \in L
  OBVIOUS
<1> HIDE DEF L
<1>9. MaxGlyphs \in Nat
  BY <1>3, <1>6, <1>7
<1>10. \A s \in SubRuns : Len(GlyphsOf[s]) <= MaxGlyphs
  BY <1>6, <1>7, <1>8
<1> QED
  BY <1>1, <1>2, <1>9, <1>10

LEMMA Numbers ==
  /\ MaxPages \in Nat \ {0} /\ NumPlots \in Nat \ {0} /\ Room \in Nat \ {0}
  /\ MaxSubRuns \in Nat /\ MaxGlyphs \in Nat /\ MaxPages * NumPlots \in Nat
  /\ MaxPlots \in Nat /\ IsFiniteSet(PlotObjects) /\ Cardinality(PlotObjects) = MaxPlots
  /\ None \notin Records /\ None \notin Locators /\ None \notin Glyphs
<1>1. MaxPages \in Nat \ {0} /\ NumPlots \in Nat \ {0} /\ Room \in Nat \ {0} /\ MaxSubRuns \in Nat
  BY AtlasAssumption
<1>2. MaxGlyphs \in Nat
  BY MostGlyphs
<1>3. MaxPages * NumPlots \in Nat /\ MaxSubRuns * MaxGlyphs \in Nat
  BY <1>1, <1>2
<1>4. MaxPlots \in Nat
  BY <1>3 DEF MaxPlots
<1>5. IsFiniteSet(PlotObjects) /\ Cardinality(PlotObjects) = MaxPlots
  BY <1>4, FS_Interval DEF PlotObjects
<1>6. None \notin Records /\ None \notin Locators /\ None \notin Glyphs
  BY AtlasAssumption
<1> QED
  BY <1>1, <1>2, <1>3, <1>4, <1>5, <1>6
-----------------------------------------------------------------------------
(* Lists.                                                                  *)
LEMMA SeqSet ==
  ASSUME NEW S, NEW list \in Seq(S)
  PROVE  /\ Len(list) \in Nat /\ DOMAIN list = 1 .. Len(list) /\ ToSet(list) \subseteq S
         /\ \A i \in 1 .. Len(list) : list[i] \in ToSet(list) /\ list[i] \in S
         /\ \A x \in ToSet(list) : \E i \in 1 .. Len(list) : list[i] = x
<1>1. Len(list) \in Nat /\ DOMAIN list = 1 .. Len(list) /\ \A i \in 1 .. Len(list) : list[i] \in S
  BY LenProperties, ElementOfSeq
<1> QED
  BY <1>1 DEF ToSet

LEMMA JoinOnce ==
  ASSUME NEW S, NEW s \in Seq(S), NEW t \in Seq(S), IsOnce(s), IsOnce(t),
         ToSet(s) \intersect ToSet(t) = {}
  PROVE  s \o t \in Seq(S) /\ IsOnce(s \o t) /\ ToSet(s \o t) = ToSet(s) \union ToSet(t)
<1> DEFINE j == s \o t
<1>1. /\ j \in Seq(S) /\ Len(j) = Len(s) + Len(t)
      /\ \A i \in 1 .. Len(s) + Len(t) : j[i] = IF i <= Len(s) THEN s[i] ELSE t[i - Len(s)]
  BY ConcatProperties
<1>2. Len(s) \in Nat /\ DOMAIN s = 1 .. Len(s) /\ Len(t) \in Nat /\ DOMAIN t = 1 .. Len(t)
  BY LenProperties
<1> HIDE DEF j
<1>3. DOMAIN j = 1 .. Len(s) + Len(t)
  BY <1>1, LenProperties
<1>4. \A i \in 1 .. Len(s) + Len(t) : \/ i \in DOMAIN s /\ j[i] = s[i] /\ j[i] \in ToSet(s)
                                      \/ /\ i - Len(s) \in DOMAIN t /\ j[i] = t[i - Len(s)]
                                         /\ j[i] \in ToSet(t)
  <2> SUFFICES ASSUME NEW i \in 1 .. Len(s) + Len(t)
               PROVE  \/ i \in DOMAIN s /\ j[i] = s[i] /\ j[i] \in ToSet(s)
                      \/ /\ i - Len(s) \in DOMAIN t /\ j[i] = t[i - Len(s)]
                         /\ j[i] \in ToSet(t)
    OBVIOUS
  <2>1. CASE i <= Len(s)
    <3>1. i \in DOMAIN s /\ j[i] = s[i]
      BY <1>1, <1>2, <2>1
    <3> QED
      BY <3>1 DEF ToSet
  <2>2. CASE ~(i <= Len(s))
    <3>1. i - Len(s) \in DOMAIN t /\ j[i] = t[i - Len(s)]
      BY <1>1, <1>2, <2>2
    <3> QED
      BY <3>1 DEF ToSet
  <2> QED
    BY <2>1, <2>2
<1>5. ASSUME NEW i \in DOMAIN j, NEW k \in DOMAIN j, j[i] = j[k] PROVE i = k
  <2>1. i \in 1 .. Len(s) + Len(t) /\ k \in 1 .. Len(s) + Len(t)
    BY <1>3
  <2>2. CASE i \in DOMAIN s /\ j[i] = s[i] /\ j[i] \in ToSet(s)
    <3>1. k \in DOMAIN s /\ j[k] = s[k]
      BY <1>4, <1>5, <2>1, <2>2
    <3> QED
      BY <1>5, <2>2, <3>1 DEF IsOnce
  <2>3. CASE i - Len(s) \in DOMAIN t /\ j[i] = t[i - Len(s)] /\ j[i] \in ToSet(t)
    <3>1. k - Len(s) \in DOMAIN t /\ j[k] = t[k - Len(s)]
      BY <1>4, <1>5, <2>1, <2>3
    <3>2. i - Len(s) = k - Len(s)
      BY <1>5, <2>3, <3>1 DEF IsOnce
    <3> QED
      BY <1>2, <2>1, <3>2
  <2> QED
    BY <1>4, <2>1, <2>2, <2>3
<1>6. ToSet(j) = ToSet(s) \union ToSet(t)
  <2>1. ASSUME NEW x \in ToSet(j) PROVE x \in ToSet(s) \union ToSet(t)
    BY <1>3, <1>4 DEF ToSet
  <2>2. ASSUME NEW x \in ToSet(s) PROVE x \in ToSet(j)
    <3>1. PICK i \in 1 .. Len(s) : s[i] = x
      BY <1>2 DEF ToSet
    <3>2. i \in 1 .. Len(s) + Len(t) /\ j[i] = x
      BY <1>1, <1>2, <3>1
    <3> QED
      BY <1>3, <3>2 DEF ToSet
  <2>3. ASSUME NEW x \in ToSet(t) PROVE x \in ToSet(j)
    <3>1. PICK i \in 1 .. Len(t) : t[i] = x
      BY <1>2 DEF ToSet
    <3>2. /\ i + Len(s) \in 1 .. Len(s) + Len(t) /\ ~(i + Len(s) <= Len(s))
          /\ (i + Len(s)) - Len(s) = i
      BY <1>2
    <3>3. j[i + Len(s)] = x
      BY <1>1, <3>1, <3>2
    <3> QED
      BY <1>3, <3>2, <3>3 DEF ToSet
  <2> QED
    BY <2>1, <2>2, <2>3
<1>7. IsOnce(j)
  BY <1>5 DEF IsOnce
<1> QED
  BY <1>1, <1>6, <1>7 DEF j

LEMMA OmitSet ==
  ASSUME NEW S, NEW list \in Seq(S), IsOnce(list), NEW gone
  PROVE  /\ Omit(list, gone) \in Seq(S) /\ IsOnce(Omit(list, gone))
         /\ ToSet(Omit(list, gone)) = ToSet(list) \ gone
<1> DEFINE R == Omit(list, gone)
<1>1. \A i, j \in DOMAIN list : list[i] = list[j] => i = j
  BY DEF IsOnce
<1>2. /\ R \in Seq(S) /\ \A i, j \in DOMAIN R : R[i] = R[j] => i = j
      /\ {R[i] : i \in DOMAIN R} = {list[i] : i \in DOMAIN list} \ gone
  BY <1>1, OmitOnce, SMTT(40)
<1> HIDE DEF R
<1> QED
  BY <1>2 DEF IsOnce, ToSet, R

LEMMA OnceSize ==
  ASSUME NEW S, NEW list \in Seq(S), IsOnce(list)
  PROVE  IsFiniteSet(ToSet(list)) /\ Cardinality(ToSet(list)) = Len(list)
<1>1. \A i, j \in DOMAIN list : list[i] = list[j] => i = j
  BY DEF IsOnce
<1>2. /\ IsFiniteSet({list[i] : i \in DOMAIN list})
      /\ Cardinality({list[i] : i \in DOMAIN list}) = Len(list)
  BY <1>1, OnceLen
<1> QED
  BY <1>2 DEF ToSet

LEMMA ReverseOnce ==
  ASSUME NEW S, NEW list \in Seq(S), IsOnce(list)
  PROVE  Reverse(list) \in Seq(S) /\ IsOnce(Reverse(list)) /\ ToSet(Reverse(list)) = ToSet(list)
<1> DEFINE n == Len(list)
           r == [i \in 1 .. n |-> list[(n - i) + 1]]
<1>1. n \in Nat /\ DOMAIN list = 1 .. n /\ \A i \in 1 .. n : list[i] \in S
  BY LenProperties, ElementOfSeq
<1> HIDE DEF n
<1>2. \A i \in 1 .. n : (n - i) + 1 \in 1 .. n /\ (n - ((n - i) + 1)) + 1 = i
  BY <1>1
<1>3. \A i \in 1 .. n : r[i] \in S
  BY <1>1, <1>2
<1>4. r \in Seq(S) /\ DOMAIN r = 1 .. n
  <2>1. r \in [1 .. n -> S]
    BY <1>3
  <2> HIDE DEF r
  <2> QED
    BY <1>1, <2>1, SeqDef
<1>5. \A i \in 1 .. n : r[i] = list[(n - i) + 1]
  OBVIOUS
<1> HIDE DEF r
<1>6. IsOnce(r)
  <2> SUFFICES ASSUME NEW i \in 1 .. n, NEW j \in 1 .. n, r[i] = r[j] PROVE i = j
    BY <1>4 DEF IsOnce
  <2>1. (n - i) + 1 = (n - j) + 1
    BY <1>1, <1>2, <1>5 DEF IsOnce
  <2> QED
    BY <1>1, <2>1
<1>7. ToSet(r) = ToSet(list)
  <2>1. \A i \in DOMAIN r : \E j \in DOMAIN list : r[i] = list[j]
    BY <1>1, <1>2, <1>4, <1>5
  <2>2. \A j \in DOMAIN list : \E i \in DOMAIN r : r[i] = list[j]
    <3> SUFFICES ASSUME NEW j \in 1 .. n PROVE \E i \in 1 .. n : r[i] = list[j]
      BY <1>1, <1>4
    <3>1. (n - j) + 1 \in 1 .. n /\ r[(n - j) + 1] = list[j]
      BY <1>2, <1>5
    <3> QED
      BY <3>1
  <2> QED
    BY <2>1, <2>2 DEF ToSet
<1>8. Reverse(list) = r
  BY DEF Reverse, r, n
<1> QED
  BY <1>4, <1>6, <1>7, <1>8

(* makeMRU() changes the order only.                                       *)
LEMMA MadeMRUIs ==
  ASSUME NEW list \in Seq(PlotObjects), IsOnce(list), NEW plots \in Seq(PlotObjects),
         IsOnce(plots), ToSet(plots) \subseteq ToSet(list)
  PROVE  /\ MadeMRU(list, plots) \in Seq(PlotObjects) /\ IsOnce(MadeMRU(list, plots))
         /\ ToSet(MadeMRU(list, plots)) = ToSet(list)
         /\ Len(MadeMRU(list, plots)) = Len(list)
<1> DEFINE r == Reverse(plots)
           o == Omit(list, ToSet(plots))
<1>1. r \in Seq(PlotObjects) /\ IsOnce(r) /\ ToSet(r) = ToSet(plots)
  BY ReverseOnce
<1>2. o \in Seq(PlotObjects) /\ IsOnce(o) /\ ToSet(o) = ToSet(list) \ ToSet(plots)
  BY OmitSet
<1>3. MadeMRU(list, plots) = r \o o
  BY DEF MadeMRU
<1> HIDE DEF r, o
<1>4. /\ r \o o \in Seq(PlotObjects) /\ IsOnce(r \o o)
      /\ ToSet(r \o o) = ToSet(r) \union ToSet(o)
  <2>1. ToSet(r) \intersect ToSet(o) = {}
    BY <1>1, <1>2
  <2> QED
    BY <1>1, <1>2, <2>1, JoinOnce
<1>5. ToSet(r \o o) = ToSet(list)
  BY <1>1, <1>2, <1>4
<1>6. Len(r \o o) = Len(list)
  BY <1>4, <1>5, OnceSize
<1> QED
  BY <1>3, <1>4, <1>5, <1>6
-----------------------------------------------------------------------------
(* The lists of plots.                                                     *)
LEMMA ListedPlots ==
  ASSUME NEW plots \in PlotMaps,
         NEW lists \in ListMaps, ListsAre(plots, lists)
  PROVE  /\ ListedIn(lists) \subseteq PlotObjects
         /\ \A p \in ListedIn(lists) :
              /\ plots[p] \in Records /\ plots[p] # None /\ SlotIn(plots, p) \in Slots
              /\ plots[p].page \in Pages
              /\ p \in ToSet(lists[plots[p].page])
         /\ \A page \in Pages : ToSet(lists[page]) = {p \in ListedIn(lists) : plots[p].page = page}
<1>1. \A page \in Pages : ToSet(lists[page]) \subseteq PlotObjects
  <2> SUFFICES ASSUME NEW page \in Pages PROVE ToSet(lists[page]) \subseteq PlotObjects
    OBVIOUS
  <2>1. lists[page] \in Seq(PlotObjects)
    BY DEF ListMaps
  <2> QED
    BY <2>1, SeqSet
<1>2. ListedIn(lists) \subseteq PlotObjects
  BY <1>1 DEF ListedIn
<1>3. ASSUME NEW p \in ListedIn(lists)
      PROVE  plots[p] \in Records /\ plots[p] # None /\ plots[p].page \in Pages /\ p \in ToSet(lists[plots[p].page])
  <2>1. PICK page \in Pages : p \in ToSet(lists[page])
    BY DEF ListedIn
  <2>2. plots[p] # None /\ plots[p].page = page
    BY <2>1 DEF ListsAre
  <2> QED
    BY <1>2, <2>1, <2>2 DEF PlotMaps
<1>4. \A p \in ListedIn(lists) : SlotIn(plots, p) \in Slots
  BY <1>3 DEF SlotIn, Slots, Records
<1>5. ASSUME NEW page \in Pages
      PROVE  ToSet(lists[page]) = {p \in ListedIn(lists) : plots[p].page = page}
  <2>1. \A p \in ToSet(lists[page]) : p \in ListedIn(lists) /\ plots[p].page = page
    BY DEF ListedIn, ListsAre
  <2> QED
    BY <1>3, <2>1
<1> QED
  BY <1>2, <1>3, <1>4, <1>5

(* The lists in another order, and the plots where they were.              *)
Rearranged(lists, moved) ==
  \A page \in Pages : /\ Len(moved[page]) = Len(lists[page]) /\ IsOnce(moved[page])
                      /\ ToSet(moved[page]) = ToSet(lists[page])
InPlace(lists, plots, new) ==
  \A p \in ListedIn(lists) : /\ new[p] # None
                             /\ new[p].page = plots[p].page /\ new[p].index = plots[p].index

LEMMA Relisted ==
  ASSUME NEW plots \in PlotMaps,
         NEW lists \in ListMaps, ListsAre(plots, lists),
         NEW moved \in ListMaps, Rearranged(lists, moved),
         NEW new, InPlace(lists, plots, new)
  PROVE  /\ ListsAre(new, moved) /\ ListedIn(moved) = ListedIn(lists)
         /\ \A p \in ListedIn(lists) : SlotIn(new, p) = SlotIn(plots, p)
<1>1. ListedIn(moved) = ListedIn(lists)
  BY DEF ListedIn, Rearranged
<1>2. \A p \in ListedIn(lists) : SlotIn(new, p) = SlotIn(plots, p)
  BY DEF SlotIn, InPlace
<1>3. \A page \in Pages : Len(moved[page]) = NumPlots /\ IsOnce(moved[page])
  BY DEF ListsAre, Rearranged
<1>4. \A page \in Pages : \A p \in ToSet(moved[page]) : new[p] # None /\ new[p].page = page
  <2> SUFFICES ASSUME NEW page \in Pages, NEW p \in ToSet(moved[page])
               PROVE  new[p] # None /\ new[p].page = page
    OBVIOUS
  <2>1. p \in ToSet(lists[page]) /\ p \in ListedIn(lists)
    BY DEF ListedIn, Rearranged
  <2>2. plots[p].page = page
    BY <2>1 DEF ListsAre
  <2> QED
    BY <2>1, <2>2 DEF InPlace
<1>5. \A slot \in Slots : \E p \in ListedIn(moved) : SlotIn(new, p) = slot
  BY <1>1, <1>2 DEF ListsAre
<1>6. \A p, q \in ListedIn(moved) : SlotIn(new, p) = SlotIn(new, q) => p = q
  BY <1>1, <1>2 DEF ListsAre
<1> QED
  BY <1>1, <1>2, <1>3, <1>4, <1>5, <1>6 DEF ListsAre

(* One plot moves to the head of the list of its page.                     *)
LEMMA MovedFirst ==
  ASSUME NEW plots \in PlotMaps,
         NEW lists \in ListMaps, ListsAre(plots, lists),
         NEW p \in ListedIn(lists),
         NEW new, InPlace(lists, plots, new),
         NEW moved, moved = [lists EXCEPT ![plots[p].page] = MadeMRU(@, <<p>>)]
  PROVE  /\ moved \in ListMaps /\ Rearranged(lists, moved)
         /\ ListsAre(new, moved) /\ ListedIn(moved) = ListedIn(lists)
         /\ \A q \in ListedIn(lists) : SlotIn(new, q) = SlotIn(plots, q)
<1> DEFINE page == plots[p].page
           list == lists[page]
<1>1. page \in Pages /\ p \in ToSet(list) /\ p \in PlotObjects
  BY ListedPlots
<1>2. list \in Seq(PlotObjects) /\ IsOnce(list)
  BY <1>1 DEF ListsAre, ListMaps
<1>3. <<p>> \in Seq(PlotObjects) /\ IsOnce(<<p>>) /\ ToSet(<<p>>) = {p}
  BY <1>1 DEF IsOnce, ToSet
<1> DEFINE made == MadeMRU(list, <<p>>)
<1>4. made \in Seq(PlotObjects) /\ IsOnce(made) /\ ToSet(made) = ToSet(list) /\ Len(made) = Len(list)
  <2> HIDE DEF page, list
  <2> QED
    BY <1>1, <1>2, <1>3, MadeMRUIs
<1>5. moved = [lists EXCEPT ![page] = made]
  OBVIOUS
<1> HIDE DEF page, made
<1>6. moved \in ListMaps
  BY <1>1, <1>4, <1>5 DEF ListMaps
<1>7. \A q \in Pages : moved[q] = IF q = page THEN made ELSE lists[q]
  BY <1>1, <1>5 DEF ListMaps
<1>8. Rearranged(lists, moved)
  BY <1>1, <1>4, <1>7 DEF ListsAre, Rearranged
<1>9. /\ ListsAre(new, moved) /\ ListedIn(moved) = ListedIn(lists)
      /\ \A q \in ListedIn(lists) : SlotIn(new, q) = SlotIn(plots, q)
  BY <1>6, <1>8, Relisted
<1> QED
  BY <1>6, <1>8, <1>9

LEMMA AtlasFacts ==
  ASSUME AtlasTypes, ListsRight
  PROVE  /\ Listed \subseteq PlotObjects
         /\ \A p \in Listed : /\ plot[p] \in Records /\ plot[p] # None
                              /\ Slot(p) \in Slots /\ plot[p].page \in Pages
         /\ \A page \in Pages : ToSet(fPlotList[page]) = {p \in Listed : plot[p].page = page}
         /\ \A slot \in Slots : PlotAt(slot) \in Listed /\ Slot(PlotAt(slot)) = slot
         /\ \A p, q \in Listed : Slot(p) = Slot(q) => p = q
         /\ \A p \in Listed : PlotAt(Slot(p)) = p
<1>1. Listed = ListedIn(fPlotList) /\ plot \in PlotMaps /\ fPlotList \in ListMaps
  BY DEF Listed, ListedIn, AtlasTypes
<1>2. \A p : Slot(p) = SlotIn(plot, p)
  BY DEF Slot, SlotIn
<1>3. ListsAre(plot, fPlotList)
  BY DEF ListsRight
<1>4. /\ Listed \subseteq PlotObjects
      /\ \A p \in Listed : /\ plot[p] \in Records /\ plot[p] # None
                           /\ Slot(p) \in Slots /\ plot[p].page \in Pages
      /\ \A page \in Pages : ToSet(fPlotList[page]) = {p \in Listed : plot[p].page = page}
  BY <1>1, <1>2, <1>3, ListedPlots
<1>5. /\ \A slot \in Slots : \E p \in Listed : Slot(p) = slot
      /\ \A p, q \in Listed : Slot(p) = Slot(q) => p = q
  BY <1>1, <1>2, <1>3 DEF ListsAre
<1>6. \A slot \in Slots : PlotAt(slot) \in Listed /\ Slot(PlotAt(slot)) = slot
  BY <1>5 DEF PlotAt
<1> QED
  BY <1>4, <1>5, <1>6

LEMMA GoodIs ==
  ASSUME AtlasTypes, ListsRight, NEW loc \in Locators \union {None}
  PROVE  /\ HasID(loc) <=> Good(loc)
         /\ loc # None => SlotOf(loc) \in Slots
<1>1. CASE loc = None
  BY <1>1 DEF HasID, Good
<1>2. CASE loc # None
  <2>1. SlotOf(loc) \in Slots /\ <<loc.page, loc.index>> = SlotOf(loc)
    BY <1>2 DEF Locators, SlotOf, Slots
  <2> DEFINE p == PlotAt(SlotOf(loc))
  <2>2. p \in Listed /\ Slot(p) = SlotOf(loc) /\ \A q \in Listed : Slot(q) = SlotOf(loc) => q = p
    BY <2>1, AtlasFacts
  <2> HIDE DEF p
  <2>3. HasID(loc) <=> loc.page \in Active /\ plot[p].gen = loc.gen
    BY <1>2, <2>1 DEF HasID, p
  <2> QED
    BY <1>2, <2>1, <2>2, <2>3 DEF Good, Located
<1> QED
  BY <1>1, <1>2
-----------------------------------------------------------------------------
(* Uploads.                                                                *)
LEMMA PendingIs ==
  ASSUME NEW asap, NEW inline
  PROVE  Scheduled(asap, inline) = {u.plot : u \in UploadsIn(asap, inline)}
<1>1. \A i \in DOMAIN asap : \E u \in UploadsIn(asap, inline) : u.plot = asap[i]
  <2> SUFFICES ASSUME NEW i \in DOMAIN asap
               PROVE  \E u \in UploadsIn(asap, inline) : u.plot = asap[i]
    OBVIOUS
  <2>1. [plot |-> asap[i], before |-> 0] \in UploadsIn(asap, inline)
    BY DEF UploadsIn
  <2> QED
    BY <2>1
<1>2. \A i \in DOMAIN inline : inline[i] \in UploadsIn(asap, inline)
  BY DEF UploadsIn
<1>3. \A u \in UploadsIn(asap, inline) : \/ \E i \in DOMAIN asap : u.plot = asap[i]
                                         \/ \E i \in DOMAIN inline : u.plot = inline[i].plot
  BY DEF UploadsIn
<1> QED
  BY <1>1, <1>2, <1>3 DEF Scheduled, ToSet

LEMMA UploadsAre ==
  ASSUME NEW asap \in Seq(PlotObjects), NEW inline \in Seq(UploadRecords)
  PROVE  /\ UploadsIn(asap, inline) \subseteq UploadRecords
         /\ \A i \in 1 .. Len(asap) : [plot |-> asap[i], before |-> 0] \in UploadsIn(asap, inline)
         /\ \A i \in 1 .. Len(inline) : inline[i] \in UploadsIn(asap, inline)
         /\ \A u \in UploadsIn(asap, inline) :
              \/ u.before = 0 /\ \E i \in 1 .. Len(asap) : u = [plot |-> asap[i], before |-> 0]
              \/ \E i \in 1 .. Len(inline) : u = inline[i]
<1>1. /\ DOMAIN asap = 1 .. Len(asap) /\ \A i \in 1 .. Len(asap) : asap[i] \in PlotObjects
      /\ DOMAIN inline = 1 .. Len(inline) /\ \A i \in 1 .. Len(inline) : inline[i] \in UploadRecords
  BY SeqSet
<1>2. \A i \in 1 .. Len(asap) : /\ [plot |-> asap[i], before |-> 0] \in UploadRecords
                                /\ [plot |-> asap[i], before |-> 0].before = 0
  BY <1>1 DEF UploadRecords
<1> QED
  BY <1>1, <1>2 DEF UploadsIn

LEMMA UploadsAppend ==
  ASSUME NEW asap \in Seq(PlotObjects), NEW inline \in Seq(UploadRecords),
         NEW p \in PlotObjects, NEW u \in UploadRecords
  PROVE  /\ UploadsIn(Append(asap, p), inline)
              = UploadsIn(asap, inline) \union {[plot |-> p, before |-> 0]}
         /\ UploadsIn(asap, Append(inline, u)) = UploadsIn(asap, inline) \union {u}
<1>1. /\ DOMAIN asap = 1 .. Len(asap) /\ DOMAIN inline = 1 .. Len(inline)
      /\ Len(asap) \in Nat /\ Len(inline) \in Nat
  BY SeqSet
<1> DEFINE a == Append(asap, p)
           l == Append(inline, u)
<1>2. /\ a \in Seq(PlotObjects) /\ Len(a) = Len(asap) + 1 /\ a[Len(asap) + 1] = p
      /\ \A i \in 1 .. Len(asap) : a[i] = asap[i]
      /\ l \in Seq(UploadRecords) /\ Len(l) = Len(inline) + 1 /\ l[Len(inline) + 1] = u
      /\ \A i \in 1 .. Len(inline) : l[i] = inline[i]
  BY AppendProperties
<1> HIDE DEF a, l
<1>3. DOMAIN a = (DOMAIN asap) \union {Len(asap) + 1} /\ DOMAIN l = (DOMAIN inline) \union {Len(inline) + 1}
  <2>1. DOMAIN a = 1 .. Len(asap) + 1 /\ DOMAIN l = 1 .. Len(inline) + 1
    BY <1>2, SeqSet
  <2> QED
    BY <1>1, <2>1
<1>4. \A i \in DOMAIN asap : a[i] = asap[i]
  BY <1>1, <1>2
<1>5. \A i \in DOMAIN inline : l[i] = inline[i]
  BY <1>1, <1>2
<1>6. {[plot |-> a[i], before |-> 0] : i \in DOMAIN a}
        = {[plot |-> asap[i], before |-> 0] : i \in DOMAIN asap} \union {[plot |-> p, before |-> 0]}
  BY <1>2, <1>3, <1>4, Zenon
<1>7. {l[i] : i \in DOMAIN l} = {inline[i] : i \in DOMAIN inline} \union {u}
  BY <1>2, <1>3, <1>5
<1> QED
  BY <1>6, <1>7 DEF UploadsIn, a, l

(* The first upload of a list is taken.                                    *)
LEMMA UploadsTail ==
  ASSUME NEW asap \in Seq(PlotObjects), NEW inline \in Seq(UploadRecords)
  PROVE  /\ asap # <<>> =>
              /\ Tail(asap) \in Seq(PlotObjects) /\ Len(asap) \in Nat \ {0}
              /\ Len(Tail(asap)) = Len(asap) - 1 /\ Head(asap) = asap[1]
              /\ \A i \in 1 .. Len(asap) - 1 : Tail(asap)[i] = asap[i + 1]
              /\ UploadsIn(asap, inline)
                   = UploadsIn(Tail(asap), inline) \union {[plot |-> Head(asap), before |-> 0]}
         /\ inline # <<>> =>
              /\ Tail(inline) \in Seq(UploadRecords) /\ Len(inline) \in Nat \ {0}
              /\ Len(Tail(inline)) = Len(inline) - 1 /\ Head(inline) = inline[1]
              /\ \A i \in 1 .. Len(inline) - 1 : Tail(inline)[i] = inline[i + 1]
              /\ UploadsIn(asap, inline) = UploadsIn(asap, Tail(inline)) \union {Head(inline)}
<1>1. ASSUME NEW S, NEW list \in Seq(S), list # <<>>
      PROVE  /\ Tail(list) \in Seq(S) /\ Len(list) \in Nat \ {0}
             /\ Len(Tail(list)) = Len(list) - 1 /\ Head(list) = list[1]
             /\ \A i \in 1 .. Len(list) - 1 : Tail(list)[i] = list[i + 1]
             /\ DOMAIN Tail(list) = 1 .. Len(list) - 1 /\ DOMAIN list = 1 .. Len(list)
             /\ \A i \in DOMAIN list : i # 1 => i - 1 \in DOMAIN Tail(list) /\ list[i] = Tail(list)[i - 1]
             /\ \A i \in DOMAIN Tail(list) : i + 1 \in DOMAIN list /\ Tail(list)[i] = list[i + 1]
             /\ 1 \in DOMAIN list
  <2>1. /\ Tail(list) \in Seq(S) /\ Len(list) \in Nat \ {0}
        /\ Len(Tail(list)) = Len(list) - 1 /\ DOMAIN list = 1 .. Len(list)
    BY <1>1, HeadTailProperties, EmptySeq, SeqSet
  <2>2. DOMAIN Tail(list) = 1 .. Len(list) - 1
    BY <2>1, SeqSet
  <2>3. \A i \in 1 .. Len(list) - 1 : Tail(list)[i] = list[i + 1]
    BY <1>1, <2>1, HeadTailProperties
  <2>4. \A i \in 1 .. Len(list) : i # 1 => i - 1 \in 1 .. Len(list) - 1 /\ list[i] = Tail(list)[i - 1]
    <3>1. ASSUME NEW i \in 1 .. Len(list), i # 1
          PROVE  i - 1 \in 1 .. Len(list) - 1 /\ list[i] = Tail(list)[i - 1]
      <4>1. i - 1 \in 1 .. Len(list) - 1 /\ (i - 1) + 1 = i
        BY <2>1, <3>1
      <4>2. Tail(list)[i - 1] = list[(i - 1) + 1]
        BY <2>3, <4>1
      <4> QED
        BY <4>1, <4>2
    <3> QED
      BY <3>1
  <2>5. \A i \in 1 .. Len(list) - 1 : i + 1 \in 1 .. Len(list)
    BY <2>1
  <2>6. Head(list) = list[1] /\ 1 \in 1 .. Len(list)
    BY <2>1
  <2> QED
    BY <2>1, <2>2, <2>3, <2>4, <2>5, <2>6
<1>2. ASSUME asap # <<>>
      PROVE  {[plot |-> asap[i], before |-> 0] : i \in DOMAIN asap}
               = {[plot |-> Tail(asap)[i], before |-> 0] : i \in DOMAIN Tail(asap)}
                   \union {[plot |-> Head(asap), before |-> 0]}
  <2>1. /\ Head(asap) = asap[1] /\ 1 \in DOMAIN asap
        /\ \A i \in DOMAIN asap : i # 1 => i - 1 \in DOMAIN Tail(asap) /\ asap[i] = Tail(asap)[i - 1]
        /\ \A i \in DOMAIN Tail(asap) : i + 1 \in DOMAIN asap /\ Tail(asap)[i] = asap[i + 1]
    BY <1>1, <1>2
  <2> DEFINE t == Tail(asap)
             h == Head(asap)
  <2>2. /\ h = asap[1] /\ 1 \in DOMAIN asap
        /\ \A i \in DOMAIN asap : i = 1 \/ \E j \in DOMAIN t : asap[i] = t[j]
        /\ \A i \in DOMAIN t : \E j \in DOMAIN asap : t[i] = asap[j]
    BY <2>1
  <2> HIDE DEF t, h
  <2>3. {[plot |-> asap[i], before |-> 0] : i \in DOMAIN asap}
          \subseteq {[plot |-> t[i], before |-> 0] : i \in DOMAIN t} \union {[plot |-> h, before |-> 0]}
    BY <2>2
  <2>4. {[plot |-> t[i], before |-> 0] : i \in DOMAIN t} \union {[plot |-> h, before |-> 0]}
          \subseteq {[plot |-> asap[i], before |-> 0] : i \in DOMAIN asap}
    BY <2>2, Zenon
  <2> QED
    BY <2>3, <2>4 DEF t, h
<1>3. ASSUME inline # <<>>
      PROVE  {inline[i] : i \in DOMAIN inline}
               = {Tail(inline)[i] : i \in DOMAIN Tail(inline)} \union {Head(inline)}
  <2>1. /\ Head(inline) = inline[1] /\ 1 \in DOMAIN inline
        /\ \A i \in DOMAIN inline :
             i # 1 => i - 1 \in DOMAIN Tail(inline) /\ inline[i] = Tail(inline)[i - 1]
        /\ \A i \in DOMAIN Tail(inline) : i + 1 \in DOMAIN inline /\ Tail(inline)[i] = inline[i + 1]
    BY <1>1, <1>3
  <2> DEFINE t == Tail(inline)
             h == Head(inline)
  <2>2. /\ h = inline[1] /\ 1 \in DOMAIN inline
        /\ \A i \in DOMAIN inline : i = 1 \/ \E j \in DOMAIN t : inline[i] = t[j]
        /\ \A i \in DOMAIN t : \E j \in DOMAIN inline : t[i] = inline[j]
    BY <2>1
  <2> HIDE DEF t, h
  <2>3. {inline[i] : i \in DOMAIN inline} = {t[i] : i \in DOMAIN t} \union {h}
    BY <2>2
  <2> QED
    BY <2>3 DEF t, h
<1>4. asap # <<>> =>
              /\ Tail(asap) \in Seq(PlotObjects) /\ Len(asap) \in Nat \ {0}
              /\ Len(Tail(asap)) = Len(asap) - 1 /\ Head(asap) = asap[1]
              /\ \A i \in 1 .. Len(asap) - 1 : Tail(asap)[i] = asap[i + 1]
  BY <1>1
<1>5. inline # <<>> =>
              /\ Tail(inline) \in Seq(UploadRecords) /\ Len(inline) \in Nat \ {0}
              /\ Len(Tail(inline)) = Len(inline) - 1 /\ Head(inline) = inline[1]
              /\ \A i \in 1 .. Len(inline) - 1 : Tail(inline)[i] = inline[i + 1]
  BY <1>1
<1>6. asap # <<>> => UploadsIn(asap, inline)
                       = UploadsIn(Tail(asap), inline) \union {[plot |-> Head(asap), before |-> 0]}
  BY <1>2 DEF UploadsIn
<1>7. inline # <<>> => UploadsIn(asap, inline) = UploadsIn(asap, Tail(inline)) \union {Head(inline)}
  BY <1>3 DEF UploadsIn
<1> QED
  BY <1>4, <1>5, <1>6, <1>7

LEMMA UploadFacts ==
  ASSUME TokenTypes, UploadsRight
  PROVE  /\ Uploads \subseteq UploadRecords
         /\ \A u \in Uploads : u.plot \in PlotObjects /\ u.before \in Nat /\ u.before <= NextDrawToken
         /\ \A u \in Uploads : u.before # 0 => NextTokenToFlush <= u.before
         /\ Pending = {u.plot : u \in Uploads} /\ Pending \subseteq PlotObjects
         /\ NextDrawToken \in Nat /\ NextTokenToFlush \in Nat
         /\ NextTokenToFlush <= NextDrawToken
<1>1. fASAPUploads \in Seq(PlotObjects) /\ fInlineUploads \in Seq(UploadRecords)
  BY DEF TokenTypes
<1>2. Uploads \subseteq UploadRecords
  BY <1>1, UploadsAre DEF Uploads
<1>3. Pending = {u.plot : u \in Uploads}
  BY PendingIs DEF Pending, Uploads
<1>4. \A u \in Uploads : u.plot \in PlotObjects /\ u.before \in Nat
  BY <1>2 DEF UploadRecords
<1>5. /\ NextDrawToken \in Nat /\ NextTokenToFlush \in Nat
      /\ NextTokenToFlush <= NextDrawToken
  <2>1. Len(fDraws) \in Nat
    BY SeqSet DEF TokenTypes
  <2> QED
    BY <2>1 DEF TokenTypes, NextDrawToken, NextTokenToFlush
<1>6. ASSUME NEW u \in Uploads
      PROVE  u.before <= NextDrawToken /\ (u.before # 0 => NextTokenToFlush <= u.before)
  <2>1. u.before = 0 \/ \E i \in 1 .. Len(fInlineUploads) : u = fInlineUploads[i]
    BY <1>1, UploadsAre DEF Uploads
  <2>2. \A i \in 1 .. Len(fInlineUploads) :
          fInlineUploads[i].before \in NextTokenToFlush .. NextDrawToken
    BY DEF UploadsRight
  <2> QED
    BY <1>4, <1>5, <2>1, <2>2
<1> QED
  BY <1>2, <1>3, <1>4, <1>5, <1>6

(* What a draw will read depends on the uploads, their plots and textures. *)
SamePlace(p) ==
  /\ plot'[p].page = plot[p].page /\ plot'[p].index = plot[p].index
  /\ plot'[p].glyphs = plot[p].glyphs /\ plot'[p].clean = plot[p].clean

LEMMA WillReadSame ==
  ASSUME Uploads' = Uploads, texture' = texture, \A u \in Uploads : SamePlace(u.plot)
  PROVE  \A quad, token : WillRead(quad, token)' <=> WillRead(quad, token)
<1>1. \A u \in Uploads : \A loc : Covers(u, loc)' <=> Covers(u, loc)
  BY DEF Covers, Slot, SamePlace
<1>2. \A u \in Uploads : Slot(u.plot)' = Slot(u.plot) /\ plot'[u.plot].glyphs = plot[u.plot].glyphs
  BY DEF Slot, SamePlace
<1>3. \A quad : ReadsRight(quad)' <=> ReadsRight(quad)
  BY DEF ReadsRight
<1> QED
  BY <1>1, <1>2, <1>3 DEF WillRead
-----------------------------------------------------------------------------
(* Plots are tagged for the next draw, and lists are in another order.     *)
Tagging(T) ==
  /\ plot' = [p \in PlotObjects |->
       IF p \in T THEN [plot[p] EXCEPT !.lastUse = NextDrawToken] ELSE plot[p]]
  /\ fPlotList' \in ListMaps /\ Rearranged(fPlotList, fPlotList')
  /\ UNCHANGED <<fNumActivePages, fGeneration, fAtlasGeneration, tokenVars, uploadVars, fDraws,
                 texture, locator, lapsed>>

LEMMA TaggingFacts ==
  ASSUME AtlasTypes, TokenTypes, ListsRight, UploadsRight, NEW T \in SUBSET Listed, Tagging(T)
  PROVE  /\ plot' \in PlotMaps /\ ListsRight' /\ Listed' = Listed
         /\ Uploads' = Uploads /\ Pending' = Pending
         /\ NextDrawToken' = NextDrawToken /\ NextTokenToFlush' = NextTokenToFlush
         /\ Active' = Active
         /\ \A p \in PlotObjects :
              /\ SamePlace(p) /\ Slot(p)' = Slot(p) /\ plot'[p].gen = plot[p].gen
              /\ plot'[p].lastUpload = plot[p].lastUpload
              /\ (plot'[p] = None) <=> (plot[p] = None)
              /\ plot'[p].lastUse = IF p \in T THEN NextDrawToken ELSE plot[p].lastUse
<1>1. Listed \subseteq PlotObjects /\ \A p \in Listed : plot[p] \in Records
  BY AtlasFacts
<1>2. NextDrawToken \in Nat
  BY UploadFacts
<1>3. ASSUME NEW p \in PlotObjects
      PROVE  /\ plot'[p] \in Records \union {None}
             /\ (p \in T => plot'[p] \in Records /\ plot[p] \in Records)
             /\ SamePlace(p) /\ Slot(p)' = Slot(p) /\ plot'[p].gen = plot[p].gen
             /\ plot'[p].lastUpload = plot[p].lastUpload
             /\ plot'[p].lastUse = IF p \in T THEN NextDrawToken ELSE plot[p].lastUse
             /\ p \notin T => plot'[p] = plot[p]
  <2>1. CASE p \in T
    <3>1. plot[p] \in Records /\ plot'[p] = [plot[p] EXCEPT !.lastUse = NextDrawToken]
      BY <1>1, <2>1 DEF Tagging
    <3> QED
      BY <1>2, <2>1, <3>1 DEF Records, SamePlace, Slot
  <2>2. CASE p \notin T
    <3>1. plot'[p] = plot[p]
      BY <2>2 DEF Tagging
    <3>2. plot[p] \in Records \union {None}
      BY DEF AtlasTypes, PlotMaps
    <3> QED
      BY <2>2, <3>1, <3>2 DEF SamePlace, Slot
  <2> QED
    BY <2>1, <2>2
<1>4. plot' \in PlotMaps
  <2>1. plot' = [p \in PlotObjects |-> plot'[p]]
    BY DEF Tagging
  <2> QED
    BY <1>3, <2>1 DEF PlotMaps
<1>5. \A p \in PlotObjects : (plot'[p] = None) <=> (plot[p] = None)
  BY <1>3, Numbers
<1>6. Listed = ListedIn(fPlotList) /\ Listed' = ListedIn(fPlotList')
  BY DEF Listed, ListedIn
<1>7. InPlace(fPlotList, plot, plot')
  <2>1. \A p \in Listed : plot[p] # None
    BY AtlasFacts
  <2> QED
    BY <1>1, <1>3, <1>5, <1>6, <2>1 DEF InPlace, SamePlace
<1>8. ListsAre(plot', fPlotList') /\ ListedIn(fPlotList') = ListedIn(fPlotList)
  <2>1. /\ plot \in PlotMaps /\ fPlotList \in ListMaps /\ ListsAre(plot, fPlotList)
        /\ fPlotList' \in ListMaps /\ Rearranged(fPlotList, fPlotList')
    BY DEF AtlasTypes, ListsRight, Tagging
  <2> QED
    BY <1>7, <2>1, Relisted
<1>9. Uploads' = Uploads /\ Pending' = Pending
  BY DEF Tagging, uploadVars, Uploads, Pending
<1>10. NextDrawToken' = NextDrawToken /\ NextTokenToFlush' = NextTokenToFlush /\ Active' = Active
  BY DEF Tagging, tokenVars, NextDrawToken, NextTokenToFlush, Active
<1> QED
  BY <1>3, <1>4, <1>5, <1>6, <1>8, <1>9, <1>10 DEF ListsRight

LEMMA TaggingKeeps ==
  ASSUME AtlasTypes, TokenTypes, ListsRight, RecordsRight, LocatorsRight, DrawsRight, TextureRight,
         UploadsRight, ScheduleRight, Prepares, NEW T \in SUBSET Listed, Tagging(T)
  PROVE  /\ AtlasTypes' /\ RecordsRight' /\ LocatorsRight' /\ DrawsRight' /\ TextureRight'
         /\ UploadsRight' /\ ScheduleRight'
         /\ \A quad : Ready(quad) => Ready(quad)'
         /\ \A loc : Good(loc)' <=> Good(loc)
<1> DEFINE N == NextDrawToken
<1>1. /\ plot' \in PlotMaps /\ Listed' = Listed /\ Uploads' = Uploads /\ Pending' = Pending
      /\ NextDrawToken' = N /\ NextTokenToFlush' = NextTokenToFlush /\ Active' = Active
  BY TaggingFacts
<1>2. \A p \in PlotObjects :
              /\ SamePlace(p) /\ Slot(p)' = Slot(p) /\ plot'[p].gen = plot[p].gen
              /\ plot'[p].lastUpload = plot[p].lastUpload
              /\ (plot'[p] = None) <=> (plot[p] = None)
              /\ plot'[p].lastUse = IF p \in T THEN N ELSE plot[p].lastUse
  BY TaggingFacts
<1>3. /\ Uploads \subseteq UploadRecords /\ Pending \subseteq PlotObjects
      /\ \A u \in Uploads : u.plot \in PlotObjects /\ u.before \in Nat /\ u.before <= N
      /\ N \in Nat /\ NextTokenToFlush \in Nat /\ NextTokenToFlush <= N
  BY UploadFacts
<1>4. Listed \subseteq PlotObjects /\ \A p \in Listed : plot[p] \in Records /\ plot[p].lastUse \in Nat
  BY AtlasFacts DEF Records
<1>5. UNCHANGED <<fGeneration, fAtlasGeneration, fNumActivePages, texture, locator, fDraws,
                  fLastFlushedToken, fASAPUploads, fInlineUploads, lapsed>>
  BY DEF Tagging, tokenVars, uploadVars
<1>6. \A p \in Listed : /\ plot[p].lastUse <= N
                        /\ plot[p].lastUse <= plot'[p].lastUse /\ plot'[p].lastUse <= N
  <2>1. \A p \in Listed : plot[p].lastUse <= N
    BY DEF RecordsRight, Live
  <2> QED
    BY <1>2, <1>3, <1>4, <2>1
<1> HIDE DEF N
<1>7. AtlasTypes'
  BY <1>1, <1>5 DEF AtlasTypes, Tagging
<1>8. RecordsRight'
  <2>1. ASSUME NEW p \in Live
        PROVE  /\ plot'[p] # None
               /\ Len(plot'[p].glyphs) <= Room /\ plot'[p].clean <= Len(plot'[p].glyphs)
               /\ plot'[p].gen < fGeneration
               /\ plot'[p].lastUse <= N /\ plot'[p].lastUpload <= N
    <3>1. p \in PlotObjects
      BY <1>3, <1>4 DEF Live
    <3>2. plot'[p].lastUse <= N
      BY <1>2, <1>3, <3>1 DEF RecordsRight, N
    <3> QED
      BY <1>2, <3>1, <3>2 DEF RecordsRight, SamePlace, N
  <2>2. \A p \in Listed : plot'[p].glyphs # <<>> => plot'[p].lastUse # 0
    <3> SUFFICES ASSUME NEW p \in Listed, plot'[p].glyphs # <<>> PROVE plot'[p].lastUse # 0
      OBVIOUS
    <3>1. plot[p].lastUse # 0
      BY <1>2, <1>4 DEF RecordsRight, SamePlace
    <3>2. plot[p].lastUse \in Nat /\ plot[p].lastUse <= plot'[p].lastUse
      BY <1>4, <1>6
    <3> QED
      BY <3>1, <3>2
  <2>3. Live' = Live
    BY <1>1 DEF Live
  <2> QED
    BY <1>1, <1>5, <2>1, <2>2, <2>3 DEF RecordsRight
<1>9. \A loc : \A p \in Listed : Located(loc, p)' <=> Located(loc, p)
  BY <1>1, <1>2, <1>4 DEF Located
<1>10. \A p \in Listed : \A at, g : Holds(p, at, g)' <=> Holds(p, at, g)
  BY <1>2, <1>4 DEF Holds, SamePlace
<1>11. LocatorsRight'
  BY <1>1, <1>5, <1>9, <1>10 DEF LocatorsRight
<1>12. \A loc : Good(loc)' <=> Good(loc)
  BY <1>1, <1>9 DEF Good
<1>13. ASSUME NEW quad, Ready(quad) PROVE Ready(quad)'
  <2> SUFFICES ASSUME NEW p \in Listed, Slot(p) = SlotOf(quad.loc)
               PROVE  /\ plot'[p].gen = quad.loc.gen /\ plot'[p].lastUse = N
                      /\ Holds(p, quad.loc.at, quad.glyph)'
    BY <1>1, <1>2, <1>4, <1>13 DEF Ready
  <2>1. /\ plot[p].gen = quad.loc.gen /\ plot[p].lastUse = N
        /\ Holds(p, quad.loc.at, quad.glyph)
    BY <1>13 DEF Ready, N
  <2> QED
    BY <1>2, <1>4, <1>10, <2>1
<1>14. DrawsRight'
  <2>1. \A quad, token : WillRead(quad, token)' <=> WillRead(quad, token)
    BY <1>1, <1>2, <1>3, <1>5, WillReadSame
  <2>2. ASSUME NEW quad, NEW token \in Nat, Reserved(quad, token) PROVE Reserved(quad, token)'
    <3> SUFFICES ASSUME NEW p \in Listed, Slot(p) = SlotOf(quad.loc)
                 PROVE  /\ token <= plot'[p].lastUse
                        /\ \/ Holds(p, quad.loc.at, quad.glyph)'
                           \/ \E u \in Uploads : u.plot = p /\ token < u.before
      BY <1>1, <1>2, <1>4 DEF Reserved
    <3>1. /\ token <= plot[p].lastUse
          /\ \/ Holds(p, quad.loc.at, quad.glyph)
             \/ \E u \in Uploads : u.plot = p /\ token < u.before
      BY <2>2 DEF Reserved
    <3>2. token <= plot'[p].lastUse
      <4>1. /\ plot[p].lastUse \in Nat /\ plot[p].lastUse <= plot'[p].lastUse
            /\ plot'[p].lastUse \in Nat
        BY <1>2, <1>3, <1>4, <1>6
      <4> QED
        BY <3>1, <4>1
    <3> QED
      BY <1>10, <3>1, <3>2
  <2>3. \A k \in 1 .. Len(fDraws) : fLastFlushedToken + k \in Nat
    BY DEF TokenTypes
  <2> QED
    BY <1>5, <2>1, <2>2, <2>3 DEF DrawsRight, Prepares
<1>15. TextureRight'
  <2>1. /\ \A p \in Listed : \A i \in 1 .. plot[p].clean : texture[Slot(p)][i] = plot[p].glyphs[i]
        /\ \A p \in Listed \ Pending :
             plot[p].gen \in lapsed \/ plot[p].clean = Len(plot[p].glyphs)
        /\ \A u \in Uploads : /\ plot[u.plot].clean < Len(plot[u.plot].glyphs)
                              /\ u.before # 0 => plot[u.plot].clean = 0
    BY DEF TextureRight
  <2> QED
    BY <1>1, <1>2, <1>3, <1>4, <1>5, <2>1, SMTT(40) DEF TextureRight, SamePlace
<1>16. UploadsRight'
  BY <1>1, <1>2, <1>3, <1>4, <1>5 DEF UploadsRight, N
<1>17. ScheduleRight'
  <2>1. ASSUME NEW u \in Uploads, u.plot \in Listed
        PROVE  /\ u.before <= plot'[u.plot].lastUse /\ NextTokenToFlush <= plot'[u.plot].lastUse
               /\ NextTokenToFlush <= plot'[u.plot].lastUpload
    <3>1. /\ u.before <= plot[u.plot].lastUse /\ NextTokenToFlush <= plot[u.plot].lastUse
          /\ NextTokenToFlush <= plot[u.plot].lastUpload
      BY <2>1 DEF ScheduleRight
    <3>2. plot[u.plot].lastUse \in Nat /\ plot[u.plot].lastUse <= plot'[u.plot].lastUse
          /\ plot'[u.plot].lastUse \in Nat /\ u.before \in Nat
      BY <1>2, <1>3, <1>4, <1>6, <2>1
    <3> QED
      BY <1>2, <1>3, <3>1, <3>2
  <2>2. \A p \in Listed :
          NextTokenToFlush <= plot'[p].lastUpload => p \in Pending \/ plot'[p].gen \in lapsed
    BY <1>2, <1>4 DEF ScheduleRight
  <2> QED
    BY <1>1, <1>5, <2>1, <2>2 DEF ScheduleRight
<1> QED
  BY <1>7, <1>8, <1>11, <1>12, <1>13, <1>14, <1>15, <1>16, <1>17
-----------------------------------------------------------------------------
(* The ops: a step that leaves the atlas alone tags nothing.               *)
LEMMA Untouched ==
  ASSUME AtlasInv,
         UNCHANGED <<atlasVars, tokenVars, uploadVars, fDraws, texture, locator, lapsed>>
  PROVE  Tagging({})
<1>1. plot \in PlotMaps /\ fPlotList \in ListMaps
  BY DEF AtlasInv, AtlasTypes
<1>2. plot' = [p \in PlotObjects |->
        IF p \in {} THEN [plot[p] EXCEPT !.lastUse = NextDrawToken] ELSE plot[p]]
  <2>1. plot' = plot /\ plot = [p \in PlotObjects |-> plot[p]]
    BY <1>1 DEF atlasVars, PlotMaps
  <2> QED
    BY <2>1
<1>3. fPlotList' = fPlotList
  BY DEF atlasVars
<1>4. Rearranged(fPlotList, fPlotList)
  BY DEF AtlasInv, ListsRight, ListsAre, Rearranged
<1> QED
  BY <1>1, <1>2, <1>3, <1>4 DEF Tagging, atlasVars

LEMMA OneMore ==
  ASSUME NEW l \in 0 .. MaxSubRuns, l > 0
  PROVE  /\ (MaxSubRuns - (l - 1)) * MaxGlyphs = (MaxSubRuns - l) * MaxGlyphs + MaxGlyphs
         /\ (MaxSubRuns - l) * MaxGlyphs \in Nat
<1>1. MaxSubRuns \in Nat /\ MaxGlyphs \in Nat
  BY Numbers
<1>2. PICK d \in Nat : d = MaxSubRuns - l
  BY <1>1
<1>3. MaxSubRuns - (l - 1) = d + 1
  BY <1>1, <1>2
<1>4. (d + 1) * MaxGlyphs = d * MaxGlyphs + MaxGlyphs /\ d * MaxGlyphs \in Nat
  BY <1>1
<1> QED
  BY <1>2, <1>3, <1>4

(* What the tagging of plots keeps of the rest.                            *)
LEMMA TaggingGoesOn ==
  ASSUME AtlasInv, Prepares, NEW T \in SUBSET Listed, Tagging(T)
  PROVE  /\ AtlasTypes' /\ ListsRight' /\ RecordsRight' /\ LocatorsRight' /\ DrawsRight'
         /\ TextureRight' /\ UploadsRight' /\ ScheduleRight'
         /\ Live' = Live /\ Listed' = Listed /\ Uploads' = Uploads /\ NextDrawToken' = NextDrawToken
         /\ \A quad : Ready(quad) => Ready(quad)'
         /\ \A loc : Good(loc)' <=> Good(loc)
         /\ \A p \in Listed :
              /\ Slot(p)' = Slot(p) /\ plot'[p].lastUpload = plot[p].lastUpload
              /\ plot'[p].lastUse = IF p \in T THEN NextDrawToken ELSE plot[p].lastUse
         /\ ~DrawComes /\ gaveUp # NextDrawToken =>
              (\A u \in Uploads : u.before <= fLastIssuedToken)
              /\ \A p \in Listed : plot'[p].lastUpload <= fLastIssuedToken
<1>1. /\ AtlasTypes /\ TokenTypes /\ ListsRight /\ RecordsRight /\ LocatorsRight /\ DrawsRight
      /\ TextureRight /\ UploadsRight /\ ScheduleRight /\ TokensRight
  BY DEF AtlasInv
<1>2. /\ AtlasTypes' /\ RecordsRight' /\ LocatorsRight' /\ DrawsRight' /\ TextureRight'
      /\ UploadsRight' /\ ScheduleRight'
      /\ \A quad : Ready(quad) => Ready(quad)'
      /\ \A loc : Good(loc)' <=> Good(loc)
  BY <1>1, TaggingKeeps
<1>3. /\ ListsRight' /\ Listed' = Listed /\ Uploads' = Uploads /\ Pending' = Pending
      /\ NextDrawToken' = NextDrawToken
      /\ \A p \in PlotObjects :
           /\ Slot(p)' = Slot(p) /\ plot'[p].lastUpload = plot[p].lastUpload
           /\ plot'[p].lastUse = IF p \in T THEN NextDrawToken ELSE plot[p].lastUse
  BY <1>1, TaggingFacts
<1>4. Listed \subseteq PlotObjects
  BY <1>1, AtlasFacts
<1>5. Live' = Live
  BY <1>3 DEF Live
<1>6. \A p \in Listed :
        /\ Slot(p)' = Slot(p) /\ plot'[p].lastUpload = plot[p].lastUpload
        /\ plot'[p].lastUse = IF p \in T THEN NextDrawToken ELSE plot[p].lastUse
  BY <1>3, <1>4
<1>7. ~DrawComes /\ gaveUp # NextDrawToken =>
        (\A u \in Uploads : u.before <= fLastIssuedToken)
        /\ \A p \in Listed : plot'[p].lastUpload <= fLastIssuedToken
  BY <1>1, <1>6 DEF TokensRight
<1> QED
  BY <1>2, <1>3, <1>5, <1>6, <1>7

(* The plots that setUseTokenBulk() tags.                                  *)
Used(s) == {p \in Listed : Slot(p) \in ToSet(fBulkUseToken[s]) /\ plot[p].page \in Active}

LEMMA BulkIsOnce ==
  ASSUME AtlasInv, NEW s \in SubRuns
  PROVE  fBulkUseToken[s] \in Seq(Slots) /\ IsOnce(fBulkUseToken[s])
         /\ ToSet(fBulkUseToken[s]) \subseteq Slots
<1>1. fBulkUseToken[s] \in Seq(Slots)
  BY DEF AtlasInv, OpTypes
<1>2. DOMAIN fBulkUseToken[s] = 1 .. Len(fBulkUseToken[s]) /\ ToSet(fBulkUseToken[s]) \subseteq Slots
  BY <1>1, SeqSet
<1> QED
  BY <1>1, <1>2 DEF AtlasInv, GenerationsRight, IsOnce

LEMMA SetUseTokensTags ==
  ASSUME AtlasInv, NEW s \in SubRuns, SetUseTokens(fBulkUseToken[s]),
         UNCHANGED <<fNumActivePages, fGeneration, fAtlasGeneration, tokenVars, uploadVars, fDraws,
                     texture, locator, lapsed>>
  PROVE  Tagging(Used(s))
<1> DEFINE slots == fBulkUseToken[s]
           others(page) == {slot \in Slots : slot[1] # page}
           on(page) == Omit(slots, others(page))
           used(page) == [i \in DOMAIN on(page) |-> PlotAt(on(page)[i])]
<1>1. AtlasTypes /\ ListsRight /\ ListMaps = [Pages -> Seq(PlotObjects)]
  BY DEF AtlasInv, ListMaps
<1>2. slots \in Seq(Slots) /\ IsOnce(slots)
  BY BulkIsOnce
<1>3. plot' = [p \in PlotObjects |->
        IF p \in Used(s) THEN [plot[p] EXCEPT !.lastUse = NextDrawToken] ELSE plot[p]]
  BY DEF SetUseTokens, Used
<1>4. fPlotList' = [page \in Pages |->
        IF page \in Active THEN MadeMRU(fPlotList[page], used(page)) ELSE fPlotList[page]]
  BY DEF SetUseTokens
<1>5. ASSUME NEW page \in Pages
      PROVE  /\ used(page) \in Seq(PlotObjects) /\ IsOnce(used(page))
             /\ ToSet(used(page)) \subseteq ToSet(fPlotList[page])
  <2> DEFINE o == on(page)
             u == used(page)
  <2> HIDE DEF slots
  <2>1. o \in Seq(Slots) /\ IsOnce(o) /\ ToSet(o) = ToSet(slots) \ others(page)
    BY <1>2, OmitSet
  <2>2. Len(o) \in Nat /\ DOMAIN o = 1 .. Len(o) /\ \A i \in 1 .. Len(o) : o[i] \in Slots /\ o[i] \in ToSet(o)
    BY <2>1, SeqSet
  <2>3. \A i \in 1 .. Len(o) : o[i][1] = page
    BY <2>1, <2>2
  <2>4. DOMAIN u = 1 .. Len(o) /\ \A i \in 1 .. Len(o) : u[i] = PlotAt(o[i])
    BY <2>2
  <2>5. u = [i \in 1 .. Len(o) |-> PlotAt(o[i])]
    BY <2>2
  <2> HIDE DEF o, u
  <2>6. ASSUME NEW i \in 1 .. Len(o)
        PROVE  u[i] \in PlotObjects /\ u[i] \in ToSet(fPlotList[page]) /\ Slot(u[i]) = o[i]
    <3>1. u[i] \in Listed /\ Slot(u[i]) = o[i] /\ u[i] \in PlotObjects
      BY <1>1, <2>2, <2>4, AtlasFacts
    <3>2. plot[u[i]].page = page
      BY <2>3, <3>1 DEF Slot
    <3> QED
      BY <1>1, <3>1, <3>2, AtlasFacts
  <2>7. u \in Seq(PlotObjects)
    <3>1. u \in [1 .. Len(o) -> PlotObjects]
      BY <2>5, <2>6
    <3> QED
      BY <2>2, <3>1, SeqDef
  <2>8. IsOnce(u)
    BY <2>1, <2>2, <2>4, <2>6 DEF IsOnce
  <2>9. ToSet(u) \subseteq ToSet(fPlotList[page])
    BY <2>4, <2>6 DEF ToSet
  <2> QED
    BY <2>7, <2>8, <2>9 DEF u
<1>6. ASSUME NEW page \in Pages
      PROVE  /\ fPlotList[page] \in Seq(PlotObjects) /\ IsOnce(fPlotList[page])
             /\ fPlotList'[page] \in Seq(PlotObjects) /\ IsOnce(fPlotList'[page])
             /\ ToSet(fPlotList'[page]) = ToSet(fPlotList[page])
             /\ Len(fPlotList'[page]) = Len(fPlotList[page])
  <2>1. fPlotList[page] \in Seq(PlotObjects) /\ IsOnce(fPlotList[page])
    BY <1>1 DEF AtlasTypes, ListsRight, ListsAre
  <2>2. fPlotList'[page]
          = IF page \in Active THEN MadeMRU(fPlotList[page], used(page)) ELSE fPlotList[page]
    BY <1>4
  <2>3. /\ used(page) \in Seq(PlotObjects) /\ IsOnce(used(page))
        /\ ToSet(used(page)) \subseteq ToSet(fPlotList[page])
    BY <1>5
  <2> HIDE DEF used
  <2>4. LET m == MadeMRU(fPlotList[page], used(page))
        IN /\ m \in Seq(PlotObjects) /\ IsOnce(m) /\ ToSet(m) = ToSet(fPlotList[page])
           /\ Len(m) = Len(fPlotList[page])
    BY <2>1, <2>3, MadeMRUIs
  <2> QED
    BY <2>1, <2>2, <2>4
<1> HIDE DEF slots, used
<1>7. fPlotList' \in [Pages -> Seq(PlotObjects)]
  <2>1. fPlotList' = [page \in Pages |-> fPlotList'[page]]
    BY <1>4
  <2> QED
    BY <1>6, <2>1
<1>8. Rearranged(fPlotList, fPlotList')
  BY <1>6 DEF Rearranged
<1> QED
  BY <1>1, <1>3, <1>7, <1>8 DEF Tagging

(* regenerate() when the atlas has changed ...                             *)
LEMMA BeginsPlacing ==
  ASSUME AtlasInv, NEW s \in SubRuns, NEW from \in Nat, Regenerate(s, from),
         subRunGeneration[s] # fAtlasGeneration, current' = s,
         \/ pc \in {"idle", "op"} /\ from = 0
         \/ pc = "again" /\ s = current /\ from = placed,
         left' \in [subRuns : 0 .. MaxSubRuns, flushes : Nat, bails : Nat], PlotsLast'
  PROVE  AtlasInv'
<1>1. /\ fBulkUseToken' = [fBulkUseToken EXCEPT ![s] = <<>>]
      /\ pc' = "placing" /\ begin' = from /\ placed' = from
      /\ UNCHANGED <<plot, fPlotList, quads, fNumActivePages, fGeneration, fAtlasGeneration,
                     fPrevFlushToken, tokenVars, uploadVars, fDraws, texture, locator,
                     subRunGeneration, texCoords, broken, gaveUp, lapsed>>
  BY DEF Regenerate, giveUpVars
<1>2. Tagging({})
  BY <1>1, Untouched DEF atlasVars
<1>3. Prepares
  BY DEF Prepares
<1>4. /\ AtlasTypes' /\ ListsRight' /\ RecordsRight' /\ LocatorsRight' /\ DrawsRight'
      /\ TextureRight' /\ UploadsRight' /\ ScheduleRight'
      /\ Live' = Live /\ Listed' = Listed /\ Uploads' = Uploads /\ NextDrawToken' = NextDrawToken
      /\ \A quad : Ready(quad) => Ready(quad)'
      /\ \A loc : Good(loc)' <=> Good(loc)
      /\ \A p \in Listed : plot'[p].lastUpload = plot[p].lastUpload
  BY <1>2, <1>3, TaggingGoesOn
<1>5. TokenTypes'
  BY <1>1 DEF AtlasInv, TokenTypes, tokenVars, uploadVars
<1>6. OpTypes'
  <2>1. from <= Len(GlyphsOf[s]) /\ Len(GlyphsOf[s]) \in Nat
    BY MostGlyphs DEF AtlasInv, OpTypes
  <2>2. <<>> \in Seq(Slots)
    OBVIOUS
  <2> QED
    BY <1>1, <2>1, <2>2 DEF AtlasInv, OpTypes
<1>7. /\ fBulkUseToken'[s] = <<>>
      /\ \A r \in SubRuns : r # s => fBulkUseToken'[r] = fBulkUseToken[r]
  BY <1>1 DEF AtlasInv, OpTypes
<1>8. GenerationsRight'
  <2>1. GenerationsRight
    BY DEF AtlasInv
  <2>2. \A r \in SubRuns : \A i, j \in 1 .. Len(fBulkUseToken'[r]) :
          fBulkUseToken'[r][i] = fBulkUseToken'[r][j] => i = j
    BY <1>7, <2>1 DEF GenerationsRight
  <2>3. \A r \in SubRuns \ broken : subRunGeneration[r] = fAtlasGeneration =>
          \A i \in 1 .. Len(GlyphsOf[r]) :
            /\ texCoords[r][i] = locator[GlyphsOf[r][i]]
            /\ Good(texCoords[r][i])'
            /\ SlotOf(texCoords[r][i]) \in ToSet(fBulkUseToken'[r])
    <3> SUFFICES ASSUME NEW r \in SubRuns \ broken, subRunGeneration[r] = fAtlasGeneration,
                        NEW i \in 1 .. Len(GlyphsOf[r])
                 PROVE  /\ texCoords[r][i] = locator[GlyphsOf[r][i]]
                        /\ Good(texCoords[r][i])'
                        /\ SlotOf(texCoords[r][i]) \in ToSet(fBulkUseToken'[r])
      OBVIOUS
    <3>1. fBulkUseToken'[r] = fBulkUseToken[r]
      BY <1>7
    <3>2. /\ texCoords[r][i] = locator[GlyphsOf[r][i]] /\ Good(texCoords[r][i])
          /\ SlotOf(texCoords[r][i]) \in ToSet(fBulkUseToken[r])
      BY <2>1 DEF GenerationsRight
    <3>3. Good(texCoords[r][i])'
      <4>1. texCoords' = texCoords
        BY <1>1
      <4> QED
        BY <1>4, <3>2, <4>1
    <3> QED
      BY <3>1, <3>2, <3>3
  <2> QED
    BY <1>1, <2>1, <2>2, <2>3 DEF GenerationsRight
<1>9. PlacingRight'
  <2>1. ToSet(fBulkUseToken'[s]) = {} /\ begin' + 1 .. placed' = {}
    BY <1>1, <1>7 DEF ToSet
  <2>2. begin' # 0 => current' \in broken'
    BY <1>1 DEF AtlasInv, PlacingRight
  <2> QED
    BY <1>1, <2>1, <2>2 DEF PlacingRight
<1>10. QuadsRight'
  BY <1>1, <1>4 DEF AtlasInv, QuadsRight, IsLapsed
<1>11. TokensRight'
  <2>1. ~DrawComes' => ~DrawComes
    BY <1>1 DEF DrawComes, AtlasInv, QuadsRight
  <2> QED
    BY <1>1, <1>2, <1>3, <1>4, <2>1, TaggingGoesOn DEF TokensRight, tokenVars
<1> QED
  BY <1>4, <1>5, <1>6, <1>8, <1>9, <1>10, <1>11 DEF AtlasInv

(* ... and when not.                                                       *)
LEMMA UsesAgain ==
  ASSUME AtlasInv, NEW s \in SubRuns, Regenerate(s, 0),
         subRunGeneration[s] = fAtlasGeneration, current' = s, pc \in {"idle", "op"},
         left' \in [subRuns : 0 .. MaxSubRuns, flushes : Nat, bails : Nat], PlotsLast'
  PROVE  AtlasInv'
<1>1. /\ SetUseTokens(fBulkUseToken[s])
      /\ quads' = quads \union Quads(s, texCoords[s], 0, Len(GlyphsOf[s]), s \notin broken)
      /\ pc' = "op" /\ begin' = 0 /\ placed' = 0
      /\ UNCHANGED <<fBulkUseToken, fNumActivePages, fGeneration, fAtlasGeneration,
                     fPrevFlushToken, tokenVars, uploadVars, fDraws, texture, locator,
                     subRunGeneration, texCoords, broken, gaveUp, lapsed>>
  BY DEF Regenerate, giveUpVars
<1>2. Tagging(Used(s)) /\ Used(s) \in SUBSET Listed
  BY <1>1, SetUseTokensTags DEF Used
<1>3. Prepares
  BY DEF Prepares
<1>4. /\ AtlasTypes' /\ ListsRight' /\ RecordsRight' /\ LocatorsRight' /\ DrawsRight'
      /\ TextureRight' /\ UploadsRight' /\ ScheduleRight'
      /\ Live' = Live /\ Listed' = Listed /\ Uploads' = Uploads /\ NextDrawToken' = NextDrawToken
      /\ \A quad : Ready(quad) => Ready(quad)'
      /\ \A loc : Good(loc)' <=> Good(loc)
      /\ \A p \in Listed :
           /\ Slot(p)' = Slot(p)
           /\ plot'[p].lastUse = IF p \in Used(s) THEN NextDrawToken ELSE plot[p].lastUse
  BY <1>2, <1>3, TaggingGoesOn
<1>5. TokenTypes'
  BY <1>1 DEF AtlasInv, TokenTypes, tokenVars, uploadVars
<1>6. /\ GlyphsOf[s] \in Seq(Glyphs) /\ Len(GlyphsOf[s]) \in Nat \ {0}
      /\ \A i \in 1 .. Len(GlyphsOf[s]) : GlyphsOf[s][i] \in Glyphs
  BY MostGlyphs
<1>7. \A i \in 1 .. Len(GlyphsOf[s]) : texCoords[s][i] \in Locators \union {None}
  BY DEF AtlasInv, OpTypes
<1> DEFINE whole(i) == s \notin broken /\ ~IsLapsed(texCoords[s][i])
<1>8. \A i \in 0 + 1 .. Len(GlyphsOf[s]) :
        [loc |-> texCoords[s][i], glyph |-> GlyphsOf[s][i], whole |-> whole(i)] \in QuadsOf
  <2>1. \A i : whole(i) \in BOOLEAN
    BY Zenon
  <2> HIDE DEF whole
  <2> QED
    BY <1>6, <1>7, <2>1 DEF QuadsOf
<1>9. OpTypes'
  <2>1. quads' \in SUBSET QuadsOf
    BY <1>1, <1>8 DEF Quads, AtlasInv, OpTypes
  <2> QED
    BY <1>1, <2>1 DEF AtlasInv, OpTypes
<1>10. GenerationsRight'
  <2>1. GenerationsRight
    BY DEF AtlasInv
  <2> QED
    BY <1>1, <1>4, <2>1 DEF GenerationsRight
<1>11. PlacingRight'
  <2>1. subRunGeneration'[current'] # fAtlasGeneration' \/ pc' = "op"
    BY <1>1
  <2> QED
    BY <1>1 DEF PlacingRight
<1>12. QuadsRight'
  <2>1. ASSUME s \notin broken, NEW i \in 1 .. Len(GlyphsOf[s]), NEW quad,
               quad.loc = texCoords[s][i], quad.glyph = GlyphsOf[s][i]
        PROVE  Ready(quad)'
    <3>1. /\ quad.loc = locator[GlyphsOf[s][i]] /\ Good(quad.loc)
          /\ SlotOf(quad.loc) \in ToSet(fBulkUseToken[s])
          /\ quad.loc = texCoords[s][i] /\ quad.glyph = GlyphsOf[s][i]
      BY <2>1 DEF AtlasInv, GenerationsRight
    <3>2. quad.loc # None /\ quad.loc.page \in Active
      BY <3>1 DEF Good
    <3>3. PICK q \in Listed : Located(quad.loc, q)
      BY <3>1 DEF Good
    <3>4. Holds(q, quad.loc.at, quad.glyph)
      BY <1>6, <3>1, <3>2, <3>3 DEF AtlasInv, LocatorsRight
    <3>5. q \in Used(s)
      <4>1. Slot(q) = SlotOf(quad.loc) /\ plot[q].page = quad.loc.page
        BY <3>3 DEF Located, Slot, SlotOf
      <4> QED
        BY <3>1, <3>2, <4>1 DEF Used
    <3>6. /\ Located(quad.loc, q)' /\ Holds(q, quad.loc.at, quad.glyph)'
          /\ plot'[q].lastUse = NextDrawToken
      <4>1. SamePlace(q) /\ plot'[q].gen = plot[q].gen /\ Slot(q)' = Slot(q)
        BY <1>2, TaggingFacts, AtlasFacts DEF AtlasInv
      <4> QED
        BY <1>4, <3>3, <3>4, <3>5, <4>1 DEF Located, Holds, SamePlace
    <3>7. \A p \in Listed' : Slot(p)' = SlotOf(quad.loc) => p = q
      BY <1>4, <3>6, AtlasFacts DEF AtlasInv, Located
    <3> QED
      BY <1>4, <3>2, <3>6, <3>7 DEF Ready, Located
  <2>2. \A quad \in quads' : quad \in quads \/ \E i \in 1 .. Len(GlyphsOf[s]) :
          quad = [loc |-> texCoords[s][i], glyph |-> GlyphsOf[s][i], whole |-> whole(i)]
    BY <1>1 DEF Quads
  <2>3. ASSUME NEW quad \in quads', quad.whole PROVE Ready(quad)' /\ ~IsLapsed(quad.loc)'
    <3>1. CASE quad \in quads
      BY <1>1, <1>4, <2>3, <3>1 DEF AtlasInv, QuadsRight, IsLapsed
    <3>2. CASE quad \notin quads
      <4>1. PICK i \in 1 .. Len(GlyphsOf[s]) :
              quad = [loc |-> texCoords[s][i], glyph |-> GlyphsOf[s][i], whole |-> whole(i)]
        BY <2>2, <3>2
      <4>2. whole(i) /\ quad.loc = texCoords[s][i] /\ quad.glyph = GlyphsOf[s][i]
        BY <2>3, <4>1, Zenon
      <4>3. s \notin broken /\ ~IsLapsed(quad.loc)
        BY <4>2
      <4> QED
        BY <1>1, <2>1, <4>2, <4>3 DEF IsLapsed
    <3> QED
      BY <3>1, <3>2
  <2> QED
    BY <1>1, <2>3 DEF QuadsRight
<1>13. TokensRight'
  <2>1. quads' # {}
    <3>1. 1 \in 0 + 1 .. Len(GlyphsOf[s])
      BY <1>6
    <3>2. [loc |-> texCoords[s][1], glyph |-> GlyphsOf[s][1], whole |-> whole(1)]
            \in Quads(s, texCoords[s], 0, Len(GlyphsOf[s]), s \notin broken)
      BY <3>1, Zenon DEF Quads
    <3> QED
      BY <1>1, <3>2
  <2> QED
    BY <1>1, <2>1 DEF TokensRight, DrawComes
<1> QED
  BY <1>4, <1>5, <1>9, <1>10, <1>11, <1>12, <1>13 DEF AtlasInv

LEMMA NextSubRunKeeps ==
  ASSUME AtlasInv, NEW s \in SubRuns, NextSubRun(s)
  PROVE  AtlasInv'
<1>1. /\ pc \in {"idle", "op"} /\ left.subRuns > 0 /\ Regenerate(s, 0) /\ current' = s
      /\ left' = [left EXCEPT !.subRuns = @ - 1]
  BY DEF NextSubRun
<1>2. left \in [subRuns : 0 .. MaxSubRuns, flushes : Nat, bails : Nat] /\ left.subRuns \in 0 .. MaxSubRuns
  BY DEF AtlasInv, OpTypes
<1>3. left' \in [subRuns : 0 .. MaxSubRuns, flushes : Nat, bails : Nat] /\ left'.subRuns = left.subRuns - 1
  <2>1. left.subRuns - 1 \in 0 .. MaxSubRuns
    BY <1>1, <1>2, Numbers
  <2> QED
    BY <1>1, <1>2, <2>1
<1>4. Live' = Live
  <2>1. CASE subRunGeneration[s] # fAtlasGeneration
    <3>1. Tagging({})
      BY <1>1, <2>1, Untouched DEF Regenerate, atlasVars, giveUpVars
    <3> QED
      BY <1>1, <3>1, TaggingGoesOn DEF Prepares
  <2>2. CASE subRunGeneration[s] = fAtlasGeneration
    <3>1. Tagging(Used(s))
      BY <1>1, <2>2, SetUseTokensTags DEF Regenerate, giveUpVars
    <3>2. Used(s) \in SUBSET Listed
      BY DEF Used
    <3> QED
      BY <1>1, <3>1, <3>2, TaggingGoesOn DEF Prepares
  <2> QED
    BY <2>1, <2>2
<1>5. PlotsLast'
  <2>1. Missing = 0 /\ Missing' \in 0 .. MaxGlyphs
    <3>1. pc' = "op" \/ (pc' = "placing" /\ placed' = 0 /\ current' = s)
      BY <1>1 DEF Regenerate
    <3>2. Len(GlyphsOf[s]) \in 1 .. MaxGlyphs /\ MaxGlyphs \in Nat
      BY MostGlyphs
    <3> QED
      BY <1>1, <3>1, <3>2 DEF Missing
  <2>2. Cardinality(Live) + Missing <= MaxPages * NumPlots + (MaxSubRuns - left.subRuns) * MaxGlyphs
    BY DEF AtlasInv, PlotsLast
  <2>3. Cardinality(Live) \in Nat
    <3>1. Live \subseteq PlotObjects
      BY AtlasFacts, UploadFacts DEF AtlasInv, Live
    <3> QED
      BY <3>1, Numbers, FS_Subset, FS_CardinalityType
  <2>4. /\ (MaxSubRuns - left'.subRuns) * MaxGlyphs
             = (MaxSubRuns - left.subRuns) * MaxGlyphs + MaxGlyphs
        /\ (MaxSubRuns - left.subRuns) * MaxGlyphs \in Nat /\ MaxPages * NumPlots \in Nat /\ MaxGlyphs \in Nat
    BY <1>1, <1>2, <1>3, OneMore, Numbers
  <2> DEFINE A == MaxPages * NumPlots
             B == (MaxSubRuns - left.subRuns) * MaxGlyphs
             C == (MaxSubRuns - left'.subRuns) * MaxGlyphs
             D == Cardinality(Live)
  <2>5. /\ A \in Nat /\ B \in Nat /\ C = B + MaxGlyphs /\ D \in Nat /\ D + Missing <= A + B
        /\ MaxGlyphs \in Nat
    BY <2>2, <2>3, <2>4
  <2> HIDE DEF A, B, C, D
  <2>6. D + Missing' <= A + C
    <3>1. \A m \in 0 .. MaxGlyphs : D + m <= A + C
      BY <2>1, <2>5
    <3> QED
      BY <2>1, <3>1
  <2> QED
    BY <1>4, <2>6 DEF PlotsLast, A, C, D
<1>6. CASE subRunGeneration[s] # fAtlasGeneration
  <2>1. 0 \in Nat
    OBVIOUS
  <2> QED
    BY <1>1, <1>3, <1>5, <1>6, <2>1, BeginsPlacing
<1>7. CASE subRunGeneration[s] = fAtlasGeneration
  BY <1>1, <1>3, <1>5, <1>7, UsesAgain
<1> QED
  BY <1>6, <1>7

LEMMA AgainKeeps ==
  ASSUME AtlasInv, Again
  PROVE  AtlasInv'
<1>1. pc = "again" /\ Regenerate(current, placed) /\ current' = current /\ left' = left
  BY DEF Again
<1>2. /\ current \in SubRuns /\ placed \in Nat /\ left \in [subRuns : 0 .. MaxSubRuns, flushes : Nat, bails : Nat]
      /\ subRunGeneration[current] # fAtlasGeneration
  BY <1>1 DEF AtlasInv, OpTypes, PlacingRight
<1>3. Tagging({})
  BY <1>1, <1>2, Untouched DEF Regenerate, atlasVars, giveUpVars
<1>4. Live' = Live
  BY <1>1, <1>3, TaggingGoesOn DEF Prepares
<1>5. PlotsLast'
  <2>1. Missing' = Missing
    BY <1>1, <1>2 DEF Missing, Regenerate
  <2> QED
    BY <1>1, <1>4, <2>1 DEF AtlasInv, PlotsLast
<1> QED
  BY <1>1, <1>2, <1>5, BeginsPlacing

(* The subrun has one more plot to tag, once.                              *)
LEMMA TagsAre ==
  ASSUME AtlasInv, pc \in {"placing", "again"}, NEW slot \in Slots, Tags(slot)
  PROVE  /\ fBulkUseToken' \in [SubRuns -> Seq(Slots)]
         /\ \A s \in SubRuns : \A i, j \in 1 .. Len(fBulkUseToken'[s]) :
              fBulkUseToken'[s][i] = fBulkUseToken'[s][j] => i = j
         /\ \A s \in SubRuns : s # current => fBulkUseToken'[s] = fBulkUseToken[s]
         /\ ToSet(fBulkUseToken'[current]) = ToSet(fBulkUseToken[current]) \union {slot}
<1> DEFINE b == fBulkUseToken[current]
           c == fBulkUseToken'[current]
<1>1. fBulkUseToken \in [SubRuns -> Seq(Slots)] /\ current \in SubRuns
  BY DEF AtlasInv, OpTypes
<1>2. b \in Seq(Slots) /\ IsOnce(b)
  BY <1>1, BulkIsOnce
<1>3. fBulkUseToken' = [fBulkUseToken EXCEPT ![current] =
                          IF slot \in ToSet(b) THEN b ELSE Append(b, slot)]
  BY DEF Tags
<1>4. /\ c = IF slot \in ToSet(b) THEN b ELSE Append(b, slot)
      /\ \A s \in SubRuns : s # current => fBulkUseToken'[s] = fBulkUseToken[s]
  BY <1>1, <1>3
<1> HIDE DEF b
<1>5. c \in Seq(Slots) /\ IsOnce(c) /\ ToSet(c) = ToSet(b) \union {slot}
  <2>1. CASE slot \in ToSet(b)
    BY <1>2, <1>4, <2>1
  <2>2. CASE slot \notin ToSet(b)
    <3> DEFINE a == Append(b, slot)
    <3>1. /\ a \in Seq(Slots) /\ Len(a) = Len(b) + 1 /\ a[Len(b) + 1] = slot
          /\ \A i \in 1 .. Len(b) : a[i] = b[i]
      BY <1>2, AppendProperties
    <3>2. /\ Len(b) \in Nat /\ DOMAIN b = 1 .. Len(b) /\ \A i \in 1 .. Len(b) : b[i] \in ToSet(b)
          /\ DOMAIN a = 1 .. Len(a)
      BY <1>2, <3>1, SeqSet
    <3> HIDE DEF a
    <3>3. DOMAIN a = (1 .. Len(b)) \union {Len(b) + 1}
      BY <3>1, <3>2
    <3>4. ToSet(a) = ToSet(b) \union {slot}
      BY <3>1, <3>2, <3>3 DEF ToSet
    <3>5. IsOnce(a)
      <4> SUFFICES ASSUME NEW i \in DOMAIN a, NEW j \in DOMAIN a, a[i] = a[j] PROVE i = j
        BY DEF IsOnce
      <4> QED
        BY <1>2, <2>2, <3>1, <3>2, <3>3 DEF IsOnce
    <3>6. c = a
      BY <1>4, <2>2 DEF a
    <3> QED
      BY <3>1, <3>4, <3>5, <3>6
  <2> QED
    BY <2>1, <2>2
<1>6. fBulkUseToken' \in [SubRuns -> Seq(Slots)]
  <2> HIDE DEF c
  <2>1. fBulkUseToken' = [fBulkUseToken EXCEPT ![current] = c]
    BY <1>3, <1>4
  <2> QED
    BY <1>1, <1>5, <2>1
<1>7. \A s \in SubRuns : \A i, j \in 1 .. Len(fBulkUseToken'[s]) :
        fBulkUseToken'[s][i] = fBulkUseToken'[s][j] => i = j
  <2> SUFFICES ASSUME NEW s \in SubRuns, NEW i \in 1 .. Len(fBulkUseToken'[s]),
                      NEW j \in 1 .. Len(fBulkUseToken'[s]),
                      fBulkUseToken'[s][i] = fBulkUseToken'[s][j]
               PROVE  i = j
    OBVIOUS
  <2>1. CASE s = current
    <3>1. DOMAIN c = 1 .. Len(c)
      BY <1>5, SeqSet
    <3> QED
      BY <1>5, <2>1, <3>1 DEF IsOnce
  <2>2. CASE s # current
    BY <1>4, <2>2 DEF AtlasInv, GenerationsRight
  <2> QED
    BY <2>1, <2>2
<1> QED
  BY <1>4, <1>5, <1>6, <1>7 DEF b, c

(* A glyph has been placed: what was placed before is still there.         *)
KeepsPlaced ==
  \A h \in Glyphs :
    /\ Good(locator[h])
    /\ SlotOf(locator[h]) \in ToSet(fBulkUseToken[current]) \/ fAtlasGeneration' = fAtlasGeneration
    => locator'[h] = locator[h] /\ Good(locator[h])'
KeepsReady == \A quad : Ready(quad) => Ready(quad)'
IsUsed(slot) ==
  \A p \in Listed' : Slot(p)' = slot \/ Slot(p)' \in ToSet(fBulkUseToken[current]) =>
    plot'[p].lastUse = NextDrawToken
NewGeneration ==
  \/ fGeneration' >= fGeneration /\ fAtlasGeneration' = fAtlasGeneration
  \/ fGeneration' > fGeneration /\ fAtlasGeneration' = fGeneration

IsPlaced(slot) ==
  \A h \in Glyphs : h = NextGlyph => Good(locator[h])' /\ SlotOf(locator[h])' = slot

LEMMA PlacesOne ==
  ASSUME AtlasInv, pc = "placing", placed < Len(GlyphsOf[current]), placed' = placed + 1,
         UNCHANGED <<fPrevFlushToken, tokenVars, fDraws, texture, subRunGeneration, texCoords,
                     broken, pc, current, begin, quads, left, giveUpVars>>,
         NEW slot \in Slots, Tags(slot), AtlasTypes',
         KeepsPlaced, KeepsReady, IsUsed(slot), NewGeneration, IsPlaced(slot)
  PROVE  OpTypes' /\ GenerationsRight' /\ PlacingRight' /\ QuadsRight' /\ TokensRight'
         /\ Missing' = Missing - 1 /\ Missing \in Nat /\ left' = left
<1>1. /\ current \in SubRuns /\ begin \in Nat /\ placed \in Nat /\ begin <= placed
      /\ OpTypes /\ GenerationsRight /\ PlacingRight /\ QuadsRight
  BY DEF AtlasInv, OpTypes
<1>2. /\ fBulkUseToken' \in [SubRuns -> Seq(Slots)]
      /\ \A s \in SubRuns : \A i, j \in 1 .. Len(fBulkUseToken'[s]) :
           fBulkUseToken'[s][i] = fBulkUseToken'[s][j] => i = j
      /\ \A s \in SubRuns : s # current => fBulkUseToken'[s] = fBulkUseToken[s]
      /\ ToSet(fBulkUseToken'[current]) = ToSet(fBulkUseToken[current]) \union {slot}
  BY TagsAre
<1>3. Len(GlyphsOf[current]) \in Nat /\ \A s \in SubRuns : \A i \in 1 .. Len(GlyphsOf[s]) : GlyphsOf[s][i] \in Glyphs
  BY <1>1, MostGlyphs
<1>4. placed + 1 \in 1 .. Len(GlyphsOf[current])
  BY <1>1, <1>3
<1>5. OpTypes'
  <2>1. placed' \in Nat /\ begin' <= placed' /\ placed' <= Len(GlyphsOf[current'])
    BY <1>1, <1>4
  <2> QED
    BY <1>1, <1>2, <2>1 DEF OpTypes
<1>6. /\ fGeneration \in Nat /\ fAtlasGeneration \in Nat /\ fGeneration' \in Nat
      /\ fAtlasGeneration' \in Nat /\ \A s \in SubRuns : subRunGeneration[s] \in Nat
  BY DEF AtlasInv, AtlasTypes, OpTypes
<1>7. GenerationsRight'
  <2>1. fAtlasGeneration' < fGeneration' /\ \A s \in SubRuns : subRunGeneration'[s] < fGeneration'
    BY <1>1, <1>6 DEF GenerationsRight, NewGeneration
  <2>2. ASSUME NEW s \in SubRuns \ broken', subRunGeneration'[s] = fAtlasGeneration',
               NEW i \in 1 .. Len(GlyphsOf[s])
        PROVE  /\ texCoords'[s][i] = locator'[GlyphsOf[s][i]]
               /\ Good(texCoords[s][i])'
               /\ SlotOf(texCoords'[s][i]) \in ToSet(fBulkUseToken'[s])
    <3>1. fAtlasGeneration' = fAtlasGeneration
      <4>1. subRunGeneration[s] < fGeneration /\ subRunGeneration[s] = fAtlasGeneration'
        BY <1>1, <2>2 DEF GenerationsRight
      <4> QED
        BY <1>6, <4>1 DEF NewGeneration
    <3>2. s \in SubRuns \ broken /\ subRunGeneration[s] = fAtlasGeneration
      BY <2>2, <3>1
    <3>3. s # current
      BY <1>1, <3>2 DEF PlacingRight
    <3>4. /\ texCoords[s][i] = locator[GlyphsOf[s][i]] /\ Good(texCoords[s][i])
          /\ SlotOf(texCoords[s][i]) \in ToSet(fBulkUseToken[s])
      BY <1>1, <3>2 DEF GenerationsRight
    <3>5. locator'[GlyphsOf[s][i]] = locator[GlyphsOf[s][i]] /\ Good(locator[GlyphsOf[s][i]])'
      BY <1>3, <3>1, <3>4 DEF KeepsPlaced
    <3>6. texCoords'[s][i] = texCoords[s][i] /\ fBulkUseToken'[s] = fBulkUseToken[s]
      BY <1>2, <3>3
    <3>7. texCoords'[s][i] = locator'[GlyphsOf[s][i]]
      BY <3>4, <3>5, <3>6
    <3>8. Good(texCoords[s][i])'
      BY <3>5, <3>7
    <3> QED
      BY <3>4, <3>5, <3>6, <3>7, <3>8
  <2> QED
    BY <1>2, <2>1, <2>2 DEF GenerationsRight
<1>8. PlacingRight'
  <2>1. subRunGeneration'[current'] # fAtlasGeneration'
    <3>1. subRunGeneration[current] # fAtlasGeneration /\ subRunGeneration[current] < fGeneration
      BY <1>1 DEF PlacingRight, GenerationsRight
    <3> QED
      BY <1>1, <1>6, <3>1 DEF NewGeneration
  <2>2. begin' # 0 => current' \in broken'
    BY <1>1 DEF PlacingRight
  <2>3. \A p \in Listed' : Slot(p)' \in ToSet(fBulkUseToken'[current']) =>
          plot'[p].lastUse = NextDrawToken'
    <3>1. NextDrawToken' = NextDrawToken
      BY DEF tokenVars, NextDrawToken
    <3>2. \A p \in Listed' : Slot(p)' \in ToSet(fBulkUseToken[current]) \union {slot} =>
            plot'[p].lastUse = NextDrawToken
      BY DEF IsUsed
    <3> QED
      BY <1>2, <3>1, <3>2
  <2>4. ASSUME NEW i \in begin' + 1 .. placed'
        PROVE  /\ Good(locator[GlyphsOf[current][i]])'
               /\ SlotOf(locator'[GlyphsOf[current'][i]]) \in ToSet(fBulkUseToken'[current'])
    <3>1. i \in Nat /\ i <= placed + 1 /\ i >= begin + 1
      BY <1>1, <2>4
    <3>2. CASE i = placed + 1
      <4> DEFINE g == GlyphsOf[current][i]
      <4>1. g = NextGlyph /\ g \in Glyphs /\ current' = current
        BY <1>1, <1>3, <1>4, <3>2 DEF NextGlyph
      <4>2. Good(locator[g])' /\ SlotOf(locator'[g]) = slot
        BY <4>1 DEF IsPlaced
      <4> QED
        BY <1>2, <4>1, <4>2
    <3>3. CASE i # placed + 1
      <4> DEFINE g == GlyphsOf[current][i]
      <4>1. i \in begin + 1 .. placed /\ i \in 1 .. Len(GlyphsOf[current])
        BY <1>1, <1>3, <1>4, <3>1, <3>3
      <4>2. g \in Glyphs /\ Good(locator[g]) /\ SlotOf(locator[g]) \in ToSet(fBulkUseToken[current])
        BY <1>1, <1>3, <4>1 DEF PlacingRight
      <4>3. locator'[g] = locator[g] /\ Good(locator[g])'
        BY <4>2 DEF KeepsPlaced
      <4>4. current' = current
        OBVIOUS
      <4> QED
        BY <1>2, <4>2, <4>3, <4>4
    <3> QED
      BY <3>2, <3>3
  <2> QED
    BY <2>1, <2>2, <2>3, <2>4 DEF PlacingRight
<1>9. QuadsRight'
  BY <1>1 DEF QuadsRight, KeepsReady, IsLapsed, giveUpVars
<1>10. TokensRight'
  <2>1. begin' < placed'
    BY <1>1
  <2> QED
    BY <2>1 DEF TokensRight, DrawComes
<1>11. Missing' = Missing - 1 /\ Missing \in Nat
  BY <1>1, <1>3, <1>4 DEF Missing
<1> QED
  BY <1>5, <1>7, <1>8, <1>9, <1>10, <1>11

LEMMA NextGlyphIs ==
  ASSUME AtlasInv, pc = "placing", placed < Len(GlyphsOf[current])
  PROVE  /\ current \in SubRuns /\ NextGlyph \in Glyphs
         /\ locator[NextGlyph] \in Locators \union {None}
         /\ HasGlyph <=> Good(locator[NextGlyph])
         /\ HasGlyph => SlotOf(locator[NextGlyph]) \in Slots
<1>1. current \in SubRuns /\ placed \in Nat
  BY DEF AtlasInv, OpTypes
<1>2. NextGlyph \in Glyphs
  <2>1. placed + 1 \in 1 .. Len(GlyphsOf[current])
    BY <1>1, MostGlyphs
  <2> QED
    BY <1>1, <2>1, MostGlyphs DEF NextGlyph
<1>3. locator[NextGlyph] \in Locators \union {None} /\ AtlasTypes /\ ListsRight
  BY <1>2 DEF AtlasInv, AtlasTypes
<1>4. /\ HasID(locator[NextGlyph]) <=> Good(locator[NextGlyph])
      /\ locator[NextGlyph] # None => SlotOf(locator[NextGlyph]) \in Slots
  BY <1>3, GoodIs
<1> QED
  BY <1>1, <1>2, <1>3, <1>4 DEF HasGlyph, Good

LEMMA PlaceKnownKeeps ==
  ASSUME AtlasInv, PlaceKnown
  PROVE  AtlasInv' /\ \E T \in SUBSET Listed : Tagging(T)
<1> DEFINE loc == locator[NextGlyph]
           slot == SlotOf(loc)
           p == PlotAt(slot)
<1>1. /\ pc = "placing" /\ placed < Len(GlyphsOf[current]) /\ HasGlyph
      /\ IF slot \in ToSet(fBulkUseToken[current])
         THEN UNCHANGED <<plot, fPlotList, fBulkUseToken>>
         ELSE /\ plot' = [plot EXCEPT ![p].lastUse = NextDrawToken]
              /\ fPlotList' = [fPlotList EXCEPT ![slot[1]] = MadeMRU(@, <<p>>)]
              /\ Tags(slot)
      /\ placed' = placed + 1
      /\ UNCHANGED <<fNumActivePages, fGeneration, fAtlasGeneration, fPrevFlushToken, tokenVars,
                     uploadVars, fDraws, texture, locator, subRunGeneration, texCoords, broken,
                     pc, current, begin, quads, left, giveUpVars>>
  BY DEF PlaceKnown, SlotOf
<1>2. current \in SubRuns /\ NextGlyph \in Glyphs /\ Good(loc) /\ slot \in Slots
  BY <1>1, NextGlyphIs
<1>3. /\ AtlasTypes /\ ListsRight /\ plot \in PlotMaps /\ fPlotList \in ListMaps
      /\ ListsAre(plot, fPlotList) /\ fBulkUseToken \in [SubRuns -> Seq(Slots)] /\ Prepares
  BY <1>1 DEF AtlasInv, AtlasTypes, ListsRight, OpTypes, Prepares
<1>4. p \in Listed /\ Slot(p) = slot /\ p \in PlotObjects
  BY <1>2, <1>3, AtlasFacts
<1> HIDE DEF loc, slot, p
<1>5. Tags(slot)
  BY <1>1, <1>3 DEF Tags
<1>6. \E T \in SUBSET Listed : Tagging(T) /\ (slot \in ToSet(fBulkUseToken[current]) \/ p \in T)
  <2>1. CASE slot \in ToSet(fBulkUseToken[current])
    <3>1. Tagging({})
      BY <1>1, <2>1, Untouched DEF atlasVars, giveUpVars
    <3> QED
      BY <2>1, <3>1
  <2>2. CASE slot \notin ToSet(fBulkUseToken[current])
    <3>1. plot' = [q \in PlotObjects |->
                     IF q \in {p} THEN [plot[q] EXCEPT !.lastUse = NextDrawToken] ELSE plot[q]]
      BY <1>1, <1>3, <1>4, <2>2 DEF PlotMaps
    <3>2. slot[1] = plot[p].page
      BY <1>4 DEF Slot
    <3>3. fPlotList' = [fPlotList EXCEPT ![plot[p].page] = MadeMRU(@, <<p>>)]
      BY <1>1, <2>2, <3>2
    <3>4. p \in ListedIn(fPlotList) /\ InPlace(fPlotList, plot, plot)
      BY <1>3, <1>4, AtlasFacts DEF Listed, ListedIn, InPlace
    <3>5. fPlotList' \in ListMaps /\ Rearranged(fPlotList, fPlotList')
      BY <1>3, <3>3, <3>4, MovedFirst
    <3>6. Tagging({p})
      BY <1>1, <3>1, <3>5 DEF Tagging, giveUpVars
    <3> QED
      BY <1>4, <3>6
  <2> QED
    BY <2>1, <2>2
<1>7. PICK T \in SUBSET Listed : Tagging(T) /\ (slot \in ToSet(fBulkUseToken[current]) \/ p \in T)
  BY <1>6
<1>8. /\ AtlasTypes' /\ ListsRight' /\ RecordsRight' /\ LocatorsRight' /\ DrawsRight'
      /\ TextureRight' /\ UploadsRight' /\ ScheduleRight'
      /\ Live' = Live /\ Listed' = Listed /\ Uploads' = Uploads /\ NextDrawToken' = NextDrawToken
      /\ \A quad : Ready(quad) => Ready(quad)'
      /\ \A l : Good(l)' <=> Good(l)
      /\ \A q \in Listed : /\ Slot(q)' = Slot(q)
                           /\ plot'[q].lastUse = IF q \in T THEN NextDrawToken ELSE plot[q].lastUse
  BY <1>3, <1>7, TaggingGoesOn
<1>9. TokenTypes'
  BY <1>1 DEF AtlasInv, TokenTypes, tokenVars, uploadVars
<1>10. locator' = locator
  BY <1>1
<1>11. KeepsPlaced /\ KeepsReady /\ NewGeneration
  BY <1>1, <1>3, <1>8, <1>10 DEF KeepsPlaced, KeepsReady, NewGeneration, AtlasTypes
<1>12. IsUsed(slot)
  <2> SUFFICES ASSUME NEW q \in Listed,
                      Slot(q) = slot \/ Slot(q) \in ToSet(fBulkUseToken[current])
               PROVE  plot'[q].lastUse = NextDrawToken
    BY <1>8 DEF IsUsed
  <2>1. CASE q \in T
    BY <1>8, <2>1
  <2>2. CASE q \notin T
    <3>1. Slot(q) \in ToSet(fBulkUseToken[current])
      <4>1. Slot(q) = slot => q = p
        BY <1>3, <1>4, AtlasFacts
      <4> QED
        BY <1>7, <2>2, <4>1
    <3>2. plot[q].lastUse = NextDrawToken
      BY <1>1, <3>1 DEF AtlasInv, PlacingRight
    <3> QED
      BY <1>8, <2>2, <3>2
  <2> QED
    BY <2>1, <2>2
<1>13. IsPlaced(slot)
  <2>1. \A h \in Glyphs : h = NextGlyph => Good(locator[h]) /\ SlotOf(locator[h]) = slot
    BY <1>2 DEF loc, slot
  <2> QED
    BY <1>8, <1>10, <2>1 DEF IsPlaced
<1>14. /\ OpTypes' /\ GenerationsRight' /\ PlacingRight' /\ QuadsRight' /\ TokensRight'
       /\ Missing' = Missing - 1 /\ Missing \in Nat /\ left' = left
  BY <1>1, <1>2, <1>5, <1>8, <1>11, <1>12, <1>13, PlacesOne
<1>15. PlotsLast'
  <2>1. Cardinality(Live) \in Nat
    <3>1. Live \subseteq PlotObjects
      BY AtlasFacts, UploadFacts DEF AtlasInv, Live
    <3> QED
      BY <3>1, Numbers, FS_Subset, FS_CardinalityType
  <2> DEFINE B == (MaxSubRuns - left.subRuns) * MaxGlyphs
  <2>2. Cardinality(Live) + Missing <= MaxPages * NumPlots + B
    BY DEF AtlasInv, PlotsLast
  <2>3. MaxPages * NumPlots \in Nat /\ B \in Int
    <3>1. left.subRuns \in Nat
      BY DEF AtlasInv, OpTypes
    <3> QED
      BY <3>1, Numbers
  <2> DEFINE A == MaxPages * NumPlots
             D == Cardinality(Live)
  <2> HIDE DEF A, B, D
  <2>4. D + (Missing - 1) <= A + B
    BY <1>14, <2>1, <2>2, <2>3 DEF A, D
  <2> QED
    BY <1>8, <1>14, <2>4 DEF PlotsLast, A, B, D
<1>16. AtlasInv'
  BY <1>8, <1>9, <1>14, <1>15 DEF AtlasInv
<1> QED
  BY <1>7, <1>16
-----------------------------------------------------------------------------
(* A glyph is added to a plot, as it is or emptied, before all draws.      *)
Grows(p, record) ==
  /\ record = plot[p] /\ HasRoom(p)
  /\ UNCHANGED <<fGeneration, fAtlasGeneration>>
Restarts(p, record) ==
  /\ record = ResetRects(plot[p], fGeneration + 1) /\ plot[p].lastUse < NextTokenToFlush
  /\ ProcessEviction

LEMMA ResetIs ==
  ASSUME NEW record \in Records, NEW gen \in Nat \ {0}
  PROVE  LET reset == ResetRects(record, gen)
         IN /\ reset \in Records /\ reset.page = record.page /\ reset.index = record.index
            /\ reset.glyphs = <<>> /\ reset.clean = 0 /\ reset.gen = gen
            /\ reset.lastUpload = 0 /\ reset.lastUse = 0
<1>1. <<>> \in Seq(Glyphs)
  OBVIOUS
<1> QED
  BY <1>1 DEF ResetRects, Plot, AlreadyFlushed, Records

LEMMA TakesFacts ==
  ASSUME AtlasInv, pc = "placing", NEW p \in Listed, NEW record,
         Grows(p, record) \/ Restarts(p, record)
  PROVE  /\ record \in Records
         /\ record.page = plot[p].page /\ record.index = plot[p].index
         /\ Len(record.glyphs) \in Nat /\ Len(record.glyphs) < Room
         /\ record.clean <= Len(record.glyphs)
         /\ record.gen < fGeneration' /\ fGeneration' \in Nat /\ fAtlasGeneration' \in Nat
         /\ fGeneration <= fGeneration' /\ NewGeneration
         /\ record.lastUpload <= NextDrawToken
         /\ \A i \in 1 .. record.clean : texture[Slot(p)][i] = record.glyphs[i]
         /\ p \in Pending => UploadIsScheduled(record) /\ Grows(p, record)
         /\ UploadIsScheduled(record) => p \in Pending \/ record.gen \in lapsed
         /\ p \notin Pending => record.gen \in lapsed \/ record.clean = Len(record.glyphs)
         /\ Restarts(p, record) => Slot(p) \notin ToSet(fBulkUseToken[current])
         /\ Slot(p) \in ToSet(fBulkUseToken[current]) => record.lastUse = NextDrawToken
<1>1. /\ AtlasTypes /\ TokenTypes /\ ListsRight /\ UploadsRight /\ ScheduleRight /\ RecordsRight
      /\ TextureRight /\ PlacingRight /\ GenerationsRight /\ Prepares
  BY DEF AtlasInv, Prepares
<1>2. p \in PlotObjects /\ plot[p] \in Records /\ Slot(p) \in Slots
  BY <1>1, AtlasFacts
<1>3. /\ NextDrawToken \in Nat /\ NextTokenToFlush \in Nat \ {0} /\ NextTokenToFlush <= NextDrawToken
      /\ Pending = {u.plot : u \in Uploads}
  <2>1. NextTokenToFlush # 0
    BY <1>1 DEF NextTokenToFlush, TokenTypes
  <2> QED
    BY <1>1, <2>1, UploadFacts
<1>4. p \in Live
  BY DEF Live
<1>5. fGeneration \in Nat /\ fAtlasGeneration \in Nat /\ fAtlasGeneration < fGeneration
  BY <1>1 DEF AtlasTypes, GenerationsRight
<1>6. /\ Len(plot[p].glyphs) <= Room /\ plot[p].clean <= Len(plot[p].glyphs)
      /\ plot[p].gen < fGeneration /\ plot[p].lastUpload <= NextDrawToken
      /\ plot[p].glyphs \in Seq(Glyphs) /\ Len(plot[p].glyphs) \in Nat
      /\ plot[p].lastUse \in Nat /\ plot[p].lastUpload \in Nat
  <2>1. plot[p].glyphs \in Seq(Glyphs) /\ plot[p].lastUse \in Nat /\ plot[p].lastUpload \in Nat
    BY <1>2 DEF Records
  <2> QED
    BY <1>1, <1>4, <2>1, SeqSet DEF RecordsRight
<1>7. ASSUME p \in Pending
      PROVE  NextTokenToFlush <= plot[p].lastUse /\ NextTokenToFlush <= plot[p].lastUpload
  <2>1. PICK u \in Uploads : u.plot = p
    BY <1>3, <1>7
  <2> QED
    BY <1>1, <2>1 DEF ScheduleRight
<1>8. Slot(p) \in ToSet(fBulkUseToken[current]) => plot[p].lastUse = NextDrawToken
  BY <1>1 DEF PlacingRight
<1>9. CASE Grows(p, record)
  <2>1. /\ record = plot[p] /\ Len(plot[p].glyphs) < Room
        /\ fGeneration' = fGeneration /\ fAtlasGeneration' = fAtlasGeneration
    BY <1>9 DEF Grows, HasRoom
  <2>2. ~Restarts(p, record)
    BY <1>5, <2>1 DEF Restarts, ProcessEviction
  <2>3. /\ p \in Pending => UploadIsScheduled(record)
        /\ UploadIsScheduled(record) => p \in Pending \/ plot[p].gen \in lapsed
    BY <1>1, <1>3, <1>6, <1>7, <2>1 DEF UploadIsScheduled, ScheduleRight
  <2>4. \A i \in 1 .. plot[p].clean : texture[Slot(p)][i] = plot[p].glyphs[i]
    BY <1>1 DEF TextureRight
  <2>5. p \notin Pending => plot[p].gen \in lapsed \/ plot[p].clean = Len(plot[p].glyphs)
    BY <1>1 DEF TextureRight
  <2>6. NewGeneration
    BY <1>5, <2>1 DEF NewGeneration
  <2> QED
    BY <1>2, <1>5, <1>6, <1>8, <1>9, <2>1, <2>2, <2>3, <2>4, <2>5, <2>6
<1>10. CASE Restarts(p, record)
  <2>1. /\ record = ResetRects(plot[p], fGeneration + 1) /\ plot[p].lastUse < NextTokenToFlush
        /\ fGeneration' = fGeneration + 2 /\ fAtlasGeneration' = fGeneration
    BY <1>10 DEF Restarts, ProcessEviction
  <2>2. fGeneration + 1 \in Nat \ {0}
    BY <1>5
  <2>3. /\ record \in Records /\ record.page = plot[p].page /\ record.index = plot[p].index
        /\ record.glyphs = <<>> /\ record.clean = 0 /\ record.gen = fGeneration + 1
        /\ record.lastUpload = 0 /\ record.lastUse = 0
    BY <1>2, <2>1, <2>2, ResetIs
  <2>4. p \notin Pending
    BY <1>3, <1>6, <1>7, <2>1
  <2>5. ~UploadIsScheduled(record)
    BY <1>3, <2>3 DEF UploadIsScheduled
  <2>6. Slot(p) \notin ToSet(fBulkUseToken[current])
    BY <1>3, <1>6, <1>8, <2>1
  <2>7. NewGeneration
    BY <1>5, <2>1 DEF NewGeneration
  <2>8. Len(record.glyphs) = 0 /\ Room \in Nat \ {0}
    BY <2>3, Numbers
  <2> QED
    BY <1>3, <1>5, <2>1, <2>3, <2>4, <2>5, <2>6, <2>7, <2>8
<1> QED
  BY <1>9, <1>10

(* What addSubImage() and updatePlot() do to the plot and to the uploads.  *)
Adds(g, p, record) ==
  /\ p \in PlotObjects /\ plot'[p] \in Records
  /\ \A q \in PlotObjects : q # p => plot'[q] = plot[q]
  /\ plot'[p].page = plot[p].page /\ plot'[p].index = plot[p].index
  /\ plot'[p].glyphs = Append(record.glyphs, g)
  /\ plot'[p].clean = record.clean /\ plot'[p].gen = record.gen
  /\ plot'[p].lastUse = NextDrawToken
  /\ plot'[p].lastUpload =
       IF UploadIsScheduled(record) THEN record.lastUpload ELSE NextTokenToFlush
  /\ Listed' = Listed /\ Live' = Live
  /\ Pending' = IF UploadIsScheduled(record) THEN Pending ELSE Pending \union {p}
  /\ \A q \in PlotObjects : Slot(q)' = Slot(q)
  /\ Uploads' = IF UploadIsScheduled(record) THEN Uploads
                ELSE Uploads \union {[plot |-> p, before |-> 0]}
  /\ NextDrawToken' = NextDrawToken /\ NextTokenToFlush' = NextTokenToFlush
  /\ fInlineUploads' = fInlineUploads

LEMMA AddsFacts ==
  ASSUME AtlasInv, pc = "placing", NEW p \in Listed, NEW record,
         Grows(p, record) \/ Restarts(p, record),
         NEW g \in Glyphs, AddASAP(g, p, record), UNCHANGED tokenVars
  PROVE  /\ Adds(g, p, record)
         /\ plot' \in PlotMaps /\ fPlotList' \in ListMaps /\ ListsRight'
         /\ fASAPUploads' \in Seq(PlotObjects)
         /\ fASAPUploads' =
              IF UploadIsScheduled(record) THEN fASAPUploads ELSE Append(fASAPUploads, p)
         /\ Tags(Slot(p)) /\ Slot(p) \in Slots
<1>1. /\ AtlasTypes /\ TokenTypes /\ ListsRight /\ UploadsRight /\ plot \in PlotMaps
      /\ fPlotList \in ListMaps /\ ListsAre(plot, fPlotList)
      /\ fASAPUploads \in Seq(PlotObjects) /\ fInlineUploads \in Seq(UploadRecords)
  BY DEF AtlasInv, ListsRight, AtlasTypes, TokenTypes
<1>2. p \in PlotObjects /\ plot[p] \in Records /\ Slot(p) \in Slots
  BY <1>1, AtlasFacts
<1>3. /\ record \in Records /\ record.page = plot[p].page /\ record.index = plot[p].index
      /\ Len(record.glyphs) \in Nat
      /\ Slot(p) \in ToSet(fBulkUseToken[current]) => record.lastUse = NextDrawToken
  BY TakesFacts
<1>4. /\ NextDrawToken \in Nat /\ NextTokenToFlush \in Nat
      /\ Pending = {u.plot : u \in Uploads} /\ Pending \subseteq PlotObjects
  BY <1>1, UploadFacts
<1>5. <<record.page, record.index>> = Slot(p)
  BY <1>3 DEF Slot
<1> DEFINE up == IF UploadIsScheduled(record) THEN record.lastUpload ELSE NextTokenToFlush
           full == [record EXCEPT !.glyphs = Append(@, g), !.lastUpload = up]
<1>6. plot' = [plot EXCEPT ![p] = Tagged(full)]
  BY Zenon DEF AddASAP
<1>7. /\ full \in Records /\ full.page = record.page /\ full.index = record.index
      /\ full.glyphs = Append(record.glyphs, g) /\ full.clean = record.clean
      /\ full.gen = record.gen /\ full.lastUse = record.lastUse /\ full.lastUpload = up
  <2>1. Append(record.glyphs, g) \in Seq(Glyphs) /\ up \in Nat
    <3>1. record.glyphs \in Seq(Glyphs) /\ record.lastUpload \in Nat
      BY <1>3 DEF Records
    <3> QED
      BY <1>4, <3>1, AppendProperties
  <2> QED
    BY <1>3, <2>1 DEF Records
<1> HIDE DEF full, up
<1>8. LET t == Tagged(full)
      IN /\ t \in Records /\ t.page = record.page /\ t.index = record.index
         /\ t.glyphs = Append(record.glyphs, g) /\ t.clean = record.clean
         /\ t.gen = record.gen /\ t.lastUse = NextDrawToken /\ t.lastUpload = up
  <2>1. <<full.page, full.index>> = Slot(p)
    BY <1>5, <1>7
  <2>2. CASE Slot(p) \in ToSet(fBulkUseToken[current])
    <3>1. Tagged(full) = full
      BY <2>1, <2>2 DEF Tagged
    <3> QED
      BY <1>3, <1>7, <2>2, <3>1
  <2>3. CASE Slot(p) \notin ToSet(fBulkUseToken[current])
    <3>1. Tagged(full) = [full EXCEPT !.lastUse = NextDrawToken]
      BY <2>1, <2>3 DEF Tagged
    <3> QED
      BY <1>4, <1>7, <3>1 DEF Records
  <2> QED
    BY <2>2, <2>3
<1>9. plot'[p] = Tagged(full) /\ \A q \in PlotObjects : q # p => plot'[q] = plot[q]
  BY <1>1, <1>2, <1>6 DEF PlotMaps
<1>10. plot' \in PlotMaps
  BY <1>1, <1>2, <1>6, <1>8 DEF PlotMaps
<1>11. \A q \in PlotObjects : Slot(q)' = Slot(q)
  BY <1>3, <1>8, <1>9 DEF Slot
<1>12. Listed = ListedIn(fPlotList) /\ Listed' = ListedIn(fPlotList')
  BY DEF Listed, ListedIn
<1>13. InPlace(fPlotList, plot, plot')
  <2>1. ASSUME NEW q \in Listed
        PROVE  plot'[q] # None /\ plot'[q].page = plot[q].page /\ plot'[q].index = plot[q].index
    <3>1. q \in PlotObjects /\ plot[q] # None
      BY <1>1, AtlasFacts
    <3>2. None \notin Records
      BY Numbers
    <3> QED
      BY <1>3, <1>8, <1>9, <3>1, <3>2
  <2> QED
    BY <1>12, <2>1 DEF InPlace
<1>14. fPlotList' = [fPlotList EXCEPT ![plot[p].page] = MadeMRU(@, <<p>>)]
  BY <1>3 DEF AddASAP
<1>15. /\ fPlotList' \in ListMaps /\ ListsAre(plot', fPlotList')
       /\ ListedIn(fPlotList') = ListedIn(fPlotList)
  <2>1. p \in ListedIn(fPlotList)
    BY <1>12
  <2>2. plot \in PlotMaps /\ fPlotList \in ListMaps /\ ListsAre(plot, fPlotList)
    BY <1>1
  <2>3. InPlace(fPlotList, plot, plot)
    BY <1>1, <1>12, AtlasFacts DEF InPlace
  <2>4. fPlotList' \in ListMaps /\ Rearranged(fPlotList, fPlotList')
    BY <1>14, <2>1, <2>2, <2>3, MovedFirst
  <2> QED
    BY <1>13, <2>2, <2>4, Relisted
<1>16. /\ fASAPUploads' =
            IF UploadIsScheduled(record) THEN fASAPUploads ELSE Append(fASAPUploads, p)
       /\ fInlineUploads' = fInlineUploads
  BY <1>3 DEF AddASAP
<1>17. fASAPUploads' \in Seq(PlotObjects)
  BY <1>1, <1>2, <1>16, AppendProperties
<1>18. Uploads' = IF UploadIsScheduled(record) THEN Uploads
                  ELSE Uploads \union {[plot |-> p, before |-> 0]}
  <2>1. UploadsIn(Append(fASAPUploads, p), fInlineUploads)
          = UploadsIn(fASAPUploads, fInlineUploads) \union {[plot |-> p, before |-> 0]}
    <3>1. [plot |-> p, before |-> 0] \in UploadRecords
      BY <1>2 DEF UploadRecords
    <3> QED
      BY <1>1, <1>2, <3>1, UploadsAppend
  <2> QED
    BY <1>16, <2>1 DEF Uploads
<1>19. Pending' = IF UploadIsScheduled(record) THEN Pending ELSE Pending \union {p}
  <2>1. Pending' = {u.plot : u \in Uploads'}
    BY PendingIs DEF Pending, Uploads
  <2> DEFINE r == [plot |-> p, before |-> 0]
  <2>2. r.plot = p
    OBVIOUS
  <2>3. CASE UploadIsScheduled(record)
    BY <1>4, <1>18, <2>1, <2>3
  <2>4. CASE ~UploadIsScheduled(record)
    <3>1. Uploads' = Uploads \union {r}
      BY <1>18, <2>4
    <3> HIDE DEF r
    <3>2. {u.plot : u \in Uploads'} = {u.plot : u \in Uploads} \union {p}
      BY <2>2, <3>1
    <3> QED
      BY <1>4, <2>1, <2>4, <3>2
  <2> QED
    BY <2>3, <2>4
<1>20. Listed' = Listed /\ Live' = Live
  BY <1>12, <1>15, <1>19 DEF Live
<1>21. NextDrawToken' = NextDrawToken /\ NextTokenToFlush' = NextTokenToFlush
  BY DEF tokenVars, NextDrawToken, NextTokenToFlush
<1>22. Tags(Slot(p))
  BY <1>5 DEF AddASAP
<1>23. Adds(g, p, record)
  BY <1>2, <1>3, <1>8, <1>9, <1>11, <1>16, <1>18, <1>19, <1>20, <1>21 DEF Adds, up
<1> QED
  BY <1>2, <1>10, <1>15, <1>16, <1>17, <1>22, <1>23 DEF ListsRight

(* Where the glyphs are then.                                              *)
Widens(p) ==
  /\ fNumActivePages' \in 0 .. MaxPages /\ fNumActivePages <= fNumActivePages'
  /\ plot[p].page <= fNumActivePages'

LEMMA AddsGood ==
  ASSUME AtlasInv, pc = "placing", NEW p \in Listed, NEW record,
         Grows(p, record) \/ Restarts(p, record),
         NEW g \in Glyphs, ~Good(locator[g]),
         AddASAP(g, p, record), UNCHANGED tokenVars, Widens(p)
  PROVE  /\ locator' \in [Glyphs -> Locators \union {None}]
         /\ LocatorsRight' /\ KeepsPlaced /\ IsUsed(Slot(p))
         /\ Good(locator[g])' /\ SlotOf(locator[g])' = Slot(p)
<1>1. /\ AtlasTypes /\ ListsRight /\ locator \in [Glyphs -> Locators \union {None}]
      /\ LocatorsRight /\ GenerationsRight /\ PlacingRight
  BY DEF AtlasInv, AtlasTypes
<1>2. /\ record \in Records /\ record.page = plot[p].page /\ record.index = plot[p].index
      /\ Len(record.glyphs) \in Nat /\ Len(record.glyphs) < Room
      /\ record.gen < fGeneration' /\ fGeneration' \in Nat /\ fGeneration <= fGeneration'
      /\ Restarts(p, record) => Slot(p) \notin ToSet(fBulkUseToken[current])
  BY TakesFacts
<1>3. Adds(g, p, record)
  BY AddsFacts
<1>4. /\ p \in PlotObjects /\ Listed \subseteq PlotObjects /\ \A q \in Listed : Slot(q) = Slot(p) => q = p
      /\ plot[p].page \in Pages /\ plot[p].gen < fGeneration /\ fGeneration \in Nat
      /\ \A q \in Listed : plot[q].page \in Pages
  BY <1>1, AtlasFacts DEF AtlasInv, RecordsRight, Live, AtlasTypes
<1> DEFINE loc == LocatorIn(record)
           n == Len(record.glyphs)
<1>5. /\ loc \in Locators /\ SlotOf(loc) = Slot(p) /\ loc.at = n + 1 /\ loc.gen = record.gen
      /\ loc.page = plot[p].page /\ loc # None
  <2>1. n + 1 \in 1 .. Room
    BY <1>2, Numbers
  <2>2. loc \in Locators /\ loc.at = n + 1 /\ loc.gen = record.gen /\ loc.page = plot[p].page
        /\ loc.index = plot[p].index
    BY <1>2, <2>1 DEF LocatorIn, Locators, Records
  <2> QED
    BY <2>2, Numbers DEF SlotOf, Slot
<1>6. locator' = [locator EXCEPT ![g] = loc]
  BY DEF AddASAP
<1> HIDE DEF loc
<1>7. /\ locator'[g] = loc /\ \A h \in Glyphs : h # g => locator'[h] = locator[h]
  BY <1>1, <1>6
<1>8. locator' \in [Glyphs -> Locators \union {None}]
  BY <1>1, <1>5, <1>6
<1>9. Located(loc, p)' /\ Holds(p, n + 1, g)'
  <2>1. /\ plot'[p].glyphs = Append(record.glyphs, g) /\ plot'[p].gen = record.gen
        /\ Slot(p)' = Slot(p) /\ p \in Listed'
    BY <1>3, <1>4 DEF Adds
  <2>2. record.glyphs \in Seq(Glyphs)
    BY <1>2 DEF Records
  <2>3. Len(Append(record.glyphs, g)) = n + 1 /\ Append(record.glyphs, g)[n + 1] = g
    BY <2>2, AppendProperties
  <2>4. Located(loc, p)'
    <3>1. loc' = loc => Located(loc, p)'
      BY <1>5, <2>1 DEF Located
    <3>2. loc' = loc
      BY DEF loc, LocatorIn
    <3> QED
      BY <3>1, <3>2
  <2> QED
    BY <1>2, <2>1, <2>3, <2>4 DEF Holds
<1>10. ASSUME NEW q \in Listed, q # p
       PROVE  /\ \A l : Located(l, q)' <=> Located(l, q)
              /\ \A at, h : Holds(q, at, h)' <=> Holds(q, at, h)
              /\ plot'[q] = plot[q]
  <2>1. plot'[q] = plot[q] /\ Slot(q)' = Slot(q) /\ Listed' = Listed
    BY <1>3, <1>4, <1>10 DEF Adds
  <2> QED
    BY <2>1 DEF Located, Holds
<1>11. ASSUME NEW h \in Glyphs, h # g, locator'[h] # None
       PROVE  /\ locator'[h] = locator[h] /\ locator[h].gen < fGeneration'
              /\ \A q \in Listed : Located(locator[h], q)' => Holds(q, locator[h].at, h)'
  <2>1. locator'[h] = locator[h] /\ locator[h] # None
    BY <1>7, <1>11
  <2>2. locator[h].gen \in Nat /\ locator[h].gen < fGeneration
    <3>1. locator[h] \in Locators
      BY <1>1, <2>1
    <3> QED
      BY <1>1, <2>1, <3>1 DEF LocatorsRight, Locators
  <2>3. \A q \in Listed : q # p /\ Located(locator[h], q)' => Holds(q, locator[h].at, h)'
    <3> DEFINE l == locator[h]
    <3>1. locator'[h] = l
      BY <2>1
    <3>2. \A q \in Listed : Located(l, q) => Holds(q, l.at, h)
      BY <1>1, <2>1 DEF LocatorsRight
    <3> HIDE DEF l
    <3>3. ASSUME NEW q \in Listed, q # p, Located(locator[h], q)'
          PROVE  Holds(q, locator[h].at, h)'
      <4>1. plot'[q] = plot[q] /\ Slot(q)' = Slot(q)
        BY <1>3, <1>4, <3>3 DEF Adds
      <4>2. Located(l, q)
        BY <3>1, <3>3, <4>1 DEF Located
      <4>3. Holds(q, l.at, h)
        BY <3>2, <4>2
      <4> QED
        BY <3>1, <4>1, <4>3 DEF Holds
    <3> QED
      BY <3>3
  <2>4. ASSUME Located(locator[h], p)' PROVE Holds(p, locator[h].at, h)'
    <3>1. plot'[p].gen = locator[h].gen /\ Slot(p) = SlotOf(locator[h])
      BY <1>3, <1>4, <2>1, <2>4 DEF Located, Adds
    <3>2. CASE Grows(p, record)
      <4>1. record = plot[p] /\ plot'[p].gen = record.gen /\ plot'[p].glyphs = Append(record.glyphs, g)
        BY <1>3, <3>2 DEF Grows, Adds
      <4>2. Located(locator[h], p)
        BY <3>1, <4>1 DEF Located
      <4>3. locator[h].at \in 1 .. Len(record.glyphs) /\ record.glyphs[locator[h].at] = h
        BY <1>1, <2>1, <4>1, <4>2 DEF LocatorsRight, Holds
      <4>4. record.glyphs \in Seq(Glyphs)
        BY <1>2 DEF Records
      <4>5. /\ Len(Append(record.glyphs, g)) = n + 1
            /\ Append(record.glyphs, g)[locator[h].at] = h
        BY <4>3, <4>4, AppendProperties
      <4> QED
        BY <1>2, <2>1, <4>1, <4>3, <4>5 DEF Holds
    <3>3. CASE Restarts(p, record)
      <4>1. record.gen = fGeneration + 1
        <5>1. plot[p] \in Records /\ fGeneration + 1 \in Nat \ {0}
          BY <1>1, <1>4, AtlasFacts
        <5> QED
          BY <3>3, <5>1, ResetIs DEF Restarts
      <4>2. plot'[p].gen = record.gen
        BY <1>3 DEF Adds
      <4> QED
        BY <1>4, <2>2, <3>1, <4>1, <4>2
    <3> QED
      BY <3>2, <3>3
  <2>5. locator[h].gen < fGeneration'
    BY <1>2, <1>4, <2>2
  <2> QED
    BY <2>1, <2>3, <2>4, <2>5
<1>12. LocatorsRight'
  <2> SUFFICES ASSUME NEW h \in Glyphs, locator'[h] # None
               PROVE  /\ locator'[h].gen < fGeneration'
                      /\ \A q \in Listed' : Located(locator[h], q)' => Holds(q, locator[h].at, h)'
    BY DEF LocatorsRight
  <2>1. Listed' = Listed
    BY <1>3 DEF Adds
  <2>2. CASE h = g
    <3>1. locator'[h] = loc /\ locator'[h].gen < fGeneration' /\ locator'[h].at = n + 1
      BY <1>2, <1>5, <1>7, <2>2
    <3>2. \A q \in Listed : Located(locator[h], q)' => q = p
      <4>1. \A q \in Listed : Slot(q)' = Slot(q)
        BY <1>3, <1>4 DEF Adds
      <4> QED
        BY <1>4, <1>5, <3>1, <4>1 DEF Located
    <3>3. Holds(p, locator[h].at, h)'
      BY <1>9, <2>2, <3>1 DEF Holds
    <3> QED
      BY <2>1, <3>1, <3>2, <3>3
  <2>3. CASE h # g
    BY <1>11, <2>1, <2>3
  <2> QED
    BY <2>2, <2>3
<1>13. KeepsPlaced
  <2> SUFFICES ASSUME NEW h \in Glyphs, Good(locator[h]),
                      \/ SlotOf(locator[h]) \in ToSet(fBulkUseToken[current])
                      \/ fAtlasGeneration' = fAtlasGeneration
               PROVE  locator'[h] = locator[h] /\ Good(locator[h])'
    BY DEF KeepsPlaced
  <2> DEFINE l == locator[h]
  <2>1. PICK q \in Listed : Located(l, q)
    BY DEF Good
  <2>2. l # None /\ l.page \in Active /\ h # g
    BY DEF Good
  <2>3. Slot(q) = SlotOf(l) /\ plot[q].gen = l.gen
    BY <2>1 DEF Located
  <2>4. l.page \in Active'
    BY <1>1, <2>2 DEF Active, Widens, AtlasTypes
  <2>5. locator'[h] = l /\ (q # p \/ Grows(p, record))
    <3>1. locator'[h] = l
      BY <1>7, <2>2
    <3>2. ASSUME Restarts(p, record) PROVE q # p
      <4>1. fAtlasGeneration' # fAtlasGeneration
        BY <1>1, <1>4, <3>2 DEF Restarts, ProcessEviction, GenerationsRight
      <4> QED
        BY <1>2, <2>3, <3>2, <4>1
    <3> QED
      BY <3>1, <3>2
  <2> HIDE DEF l
  <2>6. plot'[q].gen = l.gen /\ Slot(q)' = SlotOf(l) /\ q \in Listed'
    <3>1. q \in Listed' /\ Slot(q)' = Slot(q)
      BY <1>3, <1>4 DEF Adds
    <3>2. CASE q # p
      BY <1>10, <2>3, <3>1, <3>2
    <3>3. CASE q = p
      <4>1. plot'[p].gen = record.gen /\ record = plot[p]
        BY <1>3, <2>5, <3>3 DEF Adds, Grows
      <4> QED
        BY <2>3, <3>1, <3>3, <4>1
    <3> QED
      BY <3>2, <3>3
  <2>7. Good(locator[h])'
    BY <2>2, <2>4, <2>5, <2>6 DEF Good, Located
  <2> QED
    BY <2>5, <2>7 DEF l
<1>14. IsUsed(Slot(p))
  <2>1. Listed' = Listed /\ plot'[p].lastUse = NextDrawToken
    BY <1>3 DEF Adds
  <2>2. ASSUME NEW q \in Listed, Slot(q)' = Slot(p) \/ Slot(q)' \in ToSet(fBulkUseToken[current])
        PROVE  plot'[q].lastUse = NextDrawToken
    <3>1. Slot(q)' = Slot(q)
      BY <1>3, <1>4 DEF Adds
    <3>2. CASE q # p
      <4>1. plot[q].lastUse = NextDrawToken
        BY <1>1, <1>4, <2>2, <3>1, <3>2 DEF PlacingRight
      <4> QED
        BY <1>10, <3>2, <4>1
    <3> QED
      BY <2>1, <3>2
  <2> QED
    BY <2>1, <2>2 DEF IsUsed
<1>15. Good(locator[g])' /\ SlotOf(locator[g])' = Slot(p)
  <2>1. loc.page \in Active'
    BY <1>1, <1>4, <1>5 DEF Active, Widens, Pages
  <2>2. locator'[g] = loc /\ p \in Listed'
    BY <1>3, <1>7 DEF Adds
  <2>3. loc' = loc
    BY DEF loc, LocatorIn
  <2>4. Located(locator[g], p)'
    BY <1>9, <2>2, <2>3 DEF Located
  <2> QED
    BY <1>5, <2>1, <2>2, <2>4 DEF Good
<1> QED
  BY <1>8, <1>12, <1>13, <1>14, <1>15

(* What a draw will read depends on the uploads of its slot before it.     *)
ReadsSame(u, loc) ==
  /\ Slot(u.plot)' = Slot(u.plot)
  /\ Covers(u, loc)' <=> Covers(u, loc)
  /\ Covers(u, loc) => plot'[u.plot].glyphs[loc.at] = plot[u.plot].glyphs[loc.at]
SameUploads(loc, token) ==
  /\ texture'[SlotOf(loc)] = texture[SlotOf(loc)]
  /\ \A u \in Uploads : u.before <= token /\ Slot(u.plot) = SlotOf(loc) =>
       u \in Uploads' /\ ReadsSame(u, loc)
  /\ \A u \in Uploads' : u.before <= token /\ Slot(u.plot)' = SlotOf(loc) =>
       u \in Uploads /\ ReadsSame(u, loc)

LEMMA WillReadKept ==
  ASSUME NEW quad, NEW token, SameUploads(quad.loc, token), WillRead(quad, token)
  PROVE  WillRead(quad, token)'
<1> DEFINE loc == quad.loc
<1>1. /\ \A u \in Uploads : u.before <= token /\ Slot(u.plot) = SlotOf(loc) =>
           /\ u \in Uploads' /\ Slot(u.plot)' = Slot(u.plot) /\ (Covers(u, loc)' <=> Covers(u, loc))
           /\ Covers(u, loc) => plot'[u.plot].glyphs[loc.at] = plot[u.plot].glyphs[loc.at]
      /\ \A u \in Uploads' : u.before <= token /\ Slot(u.plot)' = SlotOf(loc) =>
           /\ u \in Uploads /\ Slot(u.plot) = SlotOf(loc) /\ (Covers(u, loc)' <=> Covers(u, loc))
  BY DEF SameUploads, ReadsSame
<1>2. \A u : Covers(u, loc) => Slot(u.plot) = SlotOf(loc)
  BY DEF Covers
<1>3. \A u : Covers(u, loc)' => Slot(u.plot)' = SlotOf(loc)
  BY DEF Covers
<1>4. CASE \E u \in Uploads :
             /\ u.before <= token /\ Covers(u, loc) /\ plot[u.plot].glyphs[loc.at] = quad.glyph
             /\ \A v \in Uploads : v.before <= token /\ Slot(v.plot) = SlotOf(loc) /\ v # u =>
                  v.before < u.before
  <2>1. PICK u \in Uploads :
             /\ u.before <= token /\ Covers(u, loc) /\ plot[u.plot].glyphs[loc.at] = quad.glyph
             /\ \A v \in Uploads : v.before <= token /\ Slot(v.plot) = SlotOf(loc) /\ v # u =>
                  v.before < u.before
    BY <1>4
  <2>2. u \in Uploads' /\ Covers(u, loc)' /\ plot'[u.plot].glyphs[loc.at] = quad.glyph
    BY <1>1, <1>2, <2>1
  <2>3. \A v \in Uploads' : v.before <= token /\ Slot(v.plot)' = SlotOf(loc) /\ v # u =>
          v.before < u.before
    BY <1>1, <2>1
  <2> QED
    BY <2>1, <2>2, <2>3 DEF WillRead
<1>5. CASE ReadsRight(quad) /\ \A u \in Uploads : u.before <= token => ~Covers(u, loc)
  <2>1. ReadsRight(quad)'
    BY <1>5 DEF SameUploads, ReadsRight, SlotOf
  <2>2. \A u \in Uploads' : u.before <= token => ~Covers(u, loc)'
    BY <1>1, <1>3, <1>5
  <2> QED
    BY <2>1, <2>2 DEF WillRead
<1> QED
  BY <1>4, <1>5 DEF WillRead

LEMMA AddsUploads ==
  ASSUME AtlasInv, pc = "placing", NEW p \in Listed, NEW record,
         Grows(p, record) \/ Restarts(p, record),
         NEW g \in Glyphs, AddASAP(g, p, record), UNCHANGED <<tokenVars, texture, pc, lapsed>>
  PROVE  RecordsRight' /\ TextureRight' /\ UploadsRight' /\ ScheduleRight'
<1>1. /\ AtlasTypes /\ TokenTypes /\ ListsRight /\ RecordsRight /\ TextureRight /\ UploadsRight
      /\ ScheduleRight /\ fASAPUploads \in Seq(PlotObjects) /\ fInlineUploads \in Seq(UploadRecords)
      /\ Prepares
  BY DEF AtlasInv, TokenTypes, Prepares
<1>2. /\ record \in Records /\ record.page = plot[p].page /\ record.index = plot[p].index
      /\ Len(record.glyphs) \in Nat /\ Len(record.glyphs) < Room
      /\ record.clean <= Len(record.glyphs)
      /\ record.gen < fGeneration' /\ fGeneration' \in Nat /\ fGeneration <= fGeneration'
      /\ record.lastUpload <= NextDrawToken
      /\ \A i \in 1 .. record.clean : texture[Slot(p)][i] = record.glyphs[i]
      /\ p \in Pending => UploadIsScheduled(record) /\ Grows(p, record)
      /\ UploadIsScheduled(record) => p \in Pending \/ record.gen \in lapsed
      /\ p \notin Pending => record.gen \in lapsed \/ record.clean = Len(record.glyphs)
  BY TakesFacts
<1>3. /\ p \in PlotObjects /\ plot'[p] \in Records
      /\ \A q \in PlotObjects : q # p => plot'[q] = plot[q]
      /\ plot'[p].glyphs = Append(record.glyphs, g)
      /\ plot'[p].clean = record.clean /\ plot'[p].gen = record.gen
      /\ plot'[p].lastUse = NextDrawToken
      /\ plot'[p].lastUpload =
           IF UploadIsScheduled(record) THEN record.lastUpload ELSE NextTokenToFlush
      /\ Listed' = Listed /\ Live' = Live
      /\ Pending' = IF UploadIsScheduled(record) THEN Pending ELSE Pending \union {p}
      /\ \A q \in PlotObjects : Slot(q)' = Slot(q)
      /\ Uploads' = IF UploadIsScheduled(record) THEN Uploads
                    ELSE Uploads \union {[plot |-> p, before |-> 0]}
      /\ NextDrawToken' = NextDrawToken /\ NextTokenToFlush' = NextTokenToFlush
      /\ fInlineUploads' = fInlineUploads
  BY AddsFacts DEF Adds
<1>4. fASAPUploads' = IF UploadIsScheduled(record) THEN fASAPUploads ELSE Append(fASAPUploads, p)
  BY AddsFacts
<1>5. /\ Uploads \subseteq UploadRecords /\ Pending = {u.plot : u \in Uploads}
      /\ \A u \in Uploads : u.plot \in PlotObjects /\ u.before \in Nat /\ u.before <= NextDrawToken
      /\ NextDrawToken \in Nat \ {0} /\ NextTokenToFlush \in Nat
      /\ NextTokenToFlush <= NextDrawToken /\ Listed \subseteq PlotObjects /\ Live \subseteq PlotObjects
  <2>1. NextDrawToken # 0
    BY <1>1 DEF TokenTypes, NextDrawToken
  <2> QED
    BY <1>1, <2>1, UploadFacts, AtlasFacts DEF Live
<1>6. \A q \in Listed : Slot(q) = Slot(p) => q = p
  BY <1>1, AtlasFacts
<1>7. /\ record.glyphs \in Seq(Glyphs) /\ record.clean \in Nat /\ record.lastUpload \in Nat
      /\ Len(plot'[p].glyphs) = Len(record.glyphs) + 1 /\ plot'[p].glyphs # <<>>
      /\ \A i \in 1 .. Len(record.glyphs) : plot'[p].glyphs[i] = record.glyphs[i]
  <2>1. record.glyphs \in Seq(Glyphs) /\ record.clean \in Nat /\ record.lastUpload \in Nat
    BY <1>2 DEF Records
  <2>2. /\ Append(record.glyphs, g) \in Seq(Glyphs) /\ Append(record.glyphs, g) # <<>>
        /\ Len(Append(record.glyphs, g)) = Len(record.glyphs) + 1
        /\ \A i \in 1 .. Len(record.glyphs) : Append(record.glyphs, g)[i] = record.glyphs[i]
    BY <2>1, AppendProperties
  <2> QED
    BY <1>3, <2>1, <2>2
<1>8. RecordsRight'
  <2>1. ASSUME NEW q \in Live
        PROVE  /\ plot'[q] # None
               /\ Len(plot'[q].glyphs) <= Room /\ plot'[q].clean <= Len(plot'[q].glyphs)
               /\ plot'[q].gen < fGeneration'
               /\ plot'[q].lastUse <= NextDrawToken /\ plot'[q].lastUpload <= NextDrawToken
    <3>1. CASE q = p
      <4>1. plot'[p] # None /\ Room \in Nat
        BY <1>3, Numbers
      <4> QED
        BY <1>2, <1>3, <1>5, <1>7, <3>1, <4>1
    <3>2. CASE q # p
      <4>1. plot'[q] = plot[q] /\ q \in PlotObjects
        BY <1>3, <1>5, <3>2
      <4>2. plot[q] # None /\ plot[q] \in Records \union {None}
        BY <1>1, <4>1 DEF RecordsRight, AtlasTypes, PlotMaps
      <4>3. plot[q].gen \in Nat /\ fGeneration \in Nat
        BY <1>1, <4>2 DEF Records, AtlasTypes
      <4>4. /\ Len(plot[q].glyphs) <= Room /\ plot[q].clean <= Len(plot[q].glyphs)
            /\ plot[q].gen < fGeneration
            /\ plot[q].lastUse <= NextDrawToken /\ plot[q].lastUpload <= NextDrawToken
        BY <1>1 DEF RecordsRight
      <4>5. plot[q].gen < fGeneration'
        BY <1>2, <4>3, <4>4
      <4> QED
        BY <4>1, <4>2, <4>4, <4>5
    <3> QED
      BY <3>1, <3>2
  <2>2. ASSUME NEW q \in Listed, plot'[q].glyphs # <<>> PROVE plot'[q].lastUse # 0
    BY <1>1, <1>3, <1>5, <2>2 DEF RecordsRight
  <2> QED
    BY <1>3, <2>1, <2>2 DEF RecordsRight
<1>9. TextureRight'
  <2>1. ASSUME NEW q \in Listed, NEW i \in 1 .. plot'[q].clean
        PROVE  texture'[Slot(q)'][i] = plot'[q].glyphs[i]
    <3>1. Slot(q)' = Slot(q) /\ texture' = texture /\ q \in PlotObjects
      BY <1>3, <1>5
    <3>2. CASE q = p
      <4>1. i \in 1 .. record.clean /\ i \in 1 .. Len(record.glyphs)
        BY <1>2, <1>3, <1>7, <3>2
      <4> QED
        BY <1>2, <1>7, <3>1, <3>2, <4>1
    <3>3. CASE q # p
      BY <1>1, <1>3, <3>1, <3>3 DEF TextureRight
    <3> QED
      BY <3>2, <3>3
  <2>2. ASSUME NEW q \in Listed \ Pending'
        PROVE  plot'[q].gen \in lapsed' \/ plot'[q].clean = Len(plot'[q].glyphs)
    <3>1. CASE q = p
      <4>1. UploadIsScheduled(record) /\ p \notin Pending
        BY <1>3, <2>2, <3>1
      <4> QED
        BY <1>2, <1>3, <3>1, <4>1
    <3>2. CASE q # p
      <4>1. plot'[q] = plot[q] /\ q \notin Pending
        BY <1>3, <1>5, <2>2, <3>2
      <4> QED
        BY <1>1, <4>1 DEF TextureRight
    <3> QED
      BY <3>1, <3>2
  <2>3. ASSUME NEW u \in Uploads'
        PROVE  /\ plot'[u.plot].clean < Len(plot'[u.plot].glyphs)
               /\ u.before # 0 => plot'[u.plot].clean = 0
    <3>1. CASE u.plot = p
      <4>1. plot'[p].clean < Len(plot'[p].glyphs)
        BY <1>2, <1>3, <1>7
      <4>2. u.before # 0 => plot'[p].clean = 0
        <5>1. CASE u \in Uploads
          <6>1. record = plot[p]
            BY <1>2, <1>5, <3>1, <5>1 DEF Grows
          <6> QED
            BY <1>1, <1>3, <3>1, <5>1, <6>1 DEF TextureRight
        <5>2. CASE u \notin Uploads
          <6>1. u = [plot |-> p, before |-> 0]
            BY <1>3, <1>5, <3>1, <5>2
          <6> QED
            BY <6>1
        <5> QED
          BY <5>1, <5>2
      <4> QED
        BY <3>1, <4>1, <4>2
    <3>2. CASE u.plot # p
      <4>1. u \in Uploads
        BY <1>3, <3>2
      <4>2. plot'[u.plot] = plot[u.plot]
        BY <1>3, <1>5, <3>2, <4>1
      <4> QED
        BY <1>1, <4>1, <4>2 DEF TextureRight
    <3> QED
      BY <3>1, <3>2
  <2> QED
    BY <1>3, <2>1, <2>2, <2>3 DEF TextureRight
<1>10. UploadsRight'
  <2>1. \A i, j \in 1 .. Len(fASAPUploads') : fASAPUploads'[i] = fASAPUploads'[j] => i = j
    <3>1. \A i, j \in 1 .. Len(fASAPUploads) : fASAPUploads[i] = fASAPUploads[j] => i = j
      BY <1>1 DEF UploadsRight
    <3>2. CASE UploadIsScheduled(record)
      BY <1>4, <3>1, <3>2
    <3>3. CASE ~UploadIsScheduled(record)
      <4> DEFINE a == Append(fASAPUploads, p)
      <4>1. /\ Len(fASAPUploads) \in Nat /\ Len(a) = Len(fASAPUploads) + 1
            /\ a[Len(fASAPUploads) + 1] = p
            /\ \A i \in 1 .. Len(fASAPUploads) : a[i] = fASAPUploads[i]
        BY <1>1, <1>3, AppendProperties, SeqSet
      <4>2. \A i \in 1 .. Len(fASAPUploads) : fASAPUploads[i] # p
        <5>1. \A i \in 1 .. Len(fASAPUploads) : [plot |-> fASAPUploads[i], before |-> 0] \in Uploads
          BY <1>1, UploadsAre DEF Uploads
        <5>2. \A x : [plot |-> x, before |-> 0].plot = x
          OBVIOUS
        <5> QED
          BY <1>2, <1>5, <3>3, <5>1, <5>2
      <4> HIDE DEF a
      <4>3. \A i, j \in 1 .. Len(fASAPUploads) + 1 : a[i] = a[j] => i = j
        <5> SUFFICES ASSUME NEW i \in 1 .. Len(fASAPUploads) + 1,
                            NEW j \in 1 .. Len(fASAPUploads) + 1, a[i] = a[j]
                     PROVE  i = j
          OBVIOUS
        <5>1. i = Len(fASAPUploads) + 1 \/ i \in 1 .. Len(fASAPUploads)
          BY <4>1
        <5>2. j = Len(fASAPUploads) + 1 \/ j \in 1 .. Len(fASAPUploads)
          BY <4>1
        <5> QED
          BY <3>1, <4>1, <4>2, <5>1, <5>2
      <4> QED
        BY <1>4, <3>3, <4>1, <4>3 DEF a
    <3> QED
      BY <3>2, <3>3
  <2>2. \A i, j \in 1 .. Len(fInlineUploads') :
          /\ fInlineUploads'[i].plot = fInlineUploads'[j].plot => i = j
          /\ i <= j => fInlineUploads'[i].before <= fInlineUploads'[j].before
    BY <1>1, <1>3 DEF UploadsRight
  <2>3. ASSUME NEW u \in Uploads', NEW v \in Uploads', u.plot = v.plot PROVE u = v
    <3>1. CASE u \in Uploads /\ v \in Uploads
      BY <1>1, <2>3, <3>1 DEF UploadsRight
    <3>2. CASE u \notin Uploads \/ v \notin Uploads
      <4>1. /\ p \notin Pending
            /\ u \in Uploads \/ u = [plot |-> p, before |-> 0]
            /\ v \in Uploads \/ v = [plot |-> p, before |-> 0]
        BY <1>2, <1>3, <3>2
      <4>2. \A w \in Uploads : w.plot # p
        BY <1>5, <4>1
      <4> QED
        BY <2>3, <3>2, <4>1, <4>2
    <3> QED
      BY <3>1, <3>2
  <2>4. \A i \in 1 .. Len(fInlineUploads') :
          fInlineUploads'[i].before \in NextTokenToFlush' .. NextDrawToken'
    BY <1>1, <1>3 DEF UploadsRight
  <2>5. ASSUME NEW u \in Uploads', u.plot \notin Listed
        PROVE  \E v \in Uploads' : v.plot \in Listed /\ Slot(v.plot)' = Slot(u.plot)' /\ u.before < v.before
    <3>1. u \in Uploads
      BY <1>3, <2>5
    <3>2. PICK v \in Uploads : v.plot \in Listed /\ Slot(v.plot) = Slot(u.plot) /\ u.before < v.before
      BY <1>1, <2>5, <3>1 DEF UploadsRight
    <3> QED
      BY <1>3, <1>5, <3>1, <3>2
  <2> QED
    BY <1>3, <2>1, <2>2, <2>3, <2>4, <2>5 DEF UploadsRight
<1>11. ScheduleRight'
  <2>1. ASSUME NEW u \in Uploads', u.plot \in Listed
        PROVE  /\ u.before <= plot'[u.plot].lastUse /\ NextTokenToFlush <= plot'[u.plot].lastUse
               /\ NextTokenToFlush <= plot'[u.plot].lastUpload
    <3>1. CASE u.plot = p
      <4>1. u.before <= NextDrawToken
        BY <1>3, <1>5
      <4>2. NextTokenToFlush <= plot'[p].lastUpload
        BY <1>2, <1>3, <1>5, <1>7 DEF UploadIsScheduled
      <4> QED
        BY <1>3, <1>5, <3>1, <4>1, <4>2
    <3>2. CASE u.plot # p
      <4>1. u \in Uploads
        BY <1>3, <3>2
      <4>2. plot'[u.plot] = plot[u.plot]
        BY <1>3, <1>5, <3>2, <4>1
      <4> QED
        BY <1>1, <2>1, <4>1, <4>2 DEF ScheduleRight
    <3> QED
      BY <3>1, <3>2
  <2>2. ASSUME NEW q \in Listed, NextTokenToFlush <= plot'[q].lastUpload
        PROVE  q \in Pending' \/ plot'[q].gen \in lapsed'
    <3>1. CASE q = p
      BY <1>2, <1>3, <3>1
    <3>2. CASE q # p
      <4>1. plot'[q] = plot[q] /\ (q \in Pending => q \in Pending')
        BY <1>3, <1>5, <3>2
      <4> QED
        BY <1>1, <2>2, <4>1 DEF ScheduleRight
    <3> QED
      BY <3>1, <3>2
  <2> QED
    BY <1>3, <2>1, <2>2 DEF ScheduleRight
<1> QED
  BY <1>8, <1>9, <1>10, <1>11
-----------------------------------------------------------------------------
LEMMA AddsDraws ==
  ASSUME AtlasInv, pc = "placing", NEW p \in Listed, NEW record,
         Grows(p, record) \/ Restarts(p, record),
         NEW g \in Glyphs, AddASAP(g, p, record), UNCHANGED <<tokenVars, texture, pc, fDraws>>
  PROVE  DrawsRight' /\ KeepsReady
<1>1. /\ AtlasTypes /\ TokenTypes /\ ListsRight /\ RecordsRight /\ TextureRight /\ UploadsRight
      /\ ScheduleRight /\ DrawsRight /\ Prepares
  BY DEF AtlasInv, Prepares
<1>2. /\ record \in Records /\ record.page = plot[p].page /\ record.index = plot[p].index
      /\ Len(record.glyphs) \in Nat /\ record.clean <= Len(record.glyphs)
      /\ p \in Pending => UploadIsScheduled(record) /\ Grows(p, record)
  BY TakesFacts
<1>3. /\ p \in PlotObjects /\ plot'[p] \in Records
      /\ \A q \in PlotObjects : q # p => plot'[q] = plot[q]
      /\ plot'[p].glyphs = Append(record.glyphs, g)
      /\ plot'[p].clean = record.clean /\ plot'[p].gen = record.gen
      /\ plot'[p].lastUse = NextDrawToken
      /\ Listed' = Listed
      /\ \A q \in PlotObjects : Slot(q)' = Slot(q)
      /\ Uploads' = IF UploadIsScheduled(record) THEN Uploads
                    ELSE Uploads \union {[plot |-> p, before |-> 0]}
      /\ NextDrawToken' = NextDrawToken /\ NextTokenToFlush' = NextTokenToFlush
  BY AddsFacts DEF Adds
<1>4. /\ Uploads \subseteq UploadRecords /\ Pending = {u.plot : u \in Uploads}
      /\ \A u \in Uploads : u.plot \in PlotObjects /\ u.before \in Nat
      /\ NextDrawToken \in Nat /\ NextTokenToFlush \in Nat
      /\ NextTokenToFlush <= NextDrawToken /\ Listed \subseteq PlotObjects
      /\ \A q \in Listed : plot[q].lastUse \in Nat
  BY <1>1, UploadFacts, AtlasFacts DEF Records
<1>5. \A q \in Listed : Slot(q) = Slot(p) => q = p
  BY <1>1, AtlasFacts
<1>6. /\ record.glyphs \in Seq(Glyphs) /\ record.clean \in Nat
      /\ Len(plot'[p].glyphs) = Len(record.glyphs) + 1
      /\ \A i \in 1 .. Len(record.glyphs) : plot'[p].glyphs[i] = record.glyphs[i]
  <2>1. record.glyphs \in Seq(Glyphs) /\ record.clean \in Nat
    BY <1>2 DEF Records
  <2>2. /\ Len(Append(record.glyphs, g)) = Len(record.glyphs) + 1
        /\ \A i \in 1 .. Len(record.glyphs) : Append(record.glyphs, g)[i] = record.glyphs[i]
    BY <2>1, AppendProperties
  <2> QED
    BY <1>3, <2>1, <2>2
<1>7. Restarts(p, record) => plot[p].lastUse < NextTokenToFlush
  BY DEF Restarts
(* What the plot that grows holds, it holds still.                         *)
<1>8. ASSUME NEW q \in Listed, q # p \/ Grows(p, record), NEW at, NEW h, Holds(q, at, h)
      PROVE  Holds(q, at, h)' /\ plot'[q].gen = plot[q].gen
  <2>1. CASE q # p
    <3>1. plot'[q] = plot[q]
      BY <1>3, <1>4, <2>1
    <3> QED
      BY <1>8, <3>1 DEF Holds
  <2>2. CASE q = p
    <3>1. record = plot[p]
      BY <1>8, <2>2 DEF Grows
    <3>2. at \in 1 .. Len(record.glyphs) /\ record.glyphs[at] = h
      BY <1>8, <2>2, <3>1 DEF Holds
    <3>3. at \in 1 .. Len(plot'[p].glyphs) /\ plot'[p].glyphs[at] = h
      BY <1>2, <1>6, <3>2
    <3>4. plot'[p].gen = plot[p].gen
      BY <1>3, <3>1
    <3> QED
      BY <2>2, <3>3, <3>4 DEF Holds
  <2> QED
    BY <2>1, <2>2
<1>9. KeepsReady
  <2> SUFFICES ASSUME NEW quad, Ready(quad) PROVE Ready(quad)'
    BY DEF KeepsReady
  <2>1. ASSUME NEW q \in Listed, Slot(q) = SlotOf(quad.loc)
        PROVE  /\ plot'[q].gen = quad.loc.gen /\ plot'[q].lastUse = NextDrawToken
               /\ Holds(q, quad.loc.at, quad.glyph)'
    <3>1. /\ plot[q].gen = quad.loc.gen /\ plot[q].lastUse = NextDrawToken
          /\ Holds(q, quad.loc.at, quad.glyph)
      BY <2>1 DEF Ready
    <3>2. q # p \/ Grows(p, record)
      BY <1>4, <1>7, <3>1
    <3>3. Holds(q, quad.loc.at, quad.glyph)' /\ plot'[q].gen = plot[q].gen
      BY <1>8, <3>1, <3>2
    <3>4. plot'[q].lastUse = NextDrawToken
      <4>1. q # p => plot'[q] = plot[q]
        BY <1>3, <1>4
      <4> QED
        BY <1>3, <3>1, <4>1
    <3> QED
      BY <3>1, <3>3, <3>4
  <2>2. quad.loc # None
    BY DEF Ready
  <2> QED
    BY <1>3, <1>4, <2>1, <2>2 DEF Ready
<1>10. ASSUME NEW k \in 1 .. Len(fDraws), NEW quad \in fDraws[k], quad.whole
       PROVE  /\ quad.loc # None
              /\ WillRead(quad, fLastFlushedToken + k)'
              /\ Reserved(quad, fLastFlushedToken + k)'
  <2> DEFINE loc == quad.loc
             token == fLastFlushedToken + k
  <2>1. quad.loc # None /\ WillRead(quad, token) /\ Reserved(quad, token)
    BY <1>1, <1>10 DEF DrawsRight
  <2>2. token \in Nat /\ NextTokenToFlush <= token /\ token' = token
    BY <1>1 DEF TokenTypes, NextTokenToFlush, tokenVars
  <2> HIDE DEF token
  <2>3. ASSUME NEW q \in Listed, Slot(q) = SlotOf(loc)
        PROVE  /\ token <= plot[q].lastUse
               /\ \/ Holds(q, loc.at, quad.glyph)
                  \/ \E u \in Uploads : u.plot = q /\ token < u.before
               /\ q # p \/ Grows(p, record)
    <3>1. /\ token <= plot[q].lastUse
          /\ \/ Holds(q, loc.at, quad.glyph)
             \/ \E u \in Uploads : u.plot = q /\ token < u.before
      BY <2>1, <2>3 DEF Reserved
    <3>2. q # p \/ Grows(p, record)
      BY <1>4, <1>7, <2>2, <3>1
    <3> QED
      BY <3>1, <3>2
  <2>4. \A u \in Uploads : u \in Uploads'
    BY <1>3
  <2>5. Reserved(quad, token)'
    <3>1. ASSUME NEW q \in Listed, Slot(q) = SlotOf(loc)
          PROVE  /\ token <= plot'[q].lastUse
                 /\ \/ Holds(q, loc.at, quad.glyph)'
                    \/ \E u \in Uploads' : u.plot = q /\ token < u.before
      <4>1. plot[q].lastUse <= NextDrawToken /\ plot[q].lastUse \in Nat
        BY <1>1, <1>4 DEF RecordsRight, Live
      <4>2. token <= plot'[q].lastUse
        <5>1. q # p => plot'[q] = plot[q]
          BY <1>3, <1>4
        <5> QED
          BY <1>3, <1>4, <2>2, <2>3, <3>1, <4>1, <5>1
      <4>3. CASE Holds(q, loc.at, quad.glyph)
        BY <1>8, <2>3, <3>1, <4>2, <4>3
      <4>4. CASE \E u \in Uploads : u.plot = q /\ token < u.before
        BY <2>4, <4>2, <4>4
      <4> QED
        BY <2>3, <3>1, <4>3, <4>4
    <3>2. \A q \in Listed' : Slot(q)' = Slot(q) /\ q \in Listed
      BY <1>3, <1>4
    <3> QED
      BY <2>2, <3>1, <3>2 DEF Reserved
  <2>6. \A u \in Uploads : u.plot # p => ReadsSame(u, loc)
    <3> SUFFICES ASSUME NEW u \in Uploads, u.plot # p PROVE ReadsSame(u, loc)
      OBVIOUS
    <3>1. plot'[u.plot] = plot[u.plot] /\ Slot(u.plot)' = Slot(u.plot)
      BY <1>3, <1>4
    <3> QED
      BY <3>1 DEF ReadsSame, Covers
  <2>7. texture' = texture /\ \A u \in Uploads : u.plot \in PlotObjects /\ Slot(u.plot)' = Slot(u.plot)
    BY <1>3, <1>4
  <2>8. WillRead(quad, token)'
    <3>1. CASE SlotOf(loc) # Slot(p)
      <4>1. \A u \in Uploads' : Slot(u.plot)' = SlotOf(loc) => u \in Uploads /\ u.plot # p
        <5>1. Slot(p)' = Slot(p) /\ \A x : [plot |-> p, before |-> x].plot = p
          BY <1>3
        <5> QED
          BY <1>3, <2>7, <3>1, <5>1
      <4>2. \A u \in Uploads : Slot(u.plot) = SlotOf(loc) => u.plot # p
        BY <3>1
      <4>3. SameUploads(loc, token)
        BY <2>4, <2>6, <2>7, <4>1, <4>2 DEF SameUploads
      <4> QED
        BY <2>1, <2>2, <4>3, WillReadKept
    <3>2. CASE SlotOf(loc) = Slot(p)
      <4>1. Grows(p, record) /\ record = plot[p]
        BY <2>3, <3>2 DEF Grows
      <4>2. CASE Holds(p, loc.at, quad.glyph) /\ p \in Pending
        <5>1. /\ loc.at \in 1 .. Len(plot[p].glyphs) /\ plot[p].glyphs[loc.at] = quad.glyph
              /\ Len(plot[p].glyphs) \in Nat
          BY <1>2, <4>1, <4>2 DEF Holds
        <5>2. /\ loc.at \in plot'[p].clean + 1 .. Len(plot'[p].glyphs)
                   <=> loc.at \in plot[p].clean + 1 .. Len(plot[p].glyphs)
              /\ plot'[p].glyphs[loc.at] = plot[p].glyphs[loc.at]
          BY <1>3, <1>6, <4>1, <5>1
        <5>3. \A u \in Uploads : u.plot = p => ReadsSame(u, loc)
          BY <2>7, <5>2 DEF ReadsSame, Covers
        <5>4. Uploads' = Uploads
          BY <1>2, <1>3, <4>2
        <5>5. SameUploads(loc, token)
          BY <2>6, <2>7, <5>3, <5>4 DEF SameUploads
        <5> QED
          BY <2>1, <2>2, <5>5, WillReadKept
      <4>3. CASE Holds(p, loc.at, quad.glyph) /\ p \notin Pending
        <5>1. plot'[p].glyphs[loc.at] = quad.glyph
          BY <1>6, <4>1, <4>3 DEF Holds
        <5>3. \A u \in Uploads : Slot(u.plot) # SlotOf(loc)
          <6> SUFFICES ASSUME NEW u \in Uploads, Slot(u.plot) = SlotOf(loc) PROVE FALSE
            OBVIOUS
          <6>1. u.plot # p
            BY <1>4, <4>3
          <6>2. u.plot \notin Listed
            BY <1>5, <3>2, <6>1
          <6>3. PICK v \in Uploads : v.plot \in Listed /\ Slot(v.plot) = Slot(u.plot)
            BY <1>1, <6>2 DEF UploadsRight
          <6>4. v.plot = p
            BY <1>5, <3>2, <6>3
          <6> QED
            BY <1>4, <4>3, <6>4
        <5>4. ReadsRight(quad)'
          <6>1. ReadsRight(quad)
            BY <2>1, <5>3 DEF WillRead, Covers
          <6> QED
            BY <2>7, <6>1 DEF ReadsRight
        <5> DEFINE w == [plot |-> p, before |-> 0]
        <5>5. ASSUME NEW u \in Uploads', Slot(u.plot)' = SlotOf(loc)
              PROVE  u = w /\ w \in Uploads'
          BY <1>3, <2>7, <5>3, <5>5
        <5>6. w.plot = p /\ w.before = 0
          OBVIOUS
        <5> HIDE DEF w
        <5>7. CASE \E u \in Uploads' : Covers(u, loc)'
          <6>1. w \in Uploads' /\ Covers(w, loc)'
            BY <5>5, <5>7 DEF Covers
          <6>2. w.before <= token /\ plot'[w.plot].glyphs[loc.at] = quad.glyph
            BY <2>2, <5>1, <5>6
          <6>3. \A v \in Uploads' : v.before <= token /\ Slot(v.plot)' = SlotOf(loc) /\ v # w =>
                  v.before < w.before
            BY <5>5
          <6> HIDE DEF loc
          <6>4. \E u \in Uploads' :
                  /\ u.before <= token /\ Covers(u, loc)'
                  /\ plot'[u.plot].glyphs[loc.at] = quad.glyph
                  /\ \A v \in Uploads' :
                       v.before <= token /\ Slot(v.plot)' = SlotOf(loc) /\ v # u => v.before < u.before
            BY <6>1, <6>2, <6>3
          <6> QED
            BY <2>2, <6>4 DEF WillRead, loc
        <5>8. CASE \A u \in Uploads' : ~Covers(u, loc)'
          BY <5>4, <5>8 DEF WillRead
        <5> QED
          BY <5>7, <5>8
      <4>4. CASE \E u \in Uploads : u.plot = p /\ token < u.before
        <5>1. PICK w \in Uploads : w.plot = p /\ token < w.before
          BY <4>4
        <5>2. p \in Pending /\ Uploads' = Uploads
          BY <1>2, <1>3, <1>4, <5>1
        <5>3. \A u \in Uploads : u.before <= token => u.plot # p
          <6> SUFFICES ASSUME NEW u \in Uploads, u.before <= token, u.plot = p PROVE FALSE
            OBVIOUS
          <6>1. u = w
            BY <1>1, <5>1 DEF UploadsRight
          <6> QED
            BY <1>4, <2>2, <5>1, <6>1
        <5>4. SameUploads(loc, token)
          BY <2>6, <2>7, <5>2, <5>3 DEF SameUploads
        <5> QED
          BY <2>1, <2>2, <5>4, WillReadKept
      <4> QED
        BY <2>3, <3>2, <4>2, <4>3, <4>4
    <3> QED
      BY <3>1, <3>2
  <2> QED
    BY <2>1, <2>2, <2>5, <2>8 DEF token
<1>11. fDraws' = fDraws /\ fLastFlushedToken' = fLastFlushedToken
  BY DEF tokenVars
<1>12. DrawsRight'
  BY <1>10, <1>11 DEF DrawsRight
<1> QED
  BY <1>9, <1>12

LEMMA LiveSize ==
  ASSUME AtlasInv
  PROVE  /\ Live \subseteq PlotObjects /\ IsFiniteSet(Live) /\ Cardinality(Live) \in Nat
         /\ (MaxSubRuns - left.subRuns) * MaxGlyphs \in Nat /\ MaxPages * NumPlots \in Nat
<1>1. Live \subseteq PlotObjects
  BY AtlasFacts, UploadFacts DEF AtlasInv, Live
<1>2. IsFiniteSet(Live) /\ Cardinality(Live) \in Nat
  BY <1>1, Numbers, FS_Subset, FS_CardinalityType
<1>3. left.subRuns \in 0 .. MaxSubRuns
  BY DEF AtlasInv, OpTypes
<1>4. MaxSubRuns - left.subRuns \in Nat
  BY <1>3, Numbers
<1>5. \A d \in Nat : d * MaxGlyphs \in Nat
  BY Numbers
<1> QED
  BY <1>1, <1>2, <1>4, <1>5, Numbers

LEMMA NoMorePlots ==
  ASSUME AtlasInv, NEW d \in Nat, NEW m \in Nat, m + d <= Cardinality(Live) + Missing,
         Missing \in Nat, Cardinality(Live') = m, Missing' = d, left' = left
  PROVE  PlotsLast'
<1> DEFINE A == MaxPages * NumPlots
           B == (MaxSubRuns - left.subRuns) * MaxGlyphs
           C == Cardinality(Live)
<1>1. C + Missing <= A + B
  BY DEF AtlasInv, PlotsLast
<1>2. C \in Nat /\ B \in Nat /\ A \in Nat
  BY LiveSize
<1> HIDE DEF A, B, C
<1>3. m + d <= C + Missing
  BY DEF C
<1>4. m + d <= A + B
  BY <1>1, <1>2, <1>3
<1> QED
  BY <1>4 DEF PlotsLast, A, B

LEMMA AddASAPKeeps ==
  ASSUME AtlasInv, pc = "placing", placed < Len(GlyphsOf[current]), ~HasGlyph,
         placed' = placed + 1,
         UNCHANGED <<fPrevFlushToken, tokenVars, fDraws, texture, subRunGeneration, texCoords,
                     broken, pc, current, begin, quads, left, giveUpVars>>,
         NEW p \in Listed, NEW record,
         Grows(p, record) \/ Restarts(p, record),
         AddASAP(NextGlyph, p, record), Widens(p)
  PROVE  AtlasInv'
<1>1. PICK g \in Glyphs : g = NextGlyph
  BY NextGlyphIs
<1>2. /\ ~Good(locator[g]) /\ AddASAP(g, p, record)
      /\ UNCHANGED <<tokenVars, texture, pc, fDraws, lapsed>>
  BY <1>1, NextGlyphIs DEF giveUpVars
<1>3. /\ Adds(g, p, record)
      /\ plot' \in PlotMaps /\ fPlotList' \in ListMaps /\ ListsRight'
      /\ fASAPUploads' \in Seq(PlotObjects)
      /\ Tags(Slot(p)) /\ Slot(p) \in Slots
  BY <1>2, AddsFacts
<1>4. /\ locator' \in [Glyphs -> Locators \union {None}]
      /\ LocatorsRight' /\ KeepsPlaced /\ IsUsed(Slot(p))
      /\ Good(locator[g])' /\ SlotOf(locator[g])' = Slot(p)
  BY <1>2, AddsGood
<1>5. RecordsRight' /\ TextureRight' /\ UploadsRight' /\ ScheduleRight'
  BY <1>2, AddsUploads
<1>6. DrawsRight' /\ KeepsReady
  BY <1>2, AddsDraws
<1>7. fGeneration' \in Nat /\ fAtlasGeneration' \in Nat /\ NewGeneration
  BY TakesFacts
<1>8. AtlasTypes'
  BY <1>3, <1>4, <1>7 DEF AtlasTypes, Widens, AtlasInv
<1>9. TokenTypes'
  BY <1>3 DEF TokenTypes, Adds, tokenVars, AtlasInv
<1>10. IsPlaced(Slot(p))
  BY <1>1, <1>4 DEF IsPlaced
<1>11. /\ OpTypes' /\ GenerationsRight' /\ PlacingRight' /\ QuadsRight' /\ TokensRight'
       /\ Missing' = Missing - 1 /\ Missing \in Nat /\ left' = left
  BY <1>3, <1>4, <1>6, <1>7, <1>8, <1>10, PlacesOne
<1>12. PlotsLast'
  <2>1. Live' = Live /\ Cardinality(Live) \in Nat
    BY <1>3, LiveSize DEF Adds
  <2>2. Missing' \in Nat
    <3>1. placed \in Nat /\ Len(GlyphsOf[current]) \in Nat
      BY MostGlyphs DEF AtlasInv, OpTypes
    <3>2. Missing = Len(GlyphsOf[current]) - placed
      BY DEF Missing
    <3> QED
      BY <1>11, <3>1, <3>2
  <2> DEFINE m == Cardinality(Live)
  <2>3. m \in Nat /\ Cardinality(Live') = m
    BY <2>1
  <2> HIDE DEF m
  <2>4. m + Missing' <= m + Missing
    BY <1>11, <2>3
  <2>5. m + Missing' <= Cardinality(Live) + Missing
    BY <2>4 DEF m
  <2> QED
    BY <1>11, <2>2, <2>3, <2>5, NoMorePlots
<1> QED
  BY <1>3, <1>4, <1>5, <1>6, <1>8, <1>9, <1>11, <1>12 DEF AtlasInv

(* The plots of the pages that are not in use are empty.                   *)
PagesRight == \A p \in Listed : plot[p].page \in Active \/ plot[p].glyphs = <<>>

LEMMA ListAt ==
  ASSUME AtlasInv, NEW page \in Pages
  PROVE  /\ fPlotList[page] \in Seq(PlotObjects) /\ Len(fPlotList[page]) = NumPlots
         /\ DOMAIN fPlotList[page] = Indexes /\ NumPlots \in Nat \ {0}
         /\ \A i \in Indexes : fPlotList[page][i] \in Listed /\ plot[fPlotList[page][i]].page = page
         /\ \A p \in ToSet(fPlotList[page]) : \E i \in Indexes : fPlotList[page][i] = p
         /\ LeastRecent(page) \in Listed /\ plot[LeastRecent(page)].page = page
         /\ LeastRecent(page) = fPlotList[page][NumPlots]
<1>1. /\ AtlasTypes /\ ListsRight /\ fPlotList[page] \in Seq(PlotObjects)
      /\ Len(fPlotList[page]) = NumPlots
  BY DEF AtlasInv, AtlasTypes, ListMaps, ListsRight, ListsAre
<1>2. NumPlots \in Nat \ {0}
  BY Numbers
<1>3. /\ DOMAIN fPlotList[page] = Indexes
      /\ \A i \in Indexes : fPlotList[page][i] \in ToSet(fPlotList[page])
      /\ \A p \in ToSet(fPlotList[page]) : \E i \in Indexes : fPlotList[page][i] = p
  BY <1>1, <1>2, SeqSet DEF Indexes
<1>4. \A i \in Indexes : fPlotList[page][i] \in Listed /\ plot[fPlotList[page][i]].page = page
  BY <1>1, <1>3, AtlasFacts
<1>5. NumPlots \in Indexes
  BY <1>2 DEF Indexes
<1>6. LeastRecent(page) = fPlotList[page][NumPlots]
  BY <1>1 DEF LeastRecent, Last
<1> QED
  BY <1>1, <1>2, <1>3, <1>4, <1>5, <1>6

LEMMA ActivePages ==
  ASSUME AtlasInv, NEW S \in SUBSET Active, S # {}
  PROVE  /\ Min(S) \in S /\ Max(S) \in S /\ Min(S) \in Pages /\ Max(S) \in Pages
         /\ Min(S) <= fNumActivePages /\ Max(S) <= fNumActivePages
<1>1. fNumActivePages \in 0 .. MaxPages /\ MaxPages \in Nat
  BY Numbers DEF AtlasInv, AtlasTypes
<1>2. /\ S \in SUBSET Int /\ S \subseteq 0 .. MaxPages /\ S \subseteq Pages
      /\ \A i \in S : i <= fNumActivePages
  BY <1>1 DEF Active, Pages
<1>3. Min(S) \in S /\ Max(S) \in S
  BY <1>1, <1>2, LeastOf
<1> QED
  BY <1>2, <1>3

(* The first plot with room of a page.                                     *)
LEMMA RoomInPage ==
  ASSUME AtlasInv, NEW page \in Pages, Roomy(page), NEW g, AddToPage(g, page)
  PROVE  \E p \in Listed : Grows(p, plot[p]) /\ plot[p].page = page /\ AddASAP(g, p, plot[p])
<1> DEFINE I == {i \in Indexes : HasRoom(fPlotList[page][i])}
           p == fPlotList[page][Min(I)]
<1>1. /\ \A i \in Indexes : fPlotList[page][i] \in Listed /\ plot[fPlotList[page][i]].page = page
      /\ \A q \in ToSet(fPlotList[page]) : \E i \in Indexes : fPlotList[page][i] = q
      /\ NumPlots \in Nat
  BY ListAt
<1>2. I # {} /\ I \in SUBSET Int /\ I \subseteq 0 .. NumPlots
  BY <1>1 DEF Roomy, Indexes
<1>3. Min(I) \in I
  <2> HIDE DEF I
  <2> QED
    BY <1>1, <1>2, LeastOf
<1>4. p \in Listed /\ plot[p].page = page /\ HasRoom(p)
  BY <1>1, <1>3
<1>5. AddASAP(g, p, plot[p]) /\ UNCHANGED <<fGeneration, fAtlasGeneration>>
  BY DEF AddToPage
<1> HIDE DEF p
<1> QED
  BY <1>4, <1>5 DEF Grows

LEMMA PlacesASAP ==
  ASSUME AtlasInv, PagesRight, NEW g \in Glyphs, Share(g) \/ Activate(g) \/ EvictFlushed(g)
  PROVE  \E p \in Listed : \E record :
           (Grows(p, record) \/ Restarts(p, record)) /\ AddASAP(g, p, record) /\ Widens(p)
<1>1. fNumActivePages \in 0 .. MaxPages /\ MaxPages \in Nat /\ AtlasTypes /\ ListsRight
  BY Numbers DEF AtlasInv, AtlasTypes
<1>2. CASE Share(g)
  <2> DEFINE page == Min(Shareable)
  <2>1. page \in Shareable /\ page \in Pages /\ page <= fNumActivePages
    <3>1. Shareable \in SUBSET Active /\ Shareable # {}
      BY <1>2 DEF Shareable, Share
    <3> QED
      BY <3>1, ActivePages
  <2>2. AddToPage(g, page) /\ fNumActivePages' = fNumActivePages
    BY <1>2 DEF Share
  <2>3. Roomy(page)
    BY <2>1 DEF Shareable
  <2> HIDE DEF page
  <2>4. PICK p \in Listed : Grows(p, plot[p]) /\ plot[p].page = page /\ AddASAP(g, p, plot[p])
    BY <2>1, <2>2, <2>3, RoomInPage
  <2>5. Widens(p)
    BY <1>1, <2>1, <2>2, <2>4 DEF Widens
  <2> QED
    BY <2>4, <2>5
<1>3. CASE Activate(g)
  <2> DEFINE page == fNumActivePages + 1
  <2>1. page \in Pages /\ fNumActivePages' = page /\ page \notin Active
    BY <1>1, <1>3 DEF Activate, Pages, Active
  <2>2. AddToPage(g, page)
    BY <1>3, <2>1 DEF Activate
  <2>3. Roomy(page)
    <3> DEFINE p == LeastRecent(page)
    <3>1. p \in Listed /\ plot[p].page = page
      BY <2>1, ListAt
    <3>2. p \in ToSet(fPlotList[page])
      BY <1>1, <2>1, <3>1, AtlasFacts
    <3>3. plot[p].glyphs = <<>>
      BY <2>1, <3>1 DEF PagesRight
    <3>4. HasRoom(p)
      BY <3>3, Numbers DEF HasRoom
    <3> QED
      BY <3>2, <3>4 DEF Roomy
  <2> HIDE DEF page
  <2>4. PICK p \in Listed : Grows(p, plot[p]) /\ plot[p].page = page /\ AddASAP(g, p, plot[p])
    BY <2>1, <2>2, <2>3, RoomInPage
  <2>5. Widens(p)
    BY <1>1, <2>1, <2>4 DEF Widens, page, Pages
  <2> QED
    BY <2>4, <2>5
<1>4. CASE EvictFlushed(g)
  <2> DEFINE page == Min(FlushedTails)
             p == LeastRecent(page)
  <2>1. page \in FlushedTails /\ page \in Pages /\ page <= fNumActivePages
    <3>1. FlushedTails \in SUBSET Active /\ FlushedTails # {}
      BY <1>4 DEF FlushedTails, EvictFlushed
    <3> QED
      BY <3>1, ActivePages
  <2>2. p \in Listed /\ plot[p].page = page
    BY <2>1, ListAt
  <2>3. plot[p].lastUse < NextTokenToFlush
    BY <2>1 DEF FlushedTails
  <2>4. /\ AddASAP(g, p, ResetRects(plot[p], fGeneration + 1))
        /\ ProcessEviction /\ fNumActivePages' = fNumActivePages
    BY <1>4 DEF EvictFlushed
  <2> HIDE DEF p
  <2>5. Restarts(p, ResetRects(plot[p], fGeneration + 1))
    BY <2>3, <2>4 DEF Restarts
  <2>6. Widens(p)
    BY <1>1, <2>1, <2>2, <2>4 DEF Widens
  <2> QED
    BY <2>2, <2>4, <2>5, <2>6
<1> QED
  BY <1>2, <1>3, <1>4
-----------------------------------------------------------------------------
(* A plot takes the place of another one, after the draws so far.          *)
Replaces(g, old, new) ==
  /\ old \in Listed /\ plot[old].page \in Active
  /\ NextTokenToFlush <= plot[old].lastUse /\ plot[old].lastUse # NextDrawToken
  /\ new \in PlotObjects \ Live
  /\ LET clone == Plot(plot[old].page, plot[old].index, fGeneration + 1)
     IN /\ plot' = [p \in PlotObjects |->
             IF p = new THEN Tagged([clone EXCEPT !.glyphs = <<g>>, !.lastUpload = NextDrawToken])
             ELSE IF p = old /\ old \notin Pending THEN None ELSE plot[p]]
        /\ fPlotList' = [fPlotList EXCEPT ![clone.page] = <<new>> \o Omit(@, {old})]
        /\ fInlineUploads' = Append(fInlineUploads, [plot |-> new, before |-> NextDrawToken])
        /\ locator' = [locator EXCEPT ![g] = LocatorIn(clone)]
        /\ Tags(Slot(old))
  /\ ProcessEviction
  /\ UNCHANGED <<fNumActivePages, fASAPUploads>>

LEMMA ReplaceIs ==
  ASSUME AtlasInv, pc = "placing", placed < Len(GlyphsOf[current]), NEW g, Replace(g)
  PROVE  \E old, new : Replaces(g, old, new)
<1> DEFINE page == Max(Replaceable)
           old == LeastRecent(page)
           new == CHOOSE p \in PlotObjects \ (Listed \union Pending) : TRUE
<1>1. /\ FlushedTails = {} /\ Replaceable # {}
      /\ LET clone == Plot(plot[old].page, plot[old].index, fGeneration + 1)
         IN /\ plot' = [p \in PlotObjects |->
                 IF p = new THEN Tagged([clone EXCEPT !.glyphs = <<g>>, !.lastUpload = NextDrawToken])
                 ELSE IF p = old /\ old \notin Pending THEN None ELSE plot[p]]
            /\ fPlotList' = [fPlotList EXCEPT ![clone.page] = <<new>> \o Omit(@, {old})]
            /\ fInlineUploads' = Append(fInlineUploads, [plot |-> new, before |-> NextDrawToken])
            /\ locator' = [locator EXCEPT ![g] = LocatorIn(clone)]
            /\ Tags(Slot(old))
      /\ ProcessEviction
      /\ UNCHANGED <<fNumActivePages, fASAPUploads>>
  BY DEF Replace
<1>2. page \in Replaceable /\ page \in Pages /\ page \in Active
  <2>1. Replaceable \in SUBSET Active /\ Replaceable # {}
    BY <1>1 DEF Replaceable
  <2> QED
    BY <2>1, ActivePages, SMTT(40)
<1>3. old \in Listed /\ plot[old].page = page
  BY <1>2, ListAt
<1>4. plot[old].lastUse # NextDrawToken /\ NextTokenToFlush <= plot[old].lastUse
  <2>1. plot[old].lastUse # NextDrawToken
    BY <1>2 DEF Replaceable
  <2>2. ~(plot[old].lastUse < NextTokenToFlush)
    BY <1>1, <1>2 DEF FlushedTails
  <2>3. plot[old].lastUse \in Nat /\ NextTokenToFlush \in Nat
    BY <1>3, AtlasFacts, UploadFacts DEF AtlasInv, Records
  <2> QED
    BY <2>1, <2>2, <2>3
<1>5. new \in PlotObjects \ Live
  <2>1. Live # PlotObjects
    <3> DEFINE A == MaxPages * NumPlots
               B == (MaxSubRuns - left.subRuns) * MaxGlyphs
               C == Cardinality(Live)
    <3>1. C + Missing <= A + B
      BY DEF AtlasInv, PlotsLast
    <3>2. C \in Nat /\ A \in Nat /\ B \in Nat
      BY LiveSize
    <3>3. Missing \in Nat \ {0}
      <4>1. placed \in Nat /\ Len(GlyphsOf[current]) \in Nat
        BY MostGlyphs DEF AtlasInv, OpTypes
      <4> QED
        BY <4>1 DEF Missing
    <3>4. B <= MaxSubRuns * MaxGlyphs /\ MaxSubRuns * MaxGlyphs \in Nat
      <4>1. left.subRuns \in 0 .. MaxSubRuns
        BY DEF AtlasInv, OpTypes
      <4>2. MaxSubRuns \in Nat /\ MaxGlyphs \in Nat
        BY Numbers
      <4>3. \A d \in Nat : (MaxSubRuns - d) * MaxGlyphs + d * MaxGlyphs = MaxSubRuns * MaxGlyphs /\ d * MaxGlyphs \in Nat
        BY <4>2
      <4>4. left.subRuns * MaxGlyphs \in Nat /\ B + left.subRuns * MaxGlyphs = MaxSubRuns * MaxGlyphs
        BY <4>1, <4>3
      <4>5. MaxSubRuns * MaxGlyphs \in Nat
        BY <4>2
      <4> QED
        BY <3>2, <4>4, <4>5
    <3>5. Cardinality(PlotObjects) = A + MaxSubRuns * MaxGlyphs
      BY Numbers DEF MaxPlots
    <3> HIDE DEF A, B, C
    <3>6. C < A + MaxSubRuns * MaxGlyphs
      BY <3>1, <3>2, <3>3, <3>4
    <3> QED
      BY <3>5, <3>6, <3>2 DEF C
  <2>2. \E p \in PlotObjects : p \notin Live
    BY <2>1, LiveSize
  <2> QED
    BY <2>2 DEF Live
<1> HIDE DEF page, old, new
<1>6. plot[old].page \in Active
  BY <1>2, <1>3
<1>7. Replaces(g, old, new)
  BY <1>1, <1>3, <1>4, <1>5, <1>6 DEF Replaces
<1> QED
  BY <1>7

(* What is so afterwards.                                                  *)
Renews(g, old, new) ==
  /\ old \in PlotObjects /\ new \in PlotObjects /\ old # new /\ new \notin Live
  /\ plot'[new] \in Records
  /\ plot'[new].page = plot[old].page /\ plot'[new].index = plot[old].index
  /\ plot'[new].glyphs = <<g>> /\ plot'[new].clean = 0 /\ plot'[new].gen = fGeneration + 1
  /\ plot'[new].lastUpload = NextDrawToken /\ plot'[new].lastUse = NextDrawToken
  /\ \A p \in PlotObjects : p # new /\ (p # old \/ old \in Pending) => plot'[p] = plot[p]
  /\ Listed' = (Listed \ {old}) \union {new}
  /\ Slot(new)' = Slot(old)
  /\ Uploads' = Uploads \union {[plot |-> new, before |-> NextDrawToken]}
  /\ Pending' = Pending \union {new}
  /\ NextDrawToken' = NextDrawToken /\ NextTokenToFlush' = NextTokenToFlush /\ Active' = Active
  /\ Slot(old) \notin ToSet(fBulkUseToken[current])
  /\ fGeneration' = fGeneration + 2 /\ fAtlasGeneration' = fGeneration
  /\ \A p \in Listed : plot[p].lastUse = NextDrawToken => p # old

LEMMA ReplacedInList ==
  ASSUME NEW list \in Seq(PlotObjects), IsOnce(list), NEW old \in ToSet(list),
         NEW new \in PlotObjects, new \notin ToSet(list)
  PROVE  LET made == <<new>> \o Omit(list, {old})
         IN /\ made \in Seq(PlotObjects) /\ IsOnce(made) /\ Len(made) = Len(list)
            /\ ToSet(made) = (ToSet(list) \ {old}) \union {new}
<1> DEFINE o == Omit(list, {old})
           n == <<new>>
           made == n \o o
<1>1. o \in Seq(PlotObjects) /\ IsOnce(o) /\ ToSet(o) = ToSet(list) \ {old}
  BY OmitSet
<1>2. n \in Seq(PlotObjects) /\ IsOnce(n) /\ ToSet(n) = {new} /\ Len(n) = 1
  BY DEF IsOnce, ToSet
<1> HIDE DEF o, n
<1>3. ToSet(n) \intersect ToSet(o) = {}
  BY <1>1, <1>2
<1>4. made \in Seq(PlotObjects) /\ IsOnce(made) /\ ToSet(made) = ToSet(n) \union ToSet(o)
  BY <1>1, <1>2, <1>3, JoinOnce
<1>5. Len(made) = Len(list)
  <2>1. IsFiniteSet(ToSet(list)) /\ Cardinality(ToSet(list)) = Len(list)
    BY OnceSize
  <2>2. IsFiniteSet(ToSet(o)) /\ Cardinality(ToSet(o)) = Len(o)
    BY <1>1, OnceSize
  <2>3. Cardinality(ToSet(list) \ {old}) = Cardinality(ToSet(list)) - 1
    BY <2>1, FS_RemoveElement
  <2>4. Len(made) = 1 + Len(o) /\ Len(list) \in Nat /\ Len(o) \in Nat
    <3>1. Len(made) = Len(n) + Len(o)
      BY <1>1, <1>2, ConcatProperties
    <3>2. Len(list) \in Nat /\ Len(o) \in Nat
      BY <1>1, LenProperties
    <3> QED
      BY <1>2, <3>1, <3>2
  <2> QED
    BY <1>1, <2>1, <2>2, <2>3, <2>4
<1> QED
  BY <1>1, <1>2, <1>4, <1>5 DEF o, n

LEMMA RenewsFacts ==
  ASSUME AtlasInv, pc = "placing", NEW g \in Glyphs, NEW old, NEW new, Replaces(g, old, new),
         UNCHANGED tokenVars
  PROVE  /\ Renews(g, old, new)
         /\ plot' \in PlotMaps /\ fPlotList' \in ListMaps
         /\ fInlineUploads' \in Seq(UploadRecords)
         /\ fInlineUploads' = Append(fInlineUploads, [plot |-> new, before |-> NextDrawToken])
         /\ fASAPUploads' = fASAPUploads
         /\ Tags(Slot(old)) /\ Slot(old) \in Slots
<1>1. /\ AtlasTypes /\ TokenTypes /\ ListsRight /\ UploadsRight /\ PlacingRight /\ plot \in PlotMaps
      /\ fPlotList \in ListMaps
      /\ fASAPUploads \in Seq(PlotObjects) /\ fInlineUploads \in Seq(UploadRecords)
      /\ fGeneration \in Nat
  BY DEF AtlasInv, ListsRight, AtlasTypes, TokenTypes
<1>2. /\ old \in Listed /\ plot[old].page \in Active /\ plot[old].lastUse # NextDrawToken
      /\ new \in PlotObjects /\ new \notin Live
  BY DEF Replaces
<1>3. old \in PlotObjects /\ plot[old] \in Records /\ Slot(old) \in Slots /\ old # new
      /\ Listed \subseteq PlotObjects
  BY <1>1, <1>2, AtlasFacts DEF Live
<1>4. /\ NextDrawToken \in Nat /\ Pending = {u.plot : u \in Uploads} /\ Pending \subseteq PlotObjects
  BY <1>1, UploadFacts
<1>5. Slot(old) \notin ToSet(fBulkUseToken[current])
  BY <1>1, <1>2 DEF PlacingRight
<1> DEFINE clone == Plot(plot[old].page, plot[old].index, fGeneration + 1)
           r == [clone EXCEPT !.glyphs = <<g>>, !.lastUpload = NextDrawToken]
<1>6. /\ clone.page = plot[old].page
      /\ r \in Records /\ r.page = plot[old].page /\ r.index = plot[old].index
      /\ r.glyphs = <<g>> /\ r.clean = 0 /\ r.gen = fGeneration + 1 /\ r.lastUpload = NextDrawToken
  <2>1. <<g>> \in Seq(Glyphs) /\ fGeneration + 1 \in Nat \ {0}
    BY <1>1
  <2> QED
    BY <1>3, <1>4, <2>1 DEF Plot, Records, AlreadyFlushed
<1>7. /\ plot' = [p \in PlotObjects |-> IF p = new THEN Tagged(r)
                   ELSE IF p = old /\ old \notin Pending THEN None ELSE plot[p]]
      /\ fPlotList' = [fPlotList EXCEPT ![clone.page] = <<new>> \o Omit(@, {old})]
      /\ fInlineUploads' = Append(fInlineUploads, [plot |-> new, before |-> NextDrawToken])
      /\ Tags(Slot(old)) /\ ProcessEviction /\ UNCHANGED <<fNumActivePages, fASAPUploads>>
  BY DEF Replaces
<1> HIDE DEF clone, r
<1>8. LET t == Tagged(r)
      IN /\ t \in Records /\ t.page = plot[old].page /\ t.index = plot[old].index
         /\ t.glyphs = <<g>> /\ t.clean = 0 /\ t.gen = fGeneration + 1
         /\ t.lastUpload = NextDrawToken /\ t.lastUse = NextDrawToken
  <2>1. <<r.page, r.index>> = Slot(old)
    BY <1>6 DEF Slot
  <2>2. Tagged(r) = [r EXCEPT !.lastUse = NextDrawToken]
    BY <1>5, <2>1 DEF Tagged
  <2> QED
    BY <1>4, <1>6, <2>2 DEF Records
<1>9. /\ plot'[new] = Tagged(r)
      /\ \A p \in PlotObjects : p # new /\ (p # old \/ old \in Pending) => plot'[p] = plot[p]
  BY <1>2, <1>7
<1>10. plot' \in PlotMaps
  <2>1. Tagged(r) \in Records
    BY <1>8
  <2>2. \A p \in PlotObjects : plot[p] \in Records \union {None}
    BY <1>1 DEF PlotMaps
  <2> QED
    BY <1>7, <2>1, <2>2 DEF PlotMaps
<1>11. /\ fPlotList' \in ListMaps
       /\ Listed' = (Listed \ {old}) \union {new}
  <2> DEFINE page == plot[old].page
             list == fPlotList[page]
             made == <<new>> \o Omit(list, {old})
  <2>1. page \in Pages /\ list \in Seq(PlotObjects) /\ IsOnce(list) /\ old \in ToSet(list)
    BY <1>1, <1>2, AtlasFacts DEF ListsRight, ListsAre, ListMaps
  <2>2. new \notin ToSet(list)
    BY <1>1, <1>2, <2>1, AtlasFacts DEF Live
  <2>3. made \in Seq(PlotObjects) /\ ToSet(made) = (ToSet(list) \ {old}) \union {new}
    <3> HIDE DEF list
    <3> QED
      BY <1>2, <2>1, <2>2, ReplacedInList
  <2>4. fPlotList' = [fPlotList EXCEPT ![page] = made]
    BY <1>6, <1>7
  <2> HIDE DEF made, page
  <2>5. fPlotList' \in ListMaps
    BY <1>1, <2>1, <2>3, <2>4 DEF ListMaps
  <2>6. \A q \in Pages : ToSet(fPlotList'[q]) = IF q = page THEN (ToSet(fPlotList[page]) \ {old}) \union {new}
                                               ELSE ToSet(fPlotList[q])
    BY <1>1, <2>1, <2>3, <2>4 DEF ListMaps
  <2>7. \A q \in Pages : q # page => old \notin ToSet(fPlotList[q])
    BY <1>1, <1>2, AtlasFacts DEF page
  <2>8. Listed' = (Listed \ {old}) \union {new}
    <3>1. \A p : p \in Listed' <=> \E q \in Pages : p \in ToSet(fPlotList'[q])
      BY DEF Listed
    <3>2. \A p : p \in Listed <=> \E q \in Pages : p \in ToSet(fPlotList[q])
      BY DEF Listed
    <3> QED
      BY <2>1, <2>6, <2>7, <3>1, <3>2
  <2> QED
    BY <2>5, <2>8
<1>12. Slot(new)' = Slot(old)
  BY <1>8, <1>9 DEF Slot
<1>13. /\ fInlineUploads' \in Seq(UploadRecords)
       /\ Uploads' = Uploads \union {[plot |-> new, before |-> NextDrawToken]}
  <2> DEFINE u == [plot |-> new, before |-> NextDrawToken]
  <2>1. u \in UploadRecords
    BY <1>2, <1>4 DEF UploadRecords
  <2> HIDE DEF u
  <2>2. fInlineUploads' = Append(fInlineUploads, u) /\ fASAPUploads' = fASAPUploads
    BY <1>7 DEF u
  <2>3. UploadsIn(fASAPUploads, Append(fInlineUploads, u)) = Uploads \union {u}
    BY <1>1, <1>2, <2>1, UploadsAppend DEF Uploads
  <2>4. Append(fInlineUploads, u) \in Seq(UploadRecords)
    BY <1>1, <2>1, AppendProperties
  <2> QED
    BY <2>2, <2>3, <2>4 DEF Uploads, u
<1>14. Pending' = Pending \union {new}
  <2>1. Pending' = {u.plot : u \in Uploads'}
    BY PendingIs DEF Pending, Uploads
  <2>2. \A x : [plot |-> new, before |-> x].plot = new
    OBVIOUS
  <2> QED
    BY <1>4, <1>13, <2>1, <2>2
<1>15. /\ NextDrawToken' = NextDrawToken /\ NextTokenToFlush' = NextTokenToFlush /\ Active' = Active
       /\ fGeneration' = fGeneration + 2 /\ fAtlasGeneration' = fGeneration
  BY <1>7 DEF tokenVars, NextDrawToken, NextTokenToFlush, Active, ProcessEviction
<1>16. Renews(g, old, new)
  BY <1>2, <1>3, <1>5, <1>8, <1>9, <1>11, <1>12, <1>13, <1>14, <1>15 DEF Renews
<1> QED
  BY <1>3, <1>7, <1>10, <1>11, <1>13, <1>16

LEMMA RenewsLists ==
  ASSUME AtlasInv, pc = "placing", NEW g \in Glyphs, NEW old, NEW new, Replaces(g, old, new),
         UNCHANGED tokenVars
  PROVE  ListsRight'
<1>1. /\ AtlasTypes /\ ListsRight /\ plot \in PlotMaps /\ fPlotList \in ListMaps
  BY DEF AtlasInv, AtlasTypes
<1>2. Renews(g, old, new) /\ plot' \in PlotMaps
  BY RenewsFacts
<1>3. /\ old \in Listed /\ old \in PlotObjects /\ new \in PlotObjects /\ old # new /\ new \notin Listed
      /\ plot'[new] # None /\ plot'[new].page = plot[old].page
      /\ Listed' = (Listed \ {old}) \union {new}
      /\ \A p \in Listed \ {old} : plot'[p] = plot[p] /\ Slot(p)' = Slot(p)
      /\ Slot(new)' = Slot(old) /\ Slot(old) \in Slots
  <2>1. Listed \subseteq PlotObjects /\ old \in Listed
    BY <1>1, AtlasFacts DEF Replaces
  <2>2. \A p \in Listed \ {old} : plot'[p] = plot[p]
    BY <1>2, <2>1 DEF Renews, Live
  <2>3. \A p \in Listed \ {old} : Slot(p)' = Slot(p)
    BY <2>2 DEF Slot
  <2> QED
    BY <1>1, <1>2, <2>1, <2>2, <2>3, Numbers, AtlasFacts DEF Renews, Live
<1> DEFINE page == plot[old].page
<1>4. /\ page \in Pages /\ fPlotList[page] \in Seq(PlotObjects) /\ IsOnce(fPlotList[page])
      /\ old \in ToSet(fPlotList[page]) /\ new \notin ToSet(fPlotList[page])
      /\ Len(fPlotList[page]) = NumPlots
  BY <1>1, <1>3, AtlasFacts DEF ListsRight, ListsAre, ListMaps
<1> DEFINE made == <<new>> \o Omit(fPlotList[page], {old})
<1>5. /\ IsOnce(made) /\ Len(made) = NumPlots
      /\ ToSet(made) = (ToSet(fPlotList[page]) \ {old}) \union {new}
  BY <1>3, <1>4, ReplacedInList
<1>6. fPlotList' = [fPlotList EXCEPT ![page] = made]
  BY DEF Replaces, Plot
<1> HIDE DEF page, made
<1>7. \A q \in Pages : fPlotList'[q] = IF q = page THEN made ELSE fPlotList[q]
  BY <1>1, <1>4, <1>6 DEF ListMaps
<1>8. \A q \in Pages : Len(fPlotList'[q]) = NumPlots /\ IsOnce(fPlotList'[q])
  BY <1>1, <1>5, <1>7 DEF ListsRight, ListsAre
<1>9. ASSUME NEW q \in Pages, NEW p \in ToSet(fPlotList'[q])
      PROVE  plot'[p] # None /\ plot'[p].page = q
  <2>1. CASE p = new
    <3>1. q = page
      <4>1. \A x \in Pages : new \notin ToSet(fPlotList[x])
        BY <1>3 DEF Listed
      <4> QED
        BY <1>7, <1>9, <2>1, <4>1
    <3> QED
      BY <1>3, <2>1, <3>1 DEF page
  <2>2. CASE p # new
    <3>1. p \in ToSet(fPlotList[q]) /\ p # old
      <4>1. old \in ToSet(fPlotList[q]) => q = page
        BY <1>1, AtlasFacts DEF page
      <4> QED
        BY <1>5, <1>7, <1>9, <2>2, <4>1
    <3>2. p \in Listed \ {old} /\ plot[p] # None /\ plot[p].page = q
      BY <1>1, <3>1, AtlasFacts
    <3> QED
      BY <1>3, <3>2
  <2> QED
    BY <2>1, <2>2
<1>10. ASSUME NEW slot \in Slots PROVE \E p \in Listed' : Slot(p)' = slot
  <2>1. PICK p \in Listed : Slot(p) = slot
    BY <1>1, AtlasFacts
  <2> QED
    BY <1>3, <2>1
<1>11. ASSUME NEW p \in Listed', NEW q \in Listed', Slot(p)' = Slot(q)' PROVE p = q
  <2>1. \A x \in Listed \ {old} : Slot(x)' # Slot(old)
    BY <1>1, <1>3, AtlasFacts
  <2>2. \A x, y \in Listed \ {old} : Slot(x)' = Slot(y)' => x = y
    BY <1>1, <1>3, AtlasFacts
  <2> QED
    BY <1>3, <1>11, <2>1, <2>2
<1>12. Listed' = ListedIn(fPlotList') /\ \A p : Slot(p)' = SlotIn(plot', p)
  BY DEF Listed, ListedIn, Slot, SlotIn
<1>13. ListsAre(plot', fPlotList')
  BY <1>8, <1>9, <1>10, <1>11, <1>12 DEF ListsAre
<1> QED
  BY <1>13 DEF ListsRight

LEMMA RenewsGood ==
  ASSUME AtlasInv, pc = "placing", NEW g \in Glyphs, ~Good(locator[g]),
         NEW old, NEW new, Replaces(g, old, new), UNCHANGED tokenVars
  PROVE  /\ locator' \in [Glyphs -> Locators \union {None}]
         /\ LocatorsRight' /\ KeepsPlaced /\ IsUsed(Slot(old))
         /\ Good(locator[g])' /\ SlotOf(locator[g])' = Slot(old)
<1>1. /\ AtlasTypes /\ ListsRight /\ locator \in [Glyphs -> Locators \union {None}]
      /\ LocatorsRight /\ GenerationsRight /\ PlacingRight /\ fGeneration \in Nat
      /\ fAtlasGeneration < fGeneration /\ fAtlasGeneration \in Nat
  BY DEF AtlasInv, AtlasTypes, GenerationsRight
<1>2. /\ old \in PlotObjects /\ new \in PlotObjects /\ old # new /\ new \notin Live
      /\ plot'[new].page = plot[old].page /\ plot'[new].index = plot[old].index
      /\ plot'[new].glyphs = <<g>> /\ plot'[new].gen = fGeneration + 1
      /\ plot'[new].lastUse = NextDrawToken
      /\ \A p \in PlotObjects : p # new /\ (p # old \/ old \in Pending) => plot'[p] = plot[p]
      /\ Listed' = (Listed \ {old}) \union {new}
      /\ Slot(new)' = Slot(old) /\ Active' = Active
      /\ Slot(old) \notin ToSet(fBulkUseToken[current])
      /\ fGeneration' = fGeneration + 2 /\ fAtlasGeneration' = fGeneration
  <2>1. Renews(g, old, new)
    BY RenewsFacts
  <2> QED
    BY <2>1 DEF Renews
<1>3. /\ old \in Listed /\ plot[old] \in Records /\ plot[old].page \in Active /\ Slot(old) \in Slots
      /\ Listed \subseteq PlotObjects /\ new \notin Listed
      /\ \A p, q \in Listed : Slot(p) = Slot(q) => p = q
  BY <1>1, <1>2, AtlasFacts DEF Replaces, Live
<1>4. \A q \in Listed \ {old} : /\ plot'[q] = plot[q] /\ Slot(q)' = Slot(q)
                                /\ q \in Listed' /\ Slot(q) # Slot(old)
  BY <1>2, <1>3 DEF Slot
<1> DEFINE clone == Plot(plot[old].page, plot[old].index, fGeneration + 1)
           loc == LocatorIn(clone)
<1>5. /\ loc \in Locators /\ SlotOf(loc) = Slot(old) /\ loc.at = 1 /\ loc.gen = fGeneration + 1
      /\ loc.page = plot[old].page /\ loc # None
  <2>1. /\ clone.page = plot[old].page /\ clone.index = plot[old].index
        /\ clone.gen = fGeneration + 1 /\ Len(clone.glyphs) = 0
    BY DEF Plot
  <2>2. 1 \in 1 .. Room
    BY Numbers
  <2> HIDE DEF clone
  <2>3. loc \in Locators /\ loc.at = 1 /\ loc.gen = fGeneration + 1 /\ loc.page = plot[old].page
        /\ loc.index = plot[old].index
    BY <1>1, <1>3, <2>1, <2>2 DEF LocatorIn, Locators, Records
  <2> QED
    BY <2>3, Numbers DEF SlotOf, Slot
<1>6. locator' = [locator EXCEPT ![g] = loc]
  BY DEF Replaces
<1> HIDE DEF loc
<1>8. /\ locator'[g] = loc
      /\ \A h \in Glyphs : h # g => locator'[h] = locator[h]
      /\ locator' \in [Glyphs -> Locators \union {None}]
  BY <1>1, <1>5, <1>6
<1>9. LocatorsRight'
  <2> SUFFICES ASSUME NEW h \in Glyphs, locator'[h] # None
               PROVE  /\ locator'[h].gen < fGeneration'
                      /\ \A q \in Listed' : Located(locator[h], q)' => Holds(q, locator[h].at, h)'
    BY DEF LocatorsRight
  <2>1. CASE h = g
    <3>1. locator'[h].gen < fGeneration' /\ locator'[h].at = 1 /\ SlotOf(locator'[h]) = Slot(old)
      BY <1>1, <1>2, <1>5, <1>8, <2>1
    <3>2. \A q \in Listed' : Located(locator[h], q)' => q = new
      BY <1>2, <1>4, <3>1 DEF Located
    <3>3. Holds(new, locator[h].at, h)'
      BY <1>2, <2>1, <3>1 DEF Holds
    <3> QED
      BY <3>1, <3>2, <3>3
  <2>2. CASE h # g
    <3>1. locator'[h] = locator[h] /\ locator[h] # None
      BY <1>8, <2>2
    <3>2. locator[h].gen \in Nat /\ locator[h].gen < fGeneration
      BY <1>1, <3>1 DEF LocatorsRight, Locators
    <3>3. ASSUME NEW q \in Listed', Located(locator[h], q)' PROVE Holds(q, locator[h].at, h)'
      <4>1. plot'[q].gen = locator[h].gen /\ Slot(q)' = SlotOf(locator[h])
        BY <3>1, <3>3 DEF Located
      <4>2. q # new
        BY <1>1, <1>2, <3>2, <4>1
      <4>3. q \in Listed \ {old}
        BY <1>2, <4>2
      <4>4. Located(locator[h], q)
        BY <1>4, <4>1, <4>3 DEF Located
      <4>5. Holds(q, locator[h].at, h)
        BY <1>1, <3>1, <4>3, <4>4 DEF LocatorsRight
      <4> QED
        BY <1>4, <3>1, <4>3, <4>5 DEF Holds
    <3> QED
      BY <1>1, <1>2, <3>1, <3>2, <3>3
  <2> QED
    BY <2>1, <2>2
<1>10. KeepsPlaced
  <2> SUFFICES ASSUME NEW h \in Glyphs, Good(locator[h]),
                      \/ SlotOf(locator[h]) \in ToSet(fBulkUseToken[current])
                      \/ fAtlasGeneration' = fAtlasGeneration
               PROVE  locator'[h] = locator[h] /\ Good(locator[h])'
    BY DEF KeepsPlaced
  <2>1. SlotOf(locator[h]) # Slot(old) /\ h # g /\ locator[h] # None /\ locator[h].page \in Active
    BY <1>1, <1>2 DEF Good
  <2>2. locator'[h] = locator[h]
    BY <1>8, <2>1
  <2>3. PICK q \in Listed : Slot(q) = SlotOf(locator[h]) /\ plot[q].gen = locator[h].gen
    BY DEF Good, Located
  <2>4. /\ q \in Listed' /\ Slot(q)' = SlotOf(locator'[h]) /\ plot'[q].gen = locator'[h].gen
    BY <1>4, <2>1, <2>2, <2>3
  <2> QED
    BY <1>2, <2>1, <2>2, <2>4 DEF Good, Located
<1>11. IsUsed(Slot(old))
  <2> SUFFICES ASSUME NEW q \in Listed',
                      Slot(q)' = Slot(old) \/ Slot(q)' \in ToSet(fBulkUseToken[current])
               PROVE  plot'[q].lastUse = NextDrawToken
    BY DEF IsUsed
  <2>1. CASE q = new
    BY <1>2, <2>1
  <2>2. CASE q # new
    <3>1. q \in Listed \ {old}
      BY <1>2, <2>2
    <3>2. Slot(q) \in ToSet(fBulkUseToken[current])
      BY <1>4, <3>1
    <3>3. plot[q].lastUse = NextDrawToken
      BY <1>1, <3>1, <3>2 DEF PlacingRight
    <3> QED
      BY <1>4, <3>1, <3>3
  <2> QED
    BY <2>1, <2>2
<1>12. Good(locator[g])' /\ SlotOf(locator[g])' = Slot(old)
  <2>1. locator'[g] = loc /\ new \in Listed'
    BY <1>2, <1>8
  <2>2. Located(locator[g], new)'
    BY <1>2, <1>5, <2>1 DEF Located
  <2>3. locator'[g] # None /\ locator'[g].page \in Active'
    BY <1>2, <1>3, <1>5, <2>1
  <2> QED
    BY <1>5, <2>1, <2>2, <2>3 DEF Good
<1> QED
  BY <1>8, <1>9, <1>10, <1>11, <1>12

LEMMA RenewsUploads ==
  ASSUME AtlasInv, pc = "placing", NEW g \in Glyphs, NEW old, NEW new, Replaces(g, old, new),
         UNCHANGED <<tokenVars, texture, pc, lapsed>>
  PROVE  RecordsRight' /\ TextureRight' /\ UploadsRight' /\ ScheduleRight'
<1>1. /\ AtlasTypes /\ TokenTypes /\ ListsRight /\ RecordsRight /\ TextureRight /\ UploadsRight
      /\ ScheduleRight /\ fASAPUploads \in Seq(PlotObjects) /\ fInlineUploads \in Seq(UploadRecords)
      /\ Prepares /\ fGeneration \in Nat
  BY DEF AtlasInv, TokenTypes, AtlasTypes, Prepares
<1> DEFINE N == NextDrawToken
           u0 == [plot |-> new, before |-> N]
<1>2. /\ Renews(g, old, new)
      /\ fInlineUploads' = Append(fInlineUploads, u0)
      /\ fASAPUploads' = fASAPUploads
  BY RenewsFacts
<1>3. /\ old \in PlotObjects /\ new \in PlotObjects /\ old # new /\ new \notin Live
      /\ plot'[new] \in Records
      /\ plot'[new].glyphs = <<g>> /\ plot'[new].clean = 0 /\ plot'[new].gen = fGeneration + 1
      /\ plot'[new].lastUpload = N /\ plot'[new].lastUse = N
      /\ \A p \in PlotObjects : p # new /\ (p # old \/ old \in Pending) => plot'[p] = plot[p]
      /\ Listed' = (Listed \ {old}) \union {new}
      /\ Slot(new)' = Slot(old)
      /\ Uploads' = Uploads \union {u0}
      /\ Pending' = Pending \union {new}
      /\ NextDrawToken' = N /\ NextTokenToFlush' = NextTokenToFlush
      /\ fGeneration' = fGeneration + 2
  BY <1>2 DEF Renews
<1>4. /\ Uploads \subseteq UploadRecords
      /\ \A u \in Uploads : u.plot \in PlotObjects /\ u.before \in Nat /\ u.before <= N
      /\ Pending = {u.plot : u \in Uploads} /\ Pending \subseteq PlotObjects
      /\ N \in Nat /\ NextTokenToFlush \in Nat /\ NextTokenToFlush <= N
      /\ Listed \subseteq PlotObjects /\ \A p \in Listed : plot[p] \in Records /\ plot[p].lastUse \in Nat
      /\ \A p, q \in Listed : Slot(p) = Slot(q) => p = q
  BY <1>1, UploadFacts, AtlasFacts DEF Records
<1>5. /\ old \in Listed /\ NextTokenToFlush <= plot[old].lastUse /\ plot[old].lastUse # N
  BY DEF Replaces
<1>6. u0.plot = new /\ u0.before = N
  OBVIOUS
<1> HIDE DEF N, u0
<1>7. /\ \A u \in Uploads : u.plot # new /\ plot'[u.plot] = plot[u.plot] /\ Slot(u.plot)' = Slot(u.plot)
      /\ \A p \in Listed : p # old =>
           p # new /\ p \in Listed' /\ plot'[p] = plot[p] /\ Slot(p)' = Slot(p)
      /\ new \in Listed' /\ old \notin Listed'
  BY <1>3, <1>4, <1>5 DEF Live, Slot
<1>8. Len(<<g>>) = 1 /\ <<g>> # <<>>
  OBVIOUS
<1>9. RecordsRight'
  <2>1. ASSUME NEW p \in Live'
        PROVE  /\ plot'[p] # None
               /\ Len(plot'[p].glyphs) <= Room /\ plot'[p].clean <= Len(plot'[p].glyphs)
               /\ plot'[p].gen < fGeneration'
               /\ plot'[p].lastUse <= N /\ plot'[p].lastUpload <= N
    <3>1. CASE p = new
      <4>1. plot'[p] # None
        BY <1>3, <3>1, Numbers
      <4>2. Len(plot'[p].glyphs) = 1 /\ plot'[p].clean = 0
        BY <1>3, <1>8, <3>1
      <4>3. 1 <= Room /\ 0 <= 1
        BY Numbers
      <4>4. plot'[p].gen < fGeneration' /\ plot'[p].lastUse <= N /\ plot'[p].lastUpload <= N
        BY <1>1, <1>3, <1>4, <3>1
      <4> QED
        BY <4>1, <4>2, <4>3, <4>4
    <3>2. CASE p # new
      <4>1. p \in Live /\ plot'[p] = plot[p]
        BY <1>3, <1>4, <1>7, <2>1, <3>2 DEF Live
      <4>2. plot[p].gen \in Nat
        <5>1. p \in PlotObjects /\ plot[p] # None /\ plot[p] \in Records \union {None}
          BY <1>1, <1>4, <4>1 DEF RecordsRight, Live, AtlasTypes, PlotMaps
        <5> QED
          BY <5>1 DEF Records
      <4> QED
        BY <1>1, <1>3, <4>1, <4>2 DEF RecordsRight, N
    <3> QED
      BY <3>1, <3>2
  <2>2. \A p \in Listed' : plot'[p].glyphs # <<>> => plot'[p].lastUse # 0
    <3>1. N # 0
      <4>1. Len(fDraws) \in Nat
        BY SeqSet, <1>1 DEF TokenTypes
      <4> QED
        BY <1>1, <4>1 DEF TokenTypes, N, NextDrawToken
    <3> QED
      BY <1>1, <1>3, <1>7, <3>1 DEF RecordsRight
  <2> QED
    BY <1>3, <2>1, <2>2 DEF RecordsRight
<1>10. TextureRight'
  <2>1. texture' = texture
    OBVIOUS
  <2>2. \A p \in Listed' : \A i \in 1 .. plot'[p].clean : texture'[Slot(p)'][i] = plot'[p].glyphs[i]
    <3>1. \A i \in 1 .. plot'[new].clean : FALSE
      BY <1>3
    <3> QED
      BY <1>1, <1>3, <1>7, <2>1, <3>1 DEF TextureRight
  <2>3. \A p \in Listed' \ Pending' :
          plot'[p].gen \in lapsed' \/ plot'[p].clean = Len(plot'[p].glyphs)
    BY <1>1, <1>3, <1>7 DEF TextureRight
  <2>4. \A u \in Uploads' : /\ plot'[u.plot].clean < Len(plot'[u.plot].glyphs)
                            /\ u.before # 0 => plot'[u.plot].clean = 0
    <3>1. plot'[new].clean < Len(plot'[new].glyphs) /\ plot'[new].clean = 0
      BY <1>3, <1>8
    <3>2. \A u \in Uploads : /\ plot'[u.plot].clean < Len(plot'[u.plot].glyphs)
                             /\ u.before # 0 => plot'[u.plot].clean = 0
      BY <1>1, <1>7 DEF TextureRight
    <3> QED
      BY <1>3, <1>6, <3>1, <3>2
  <2> QED
    BY <2>2, <2>3, <2>4 DEF TextureRight
<1>11. UploadsRight'
  <2>1. /\ Len(fInlineUploads) \in Nat /\ Len(fInlineUploads') = Len(fInlineUploads) + 1
        /\ fInlineUploads'[Len(fInlineUploads) + 1] = u0
        /\ \A i \in 1 .. Len(fInlineUploads) : fInlineUploads'[i] = fInlineUploads[i]
    <3>1. u0 \in UploadRecords
      BY <1>3, <1>4 DEF u0, UploadRecords
    <3> QED
      BY <1>1, <1>2, <3>1, AppendProperties, LenProperties
  <2>2. \A i \in 1 .. Len(fInlineUploads) : fInlineUploads[i] \in Uploads
    BY <1>1, UploadsAre DEF Uploads
  <2>3. \A i, j \in 1 .. Len(fASAPUploads') : fASAPUploads'[i] = fASAPUploads'[j] => i = j
    BY <1>1, <1>2 DEF UploadsRight
  <2>4. ASSUME NEW i \in 1 .. Len(fInlineUploads'), NEW j \in 1 .. Len(fInlineUploads')
        PROVE  /\ fInlineUploads'[i].plot = fInlineUploads'[j].plot => i = j
               /\ i <= j => fInlineUploads'[i].before <= fInlineUploads'[j].before
               /\ fInlineUploads'[i].before \in NextTokenToFlush .. N
    <3> DEFINE n == Len(fInlineUploads)
    <3>1. (i \in 1 .. n \/ i = n + 1) /\ (j \in 1 .. n \/ j = n + 1)
      BY <2>1, <2>4
    <3>2. \A k \in 1 .. n : /\ fInlineUploads'[k].plot # new /\ fInlineUploads'[k].before <= N
                            /\ fInlineUploads'[k].before \in NextTokenToFlush .. N
      BY <1>1, <1>4, <1>7, <2>1, <2>2 DEF UploadsRight, N
    <3>3. \A k, l \in 1 .. n :
            /\ fInlineUploads'[k].plot = fInlineUploads'[l].plot => k = l
            /\ k <= l => fInlineUploads'[k].before <= fInlineUploads'[l].before
      BY <1>1, <2>1 DEF UploadsRight
    <3>4. fInlineUploads'[n + 1].plot = new /\ fInlineUploads'[n + 1].before = N
      BY <1>6, <2>1
    <3>5. n \in Nat
      BY <2>1
    <3> HIDE DEF n
    <3> QED
      BY <1>4, <3>1, <3>2, <3>3, <3>4, <3>5
  <2>5. \A u, v \in Uploads' : u.plot = v.plot => u = v
    BY <1>1, <1>3, <1>6, <1>7 DEF UploadsRight
  <2>6. ASSUME NEW u \in Uploads', u.plot \notin Listed'
        PROVE  \E v \in Uploads' : v.plot \in Listed' /\ Slot(v.plot)' = Slot(u.plot)' /\ u.before < v.before
    <3>1. u \in Uploads /\ Slot(u.plot)' = Slot(u.plot)
      BY <1>3, <1>6, <1>7, <2>6
    <3>2. \A v \in Uploads : v.plot \in Listed /\ Slot(v.plot) = Slot(old) => v.before < N
      <4> SUFFICES ASSUME NEW v \in Uploads, v.plot \in Listed, Slot(v.plot) = Slot(old)
                   PROVE  v.before < N
        OBVIOUS
      <4>1. v.plot = old
        BY <1>4, <1>5
      <4>2. v.before <= plot[old].lastUse
        BY <1>1, <4>1 DEF ScheduleRight
      <4>3. plot[old].lastUse <= N
        BY <1>1, <1>5 DEF RecordsRight, Live, N
      <4> QED
        BY <1>4, <1>5, <4>2, <4>3
    <3>3. CASE u.plot \in Listed
      <4>1. u.plot = old
        BY <1>7, <2>6, <3>3
      <4>2. u.before < N
        BY <3>1, <3>2, <3>3, <4>1
      <4> QED
        BY <1>3, <1>6, <1>7, <3>1, <4>1, <4>2
    <3>4. CASE u.plot \notin Listed
      <4>1. PICK v \in Uploads : v.plot \in Listed /\ Slot(v.plot) = Slot(u.plot) /\ u.before < v.before
        BY <1>1, <3>1, <3>4 DEF UploadsRight
      <4>2. CASE v.plot = old
        <5>1. v.before < N
          BY <3>2, <4>1, <4>2
        <5>2. u.before < N
          BY <1>4, <3>1, <4>1, <5>1
        <5> QED
          BY <1>3, <1>6, <1>7, <3>1, <4>1, <4>2, <5>2
      <4>3. CASE v.plot # old
        BY <1>3, <1>7, <3>1, <4>1, <4>3
      <4> QED
        BY <4>2, <4>3
    <3> QED
      BY <3>3, <3>4
  <2> QED
    BY <1>3, <2>3, <2>4, <2>5, <2>6 DEF UploadsRight, N
<1>12. ScheduleRight'
  <2>1. \A u \in Uploads' : u.plot \in Listed' =>
         /\ u.before <= plot'[u.plot].lastUse /\ NextTokenToFlush <= plot'[u.plot].lastUse
         /\ NextTokenToFlush <= plot'[u.plot].lastUpload
    <3> SUFFICES ASSUME NEW u \in Uploads', u.plot \in Listed'
                 PROVE  /\ u.before <= plot'[u.plot].lastUse /\ NextTokenToFlush <= plot'[u.plot].lastUse
                        /\ NextTokenToFlush <= plot'[u.plot].lastUpload
      OBVIOUS
    <3>1. CASE u = u0
      BY <1>3, <1>4, <1>6, <3>1
    <3>2. CASE u # u0
      <4>1. u \in Uploads /\ u.plot \in Listed /\ plot'[u.plot] = plot[u.plot]
        BY <1>3, <1>7, <3>2
      <4> QED
        BY <1>1, <4>1 DEF ScheduleRight
    <3> QED
      BY <3>1, <3>2
  <2>2. \A p \in Listed' :
          NextTokenToFlush <= plot'[p].lastUpload => p \in Pending' \/ plot'[p].gen \in lapsed'
    BY <1>1, <1>3, <1>7 DEF ScheduleRight
  <2> QED
    BY <1>3, <2>1, <2>2 DEF ScheduleRight
<1> QED
  BY <1>9, <1>10, <1>11, <1>12

LEMMA RenewsDraws ==
  ASSUME AtlasInv, pc = "placing", NEW g \in Glyphs, NEW old, NEW new, Replaces(g, old, new),
         UNCHANGED <<tokenVars, texture, pc, fDraws>>
  PROVE  DrawsRight' /\ KeepsReady
<1>1. /\ AtlasTypes /\ TokenTypes /\ ListsRight /\ UploadsRight /\ DrawsRight /\ Prepares
  BY DEF AtlasInv, Prepares
<1> DEFINE N == NextDrawToken
           u0 == [plot |-> new, before |-> N]
<1>2. Renews(g, old, new)
  BY RenewsFacts
<1>3. /\ old \in PlotObjects /\ new \in PlotObjects /\ old # new /\ new \notin Live
      /\ plot'[new].lastUse = N
      /\ \A p \in PlotObjects : p # new /\ (p # old \/ old \in Pending) => plot'[p] = plot[p]
      /\ Listed' = (Listed \ {old}) \union {new}
      /\ Slot(new)' = Slot(old)
      /\ Uploads' = Uploads \union {u0}
      /\ NextDrawToken' = N
  BY <1>2 DEF Renews
<1>4. /\ \A u \in Uploads : u.plot \in PlotObjects
      /\ Pending = {u.plot : u \in Uploads} /\ N \in Nat /\ Listed \subseteq PlotObjects
  BY <1>1, UploadFacts, AtlasFacts
<1>5. old \in Listed /\ plot[old].lastUse # N
  BY DEF Replaces
<1>6. u0.plot = new /\ u0.before = N
  OBVIOUS
<1> HIDE DEF u0
<1>7. /\ \A u \in Uploads : plot'[u.plot] = plot[u.plot] /\ Slot(u.plot)' = Slot(u.plot)
      /\ \A p \in Listed : p # old => p \in Listed' /\ plot'[p] = plot[p] /\ Slot(p)' = Slot(p)
      /\ \A p \in Listed' : p # new => p \in Listed /\ p # old
  BY <1>3, <1>4, <1>5 DEF Live, Slot
<1>8. KeepsReady
  <2> SUFFICES ASSUME NEW quad, Ready(quad) PROVE Ready(quad)'
    BY DEF KeepsReady
  <2>1. ASSUME NEW q \in Listed', Slot(q)' = SlotOf(quad.loc)
        PROVE  /\ plot'[q].gen = quad.loc.gen /\ plot'[q].lastUse = N
               /\ Holds(q, quad.loc.at, quad.glyph)'
    <3>1. q # new
      BY <1>3, <1>5, <2>1 DEF Ready
    <3>2. q \in Listed /\ plot'[q] = plot[q] /\ Slot(q) = SlotOf(quad.loc)
      BY <1>7, <2>1, <3>1
    <3>3. /\ plot[q].gen = quad.loc.gen /\ plot[q].lastUse = N
          /\ Holds(q, quad.loc.at, quad.glyph)
      BY <3>2 DEF Ready
    <3> QED
      BY <3>2, <3>3 DEF Holds
  <2>2. quad.loc # None
    BY DEF Ready
  <2> QED
    BY <1>3, <2>1, <2>2 DEF Ready
<1>9. ASSUME NEW k \in 1 .. Len(fDraws), NEW quad \in fDraws[k], quad.whole
      PROVE  /\ quad.loc # None
             /\ WillRead(quad, fLastFlushedToken + k)'
             /\ Reserved(quad, fLastFlushedToken + k)'
  <2> DEFINE loc == quad.loc
             token == fLastFlushedToken + k
  <2>1. quad.loc # None /\ WillRead(quad, token) /\ Reserved(quad, token)
    BY <1>1, <1>9 DEF DrawsRight
  <2>2. token \in Nat /\ token < N /\ token' = token
    <3>1. Len(fDraws) \in Nat
      BY <1>1, SeqSet DEF TokenTypes
    <3> QED
      BY <1>1, <3>1 DEF TokenTypes, NextDrawToken, tokenVars
  <2> HIDE DEF token, N
  <2>3. SameUploads(loc, token)
    <3>1. \A u \in Uploads : ReadsSame(u, loc)
      BY <1>7 DEF ReadsSame, Covers
    <3>2. \A u \in Uploads' : u.before <= token => u \in Uploads
      BY <1>3, <1>4, <1>6, <2>2
    <3>3. Uploads \subseteq Uploads' /\ texture' = texture
      BY <1>3
    <3> QED
      BY <3>1, <3>2, <3>3 DEF SameUploads
  <2>4. WillRead(quad, token)'
    BY <2>1, <2>2, <2>3, WillReadKept
  <2>5. ASSUME NEW q \in Listed', Slot(q)' = SlotOf(loc)
        PROVE  /\ token <= plot'[q].lastUse
               /\ \/ Holds(q, loc.at, quad.glyph)'
                  \/ \E u \in Uploads' : u.plot = q /\ token < u.before
    <3>1. CASE q = new
      BY <1>3, <1>4, <1>6, <2>2, <3>1
    <3>2. CASE q # new
      <4>1. q \in Listed /\ plot'[q] = plot[q] /\ Slot(q) = SlotOf(loc)
        BY <1>7, <2>5, <3>2
      <4>2. /\ token <= plot[q].lastUse
            /\ \/ Holds(q, loc.at, quad.glyph)
               \/ \E u \in Uploads : u.plot = q /\ token < u.before
        BY <2>1, <4>1 DEF Reserved
      <4> QED
        BY <1>3, <4>1, <4>2 DEF Holds
    <3> QED
      BY <3>1, <3>2
  <2>6. Reserved(quad, token)'
    BY <2>2, <2>5 DEF Reserved
  <2> QED
    BY <2>1, <2>2, <2>4, <2>6 DEF token
<1>10. fDraws' = fDraws /\ fLastFlushedToken' = fLastFlushedToken
  BY DEF tokenVars
<1>11. DrawsRight'
  BY <1>9, <1>10 DEF DrawsRight
<1> QED
  BY <1>8, <1>11

LEMMA ReplaceKeeps ==
  ASSUME AtlasInv, pc = "placing", placed < Len(GlyphsOf[current]), ~HasGlyph,
         placed' = placed + 1,
         UNCHANGED <<fPrevFlushToken, tokenVars, fDraws, texture, subRunGeneration, texCoords,
                     broken, pc, current, begin, quads, left, giveUpVars>>,
         NEW old, NEW new, Replaces(NextGlyph, old, new)
  PROVE  AtlasInv'
<1>1. PICK g \in Glyphs : g = NextGlyph
  BY NextGlyphIs
<1>2. /\ ~Good(locator[g]) /\ Replaces(g, old, new)
      /\ UNCHANGED <<tokenVars, texture, pc, fDraws, lapsed>>
  BY <1>1, NextGlyphIs DEF giveUpVars
<1>3. /\ Renews(g, old, new)
      /\ plot' \in PlotMaps /\ fPlotList' \in ListMaps
      /\ fInlineUploads' \in Seq(UploadRecords) /\ fASAPUploads' = fASAPUploads
      /\ Tags(Slot(old)) /\ Slot(old) \in Slots
  BY <1>2, RenewsFacts
<1>4. ListsRight'
  BY <1>2, RenewsLists
<1>5. /\ locator' \in [Glyphs -> Locators \union {None}]
      /\ LocatorsRight' /\ KeepsPlaced /\ IsUsed(Slot(old))
      /\ Good(locator[g])' /\ SlotOf(locator[g])' = Slot(old)
  BY <1>2, RenewsGood
<1>6. RecordsRight' /\ TextureRight' /\ UploadsRight' /\ ScheduleRight'
  BY <1>2, RenewsUploads
<1>7. DrawsRight' /\ KeepsReady
  BY <1>2, RenewsDraws, SMTT(40)
<1>8. /\ fGeneration \in Nat /\ fGeneration' = fGeneration + 2 /\ fAtlasGeneration' = fGeneration
      /\ fNumActivePages' = fNumActivePages
  BY <1>2, <1>3 DEF Renews, Replaces, AtlasInv, AtlasTypes
<1>9. fGeneration' \in Nat /\ fAtlasGeneration' \in Nat /\ NewGeneration
  BY <1>8 DEF NewGeneration
<1>10. AtlasTypes'
  BY <1>3, <1>5, <1>8, <1>9 DEF AtlasTypes, AtlasInv
<1>11. TokenTypes'
  BY <1>3 DEF TokenTypes, tokenVars, AtlasInv
<1>12. IsPlaced(Slot(old))
  BY <1>1, <1>5 DEF IsPlaced
<1>13. /\ OpTypes' /\ GenerationsRight' /\ PlacingRight' /\ QuadsRight' /\ TokensRight'
       /\ Missing' = Missing - 1 /\ Missing \in Nat /\ left' = left
  BY <1>3, <1>5, <1>7, <1>9, <1>10, <1>12, PlacesOne
<1>14. PlotsLast'
  <2>1. Live' \subseteq Live \union {new}
    <3>1. /\ Listed' = (Listed \ {old}) \union {new} /\ Pending' = Pending \union {new}
      BY <1>3 DEF Renews
    <3> QED
      BY <3>1 DEF Live
  <2>2. IsFiniteSet(Live) /\ Cardinality(Live) \in Nat
    BY LiveSize
  <2>3. PICK m \in Nat : m = Cardinality(Live') /\ m <= Cardinality(Live) + 1
    <3>1. /\ IsFiniteSet(Live \union {new})
          /\ Cardinality(Live \union {new}) = IF new \in Live THEN Cardinality(Live) ELSE Cardinality(Live) + 1
      BY <2>2, FS_AddElement
    <3>2. IsFiniteSet(Live') /\ Cardinality(Live') <= Cardinality(Live \union {new})
      BY <2>1, <3>1, FS_Subset
    <3>3. Cardinality(Live') \in Nat
      BY <3>2, FS_CardinalityType
    <3> QED
      BY <2>2, <3>1, <3>2, <3>3
  <2>4. Missing' \in Nat
    <3>1. placed \in Nat /\ Len(GlyphsOf[current]) \in Nat
      BY MostGlyphs DEF AtlasInv, OpTypes
    <3>2. Missing = Len(GlyphsOf[current]) - placed
      BY DEF Missing
    <3> QED
      BY <1>13, <3>1, <3>2
  <2>5. m + Missing' <= Cardinality(Live) + Missing
    <3>1. \A d \in Nat : d = Missing - 1 => m + d <= Cardinality(Live) + Missing
      BY <1>13, <2>2, <2>3
    <3> QED
      BY <1>13, <2>4, <3>1
  <2> QED
    BY <1>13, <2>3, <2>4, <2>5, NoMorePlots
<1> QED
  BY <1>3, <1>4, <1>5, <1>6, <1>7, <1>10, <1>11, <1>13, <1>14 DEF AtlasInv

LEMMA AddsPages ==
  ASSUME AtlasInv, PagesRight, NEW p \in Listed, NEW g, NEW record, Adds(g, p, record), Widens(p)
  PROVE  PagesRight'
<1> SUFFICES ASSUME NEW q \in Listed
             PROVE  plot'[q].page \in Active' \/ plot'[q].glyphs = <<>>
  BY DEF PagesRight, Adds
<1>1. AtlasTypes /\ ListsRight /\ p \in PlotObjects /\ q \in PlotObjects /\ plot[p].page \in Pages
  BY AtlasFacts DEF AtlasInv
<1>2. Active \subseteq Active' /\ plot[p].page \in Active'
  <2>1. fNumActivePages \in Nat /\ fNumActivePages' \in Nat /\ fNumActivePages <= fNumActivePages'
    BY <1>1, Numbers DEF AtlasTypes, Widens
  <2> QED
    BY <1>1, <2>1, Numbers DEF Active, Widens, Pages
<1>3. CASE q = p
  BY <1>2, <1>3 DEF Adds
<1>4. CASE q # p
  <2>1. plot'[q] = plot[q]
    BY <1>1, <1>4 DEF Adds
  <2> QED
    BY <1>2, <2>1 DEF PagesRight
<1> QED
  BY <1>3, <1>4

LEMMA RenewsPages ==
  ASSUME AtlasInv, PagesRight, NEW g, NEW old, NEW new, Renews(g, old, new), Replaces(g, old, new)
  PROVE  PagesRight'
<1> SUFFICES ASSUME NEW q \in Listed'
             PROVE  plot'[q].page \in Active' \/ plot'[q].glyphs = <<>>
  BY DEF PagesRight
<1>1. AtlasTypes /\ ListsRight /\ Listed \subseteq PlotObjects /\ new \in PlotObjects /\ new \notin Listed
  BY AtlasFacts, SMTT(40) DEF AtlasInv, Renews, Live
<1>2. Active' = Active /\ plot[old].page \in Active
  BY DEF Renews, Replaces
<1>3. CASE q = new
  BY <1>2, <1>3 DEF Renews
<1>4. CASE q # new
  <2>1. q \in Listed /\ q # old
    BY <1>1, <1>4 DEF Renews, Replaces
  <2>2. plot'[q] = plot[q]
    BY <1>1, <1>4, <2>1 DEF Renews
  <2> QED
    BY <1>2, <2>1, <2>2, SMTT(40) DEF PagesRight
<1> QED
  BY <1>3, <1>4

LEMMA PlaceNewKeeps ==
  ASSUME AtlasInv, PagesRight, PlaceNew
  PROVE  AtlasInv' /\ PagesRight'
<1>1. /\ pc = "placing" /\ placed < Len(GlyphsOf[current]) /\ ~HasGlyph
      /\ AddToAtlas(NextGlyph) /\ placed' = placed + 1
      /\ UNCHANGED <<fPrevFlushToken, tokenVars, fDraws, texture, subRunGeneration, texCoords,
                     broken, pc, current, begin, quads, left, giveUpVars>>
  BY DEF PlaceNew
<1>2. PICK g \in Glyphs : g = NextGlyph
  BY <1>1, NextGlyphIs
<1>3. CASE Share(g) \/ Activate(g) \/ EvictFlushed(g)
  <2>1. PICK p \in Listed : \E record :
          (Grows(p, record) \/ Restarts(p, record)) /\ AddASAP(g, p, record) /\ Widens(p)
    BY <1>3, PlacesASAP
  <2>2. PICK record :
          (Grows(p, record) \/ Restarts(p, record)) /\ AddASAP(g, p, record) /\ Widens(p)
    BY <2>1
  <2>3. AtlasInv'
    BY <1>1, <1>2, <2>2, AddASAPKeeps
  <2>4. Adds(g, p, record)
    BY <1>1, <2>2, AddsFacts
  <2> QED
    BY <2>2, <2>3, <2>4, AddsPages
<1>4. CASE Replace(g)
  <2>1. PICK old, new : Replaces(g, old, new)
    BY <1>1, <1>4, ReplaceIs
  <2>2. AtlasInv'
    BY <1>1, <1>2, <2>1, ReplaceKeeps
  <2>3. Renews(g, old, new)
    BY <1>1, <2>1, RenewsFacts
  <2> QED
    BY <2>1, <2>2, <2>3, RenewsPages
<1> QED
  BY <1>1, <1>2, <1>3, <1>4 DEF AddToAtlas
-----------------------------------------------------------------------------
(* What is ready for the next draw, that draw will read.                   *)
LEMMA ReadyReads ==
  ASSUME AtlasInv, NEW quad \in QuadsOf, Ready(quad), ~IsLapsed(quad.loc)
  PROVE  WillRead(quad, NextDrawToken) /\ Reserved(quad, NextDrawToken)
<1> DEFINE loc == quad.loc
           N == NextDrawToken
<1>1. AtlasTypes /\ TokenTypes /\ ListsRight /\ TextureRight /\ UploadsRight
  BY DEF AtlasInv
<1>2. /\ loc # None
      /\ \A p \in Listed : Slot(p) = SlotOf(loc) =>
           /\ plot[p].gen = loc.gen /\ plot[p].lastUse = N /\ Holds(p, loc.at, quad.glyph)
  BY DEF Ready
<1>3. SlotOf(loc) \in Slots
  <2>1. loc \in Locators \union {None}
    BY DEF QuadsOf
  <2> QED
    BY <1>1, <1>2, <2>1, GoodIs
<1>4. PICK p \in Listed : Slot(p) = SlotOf(loc)
  BY <1>1, <1>3, AtlasFacts
<1>5. Reserved(quad, N)
  <2>1. N <= N
    BY <1>1, UploadFacts
  <2> QED
    BY <1>2, <2>1 DEF Reserved
<1>6. /\ loc.at \in 1 .. Len(plot[p].glyphs) /\ plot[p].glyphs[loc.at] = quad.glyph
  BY <1>2, <1>4 DEF Holds
<1>7. /\ plot[p] \in Records /\ \A q \in Listed : Slot(q) = Slot(p) => q = p
  BY <1>1, <1>4, AtlasFacts
<1>8. plot[p].clean \in Nat /\ Len(plot[p].glyphs) \in Nat
  BY <1>7, SeqSet DEF Records
<1>9. /\ \A u \in Uploads : u.before \in Nat /\ u.before <= N
      /\ Pending = {u.plot : u \in Uploads}
      /\ \A u, v \in Uploads : u.plot = v.plot => u = v
  BY <1>1, UploadFacts DEF UploadsRight
<1>10. ASSUME NEW u \in Uploads, Slot(u.plot) = SlotOf(loc), u.plot # p
       PROVE  \E v \in Uploads : v.plot = p /\ u.before < v.before
  <2>1. u.plot \notin Listed
    BY <1>4, <1>7, <1>10
  <2>2. PICK v \in Uploads : v.plot \in Listed /\ Slot(v.plot) = Slot(u.plot) /\ u.before < v.before
    BY <1>1, <2>1 DEF UploadsRight
  <2> QED
    BY <1>4, <1>7, <1>10, <2>2
<1> HIDE DEF N, loc
<1>11. CASE loc.at <= plot[p].clean
  <2>1. ReadsRight(quad)
    <3>1. loc.at \in 1 .. plot[p].clean
      BY <1>6, <1>8, <1>11
    <3>2. texture[Slot(p)][loc.at] = plot[p].glyphs[loc.at]
      BY <1>1, <1>4, <3>1 DEF TextureRight
    <3> QED
      BY <1>4, <1>6, <3>2 DEF ReadsRight, SlotOf, loc
  <2>2. ASSUME NEW u \in Uploads, Covers(u, loc) PROVE FALSE
    <3>1. Slot(u.plot) = SlotOf(loc) /\ loc.at \in plot[u.plot].clean + 1 .. Len(plot[u.plot].glyphs)
      BY <2>2 DEF Covers
    <3>2. CASE u.plot = p
      BY <1>6, <1>8, <1>11, <3>1, <3>2
    <3>3. CASE u.plot # p
      <4>1. PICK v \in Uploads : v.plot = p /\ u.before < v.before
        BY <1>10, <3>1, <3>3
      <4>2. plot[p].clean = 0
        BY <1>1, <1>9, <4>1 DEF TextureRight
      <4> QED
        BY <1>6, <1>8, <1>11, <4>2
    <3> QED
      BY <3>2, <3>3
  <2>3. WillRead(quad, N)
    BY <2>1, <2>2 DEF WillRead, loc
  <2> QED
    BY <1>5, <2>3 DEF N
<1>12. CASE ~(loc.at <= plot[p].clean)
  <2>1. p \in Pending
    <3>1. plot[p].gen \notin lapsed
      BY <1>2, <1>4 DEF IsLapsed, loc
    <3> QED
      BY <1>1, <1>4, <1>6, <1>8, <1>12, <3>1 DEF TextureRight
  <2>2. PICK u \in Uploads : u.plot = p
    BY <1>9, <2>1
  <2>3. Covers(u, loc)
    BY <1>4, <1>6, <1>8, <1>12, <2>2 DEF Covers
  <2>4. \A v \in Uploads : v.before <= N /\ Slot(v.plot) = SlotOf(loc) /\ v # u => v.before < u.before
    BY <1>9, <1>10, <2>2
  <2>5. u.before <= N /\ plot[u.plot].glyphs[loc.at] = quad.glyph
    BY <1>6, <1>9, <2>2
  <2>6. WillRead(quad, N)
    BY <2>3, <2>4, <2>5 DEF WillRead, loc
  <2> QED
    BY <1>5, <2>6 DEF N
<1> QED
  BY <1>11, <1>12

(* A draw may be recorded, and the atlas stays as it is.                   *)
LEMMA DrawKeeps ==
  ASSUME AtlasInv, Prepares,
         UNCHANGED <<atlasVars, fPrevFlushToken, uploadVars, texture, locator, lapsed>>,
         NEW read \in SUBSET QuadsOf, AreReady(read),
         \/ UNCHANGED <<fDraws, tokenVars>> /\ (Excused => Excused')
         \/ RecordDraw(read)
  PROVE  /\ AtlasTypes' /\ TokenTypes' /\ ListsRight' /\ RecordsRight' /\ LocatorsRight'
         /\ DrawsRight' /\ TextureRight' /\ UploadsRight' /\ ScheduleRight' /\ TokensRight'
         /\ Live' = Live /\ \A loc : Good(loc)' <=> Good(loc)
<1>1. /\ AtlasTypes /\ TokenTypes /\ ListsRight /\ RecordsRight /\ LocatorsRight /\ DrawsRight
      /\ TextureRight /\ UploadsRight /\ ScheduleRight /\ TokensRight
  BY DEF AtlasInv
<1>2. CASE UNCHANGED <<fDraws, tokenVars>> /\ (Excused => Excused')
  <2>1. Tagging({})
    BY <1>2, Untouched DEF atlasVars
  <2>2. {} \in SUBSET Listed
    OBVIOUS
  <2>3. /\ AtlasTypes' /\ ListsRight' /\ RecordsRight' /\ LocatorsRight' /\ DrawsRight'
        /\ TextureRight' /\ UploadsRight' /\ ScheduleRight'
        /\ Live' = Live /\ \A loc : Good(loc)' <=> Good(loc)
    BY <2>1, <2>2, TaggingGoesOn
  <2>4. TokenTypes'
    BY <1>1, <1>2 DEF TokenTypes, tokenVars, uploadVars
  <2>5. TokensRight'
    BY <1>1, <1>2 DEF TokensRight, Excused, tokenVars, uploadVars, atlasVars, Uploads, Listed
  <2> QED
    BY <2>3, <2>4, <2>5
<1>3. CASE RecordDraw(read)
  <2> DEFINE N == NextDrawToken
             n == Len(fDraws)
  <2>1. /\ plot' = plot /\ fPlotList' = fPlotList /\ fNumActivePages' = fNumActivePages
        /\ fGeneration' = fGeneration /\ fAtlasGeneration' = fAtlasGeneration
        /\ fASAPUploads' = fASAPUploads /\ fInlineUploads' = fInlineUploads
        /\ fLastFlushedToken' = fLastFlushedToken /\ fLastIssuedToken' = N
        /\ fDraws' = Append(fDraws, read) /\ texture' = texture /\ locator' = locator
    BY <1>3 DEF RecordDraw, atlasVars, uploadVars
  <2>2. /\ N \in Nat /\ NextTokenToFlush \in Nat /\ NextTokenToFlush <= N
        /\ \A u \in Uploads : u.before \in Nat /\ u.before <= N
    BY <1>1, UploadFacts
  <2>3. /\ Len(fDraws') = n + 1 /\ fDraws'[n + 1] = read /\ n \in Nat
        /\ \A k \in 1 .. n : fDraws'[k] = fDraws[k]
        /\ fDraws' \in Seq(SUBSET QuadsOf)
    BY <1>1, <2>1, AppendProperties, LenProperties DEF TokenTypes
  <2>4. fLastFlushedToken + n + 1 = N /\ fLastFlushedToken \in Nat /\ N = fLastIssuedToken + 1
    BY <1>1, <2>3 DEF TokenTypes, NextDrawToken
  <2>5. TokenTypes'
    <3>1. fLastFlushedToken' + Len(fDraws') = fLastIssuedToken'
      BY <2>1, <2>3, <2>4
    <3> QED
      BY <1>1, <2>1, <2>2, <2>3, <3>1 DEF TokenTypes
  <2>6. Uploads' = Uploads /\ Listed' = Listed /\ Pending' = Pending /\ Live' = Live /\ Active' = Active
    BY <2>1 DEF Uploads, Listed, Pending, Live, Active
  <2>7. NextDrawToken' = N + 1 /\ NextTokenToFlush' = NextTokenToFlush
    BY <2>1 DEF NextDrawToken, NextTokenToFlush
  <2>8. \A p : Slot(p)' = Slot(p)
    BY <2>1 DEF Slot
  <2>9. AtlasTypes' /\ ListsRight' /\ LocatorsRight'
    BY <1>1, <2>1, <2>6, <2>8 DEF AtlasTypes, ListsRight, LocatorsRight, Located, Holds
  <2>10. \A loc : Good(loc)' <=> Good(loc)
    BY <2>1, <2>6, <2>8 DEF Good, Located
  <2> HIDE DEF n
  <2>11. RecordsRight'
    <3>1. \A p \in Live : /\ plot[p] # None
                          /\ Len(plot[p].glyphs) <= Room /\ plot[p].clean <= Len(plot[p].glyphs)
                          /\ plot[p].gen < fGeneration
                          /\ plot[p].lastUse <= N /\ plot[p].lastUpload <= N
      BY <1>1 DEF RecordsRight
    <3>2. \A p \in Live : plot[p].lastUse \in Nat /\ plot[p].lastUpload \in Nat
      <4>1. Live \subseteq PlotObjects
        BY LiveSize
      <4> QED
        BY <1>1, <3>1, <4>1 DEF AtlasTypes, PlotMaps, Records
    <3> HIDE DEF N
    <3>3. \A p \in Live : plot[p].lastUse <= N + 1 /\ plot[p].lastUpload <= N + 1
      BY <2>2, <3>1, <3>2
    <3> QED
      BY <1>1, <2>1, <2>6, <2>7, <3>1, <3>3 DEF RecordsRight
  <2>12. TextureRight'
    BY <1>1, <2>1, <2>6, <2>8 DEF TextureRight
  <2>13. UploadsRight'
    <3>1. \A i \in 1 .. Len(fInlineUploads) :
            fInlineUploads[i].before \in NextTokenToFlush .. N + 1
      BY <1>1, <2>2 DEF UploadsRight
    <3> QED
      BY <1>1, <2>1, <2>6, <2>7, <2>8, <3>1 DEF UploadsRight
  <2>14. ScheduleRight'
    BY <1>1, <2>1, <2>6, <2>7 DEF ScheduleRight
  <2>15. TokensRight'
    <3>1. \A p \in Listed : plot[p].lastUpload <= N
      BY <1>1 DEF RecordsRight, Live
    <3> QED
      BY <2>1, <2>2, <2>6, <3>1 DEF TokensRight
  <2>16. DrawsRight'
    <3>1. \A quad, token : /\ WillRead(quad, token)' <=> WillRead(quad, token)
                           /\ Reserved(quad, token)' <=> Reserved(quad, token)
      BY <2>1, <2>6, <2>8 DEF WillRead, Reserved, Covers, ReadsRight, Holds
    <3>2. ASSUME NEW k \in 1 .. Len(fDraws'), NEW quad \in fDraws'[k], quad.whole
          PROVE  /\ quad.loc # None /\ WillRead(quad, fLastFlushedToken + k)
                 /\ Reserved(quad, fLastFlushedToken + k)
      <4>1. CASE k \in 1 .. n
        <5>1. quad \in fDraws[k] /\ k \in 1 .. Len(fDraws)
          BY <2>3, <3>2, <4>1 DEF n
        <5> QED
          BY <1>1, <3>2, <5>1 DEF DrawsRight
      <4>2. CASE k = n + 1
        <5>1. quad \in read /\ quad \in QuadsOf /\ fLastFlushedToken + k = N
          BY <2>3, <2>4, <3>2, <4>2
        <5>2. Ready(quad) /\ ~IsLapsed(quad.loc) /\ quad.loc # None
          BY <3>2, <5>1 DEF AreReady, Ready
        <5> QED
          BY <5>1, <5>2, ReadyReads
      <4> QED
        BY <2>3, <3>2, <4>1, <4>2
    <3> QED
      BY <2>1, <3>1, <3>2 DEF DrawsRight
  <2> QED
    BY <2>5, <2>6, <2>9, <2>10, <2>11, <2>12, <2>13, <2>14, <2>15, <2>16
<1> QED
  BY <1>2, <1>3

(* The coordinates of what has been placed since regenerate() has begun.   *)
LEMMA NewOnes ==
  ASSUME AtlasInv, pc = "placing"
  PROVE  /\ current \in SubRuns
         /\ NewCoords \in [1 .. Len(GlyphsOf[current]) -> Locators \union {None}]
         /\ \A i \in begin + 1 .. placed :
              /\ i \in 1 .. Len(GlyphsOf[current]) /\ NewCoords[i] = locator[GlyphsOf[current][i]]
              /\ Good(NewCoords[i]) /\ SlotOf(NewCoords[i]) \in ToSet(fBulkUseToken[current])
         /\ NewQuads \in SUBSET QuadsOf /\ AreReady(NewQuads)
         /\ NewQuads = {} => ~DrawComes
<1> DEFINE L == Len(GlyphsOf[current])
           c == NewCoords
<1>1. /\ current \in SubRuns /\ begin \in Nat /\ placed \in Nat /\ begin <= placed /\ placed <= L
      /\ AtlasTypes /\ ListsRight /\ PlacingRight /\ LocatorsRight /\ QuadsRight
      /\ texCoords[current] \in [1 .. L -> Locators \union {None}]
      /\ quads \in SUBSET QuadsOf
      /\ locator \in [Glyphs -> Locators \union {None}]
  BY DEF AtlasInv, OpTypes, AtlasTypes
<1>2. L \in Nat /\ DOMAIN GlyphsOf[current] = 1 .. L /\ \A i \in 1 .. L : GlyphsOf[current][i] \in Glyphs
  BY <1>1, MostGlyphs, LenProperties
<1>3. c = [i \in 1 .. L |-> IF i \in begin + 1 .. placed THEN locator[GlyphsOf[current][i]]
                            ELSE texCoords[current][i]]
  BY <1>2 DEF NewCoords
<1> DEFINE whole(i) == TRUE /\ ~IsLapsed(c[i])
           drawn(i) == [loc |-> c[i], glyph |-> GlyphsOf[current][i], whole |-> whole(i)]
<1> HIDE DEF L, c
<1>4. c \in [1 .. L -> Locators \union {None}]
  BY <1>1, <1>2, <1>3
<1>5. \A i \in begin + 1 .. placed :
        /\ i \in 1 .. L /\ c[i] = locator[GlyphsOf[current][i]]
        /\ Good(c[i]) /\ SlotOf(c[i]) \in ToSet(fBulkUseToken[current])
  <2> SUFFICES ASSUME NEW i \in begin + 1 .. placed
               PROVE  /\ i \in 1 .. L /\ c[i] = locator[GlyphsOf[current][i]]
                      /\ Good(c[i]) /\ SlotOf(c[i]) \in ToSet(fBulkUseToken[current])
    OBVIOUS
  <2>1. i \in 1 .. L
    BY <1>1, <1>2
  <2>2. c[i] = locator[GlyphsOf[current][i]]
    BY <1>3, <2>1
  <2>3. /\ Good(locator[GlyphsOf[current][i]])
        /\ SlotOf(locator[GlyphsOf[current][i]]) \in ToSet(fBulkUseToken[current])
    BY <1>1 DEF PlacingRight
  <2> QED
    BY <2>1, <2>2, <2>3
<1>6. Quads(current, c, begin, placed, TRUE) = {drawn(i) : i \in begin + 1 .. placed}
  BY DEF Quads
<1>7. \A i : whole(i) \in BOOLEAN /\ (whole(i) => ~IsLapsed(c[i]))
  BY Zenon
<1> HIDE DEF whole
<1>8. ASSUME NEW i \in begin + 1 .. placed
      PROVE  drawn(i) \in QuadsOf /\ Ready(drawn(i)) /\ (drawn(i).whole => ~IsLapsed(drawn(i).loc))
  <2> DEFINE quad == drawn(i)
  <2>1. /\ i \in 1 .. L /\ c[i] = locator[GlyphsOf[current][i]] /\ GlyphsOf[current][i] \in Glyphs
        /\ Good(c[i]) /\ SlotOf(c[i]) \in ToSet(fBulkUseToken[current])
        /\ c[i] \in Locators \union {None}
    BY <1>2, <1>4, <1>5
  <2>2. quad \in QuadsOf /\ quad.loc = c[i] /\ quad.glyph = GlyphsOf[current][i]
    BY <1>7, <2>1 DEF QuadsOf
  <2>3. quad.whole => ~IsLapsed(quad.loc)
    <3>1. quad.whole = whole(i)
      BY Zenon
    <3> QED
      BY <1>7, <2>2, <3>1, Zenon
  <2> HIDE DEF quad
  <2>4. c[i] # None
    BY <2>1 DEF Good
  <2>5. PICK q \in Listed : Located(c[i], q)
    BY <2>1 DEF Good
  <2>6. ASSUME NEW p \in Listed, Slot(p) = SlotOf(c[i])
        PROVE  /\ plot[p].gen = c[i].gen /\ plot[p].lastUse = NextDrawToken
               /\ Holds(p, c[i].at, GlyphsOf[current][i])
    <3>1. p = q
      BY <1>1, <2>5, <2>6, AtlasFacts DEF Located
    <3>2. Located(c[i], p)
      BY <2>5, <3>1
    <3>3. Holds(p, c[i].at, GlyphsOf[current][i])
      BY <1>1, <2>1, <2>4, <3>2 DEF LocatorsRight
    <3>4. plot[p].lastUse = NextDrawToken
      BY <1>1, <2>1, <2>6 DEF PlacingRight
    <3> QED
      BY <3>2, <3>3, <3>4 DEF Located
  <2>7. Ready(quad)
    BY <2>2, <2>4, <2>6 DEF Ready
  <2> QED
    BY <2>2, <2>3, <2>7 DEF quad
<1> HIDE DEF drawn
<1>9. \A quad \in Quads(current, c, begin, placed, TRUE) :
        quad \in QuadsOf /\ Ready(quad) /\ (quad.whole => ~IsLapsed(quad.loc))
  BY <1>6, <1>8
<1>10. NewQuads = quads \union Quads(current, c, begin, placed, TRUE)
  BY DEF NewQuads, c
<1>11. NewQuads \in SUBSET QuadsOf /\ AreReady(NewQuads)
  BY <1>1, <1>9, <1>10 DEF QuadsRight, AreReady
<1>12. NewQuads = {} => ~DrawComes
  <2> SUFFICES ASSUME NewQuads = {} PROVE ~DrawComes
    OBVIOUS
  <2>1. quads = {} /\ Quads(current, c, begin, placed, TRUE) = {}
    BY <1>10
  <2>2. ~(begin < placed)
    <3> SUFFICES ASSUME begin < placed PROVE FALSE
      OBVIOUS
    <3>1. placed \in begin + 1 .. placed
      BY <1>1
    <3> QED
      BY <1>6, <2>1, <3>1
  <2> QED
    BY <2>1, <2>2 DEF DrawComes
<1> QED
  BY <1>1, <1>4, <1>5, <1>11, <1>12 DEF L, c

LEMMA StopKeeps ==
  ASSUME AtlasInv, Stop
  PROVE  AtlasInv'
<1>1. /\ pc = "placing" /\ placed < Len(GlyphsOf[current])
      /\ texCoords' = [texCoords EXCEPT ![current] = NewCoords]
      /\ CreateDraw(NewQuads) /\ quads' = {}
      /\ broken' = IF placed > 0 THEN broken \union {current} ELSE broken
      /\ pc' = "again"
      /\ UNCHANGED <<atlasVars, fPrevFlushToken, uploadVars, texture, locator,
                     subRunGeneration, fBulkUseToken, current, begin, placed, left, giveUpVars>>
  BY DEF Stop
<1>2. /\ current \in SubRuns
      /\ NewCoords \in [1 .. Len(GlyphsOf[current]) -> Locators \union {None}]
      /\ NewQuads \in SUBSET QuadsOf /\ AreReady(NewQuads)
      /\ NewQuads = {} => ~DrawComes
  BY <1>1, NewOnes
<1>3. \/ UNCHANGED <<fDraws, tokenVars>> /\ (Excused => Excused')
      \/ RecordDraw(NewQuads)
  BY <1>1, <1>2 DEF CreateDraw, Excused, giveUpVars, tokenVars, NextDrawToken
<1>4. Prepares
  BY <1>1 DEF Prepares
<1>5. /\ AtlasTypes' /\ TokenTypes' /\ ListsRight' /\ RecordsRight' /\ LocatorsRight'
      /\ DrawsRight' /\ TextureRight' /\ UploadsRight' /\ ScheduleRight' /\ TokensRight'
      /\ Live' = Live /\ \A loc : Good(loc)' <=> Good(loc)
  <2>1. UNCHANGED <<atlasVars, fPrevFlushToken, uploadVars, texture, locator, lapsed>>
    BY <1>1 DEF giveUpVars
  <2> QED
    BY <1>2, <1>3, <1>4, <2>1, DrawKeeps
<1>6. OpTypes /\ GenerationsRight /\ PlacingRight /\ PlotsLast
  BY DEF AtlasInv
<1>7. /\ \A s \in SubRuns : texCoords'[s] = IF s = current THEN NewCoords ELSE texCoords[s]
      /\ DOMAIN texCoords' = SubRuns /\ broken \subseteq broken' /\ broken' \subseteq SubRuns
      /\ placed # 0 => current \in broken'
  BY <1>1, <1>2, <1>6 DEF OpTypes
<1>8. OpTypes'
  BY <1>1, <1>2, <1>6, <1>7 DEF OpTypes
<1>9. GenerationsRight'
  <2>1. /\ fAtlasGeneration' = fAtlasGeneration /\ fGeneration' = fGeneration
        /\ locator' = locator /\ subRunGeneration' = subRunGeneration /\ fBulkUseToken' = fBulkUseToken
    BY <1>1 DEF atlasVars
  <2>2. subRunGeneration[current] # fAtlasGeneration
    BY <1>1, <1>6 DEF PlacingRight
  <2>3. ASSUME NEW s \in SubRuns \ broken', subRunGeneration[s] = fAtlasGeneration,
               NEW i \in 1 .. Len(GlyphsOf[s])
        PROVE  /\ texCoords'[s][i] = locator[GlyphsOf[s][i]]
               /\ Good(texCoords[s][i])'
               /\ SlotOf(texCoords'[s][i]) \in ToSet(fBulkUseToken[s])
    <3>1. s # current /\ s \notin broken /\ texCoords'[s] = texCoords[s]
      BY <1>7, <2>2, <2>3
    <3>2. /\ texCoords[s][i] = locator[GlyphsOf[s][i]]
          /\ Good(texCoords[s][i])
          /\ SlotOf(texCoords[s][i]) \in ToSet(fBulkUseToken[s])
      BY <1>6, <2>3, <3>1 DEF GenerationsRight
    <3>3. Good(texCoords[s][i])'
      <4> DEFINE x == texCoords[s][i]
      <4>1. PICK loc : loc = texCoords[s][i]
        OBVIOUS
      <4>2. Good(loc)'
        BY <1>5, <3>2, <4>1
      <4>3. texCoords'[s][i] = loc
        BY <3>1, <4>1
      <4> QED
        BY <4>2, <4>3
    <3> QED
      BY <3>1, <3>2, <3>3
  <2> QED
    BY <1>6, <2>1, <2>3 DEF GenerationsRight, SlotOf
<1>10. PlacingRight'
  BY <1>1, <1>6, <1>7 DEF PlacingRight, atlasVars
<1>11. QuadsRight'
  BY <1>1 DEF QuadsRight
<1>12. PlotsLast'
  <2>1. Missing' = Missing
    BY <1>1 DEF Missing
  <2> QED
    BY <1>1, <1>5, <1>6, <2>1 DEF PlotsLast
<1> QED
  BY <1>5, <1>8, <1>9, <1>10, <1>11, <1>12 DEF AtlasInv

LEMMA FinishKeeps ==
  ASSUME AtlasInv, Finish
  PROVE  AtlasInv'
<1>1. /\ pc = "placing" /\ placed = Len(GlyphsOf[current])
      /\ texCoords' = [texCoords EXCEPT ![current] = NewCoords]
      /\ quads' = NewQuads
      /\ subRunGeneration' = [subRunGeneration EXCEPT ![current] = fAtlasGeneration]
      /\ broken' = IF begin = 0 THEN broken \ {current} ELSE broken
      /\ pc' = "op"
      /\ UNCHANGED <<atlasVars, fPrevFlushToken, tokenVars, uploadVars, fDraws, texture, locator,
                     fBulkUseToken, current, begin, placed, left, giveUpVars>>
  BY DEF Finish
<1>2. /\ current \in SubRuns
      /\ NewCoords \in [1 .. Len(GlyphsOf[current]) -> Locators \union {None}]
      /\ \A i \in begin + 1 .. placed :
              /\ i \in 1 .. Len(GlyphsOf[current]) /\ NewCoords[i] = locator[GlyphsOf[current][i]]
              /\ Good(NewCoords[i]) /\ SlotOf(NewCoords[i]) \in ToSet(fBulkUseToken[current])
      /\ NewQuads \in SUBSET QuadsOf /\ AreReady(NewQuads)
      /\ NewQuads = {} => ~DrawComes
  BY <1>1, NewOnes
<1>3. UNCHANGED <<fDraws, tokenVars>> /\ (Excused => Excused')
  BY <1>1, <1>2 DEF DrawComes, Excused, giveUpVars, tokenVars, NextDrawToken
<1>4. Prepares
  BY <1>1 DEF Prepares
<1>5. /\ AtlasTypes' /\ TokenTypes' /\ ListsRight' /\ RecordsRight' /\ LocatorsRight'
      /\ DrawsRight' /\ TextureRight' /\ UploadsRight' /\ ScheduleRight' /\ TokensRight'
      /\ Live' = Live /\ \A loc : Good(loc)' <=> Good(loc)
  <2>1. UNCHANGED <<atlasVars, fPrevFlushToken, uploadVars, texture, locator, lapsed>>
    BY <1>1 DEF giveUpVars
  <2> QED
    BY <1>2, <1>3, <1>4, <2>1, DrawKeeps
<1>6. OpTypes /\ GenerationsRight /\ PlacingRight /\ PlotsLast /\ AtlasTypes
  BY DEF AtlasInv
<1>7. /\ \A s \in SubRuns : texCoords'[s] = IF s = current THEN NewCoords ELSE texCoords[s]
      /\ \A s \in SubRuns :
           subRunGeneration'[s] = IF s = current THEN fAtlasGeneration ELSE subRunGeneration[s]
      /\ subRunGeneration' \in [SubRuns -> Nat]
      /\ DOMAIN texCoords' = SubRuns /\ broken' \subseteq SubRuns
      /\ \A s \in SubRuns \ broken' : s # current => s \notin broken
  BY <1>1, <1>2, <1>6 DEF OpTypes, AtlasTypes
<1>8. OpTypes'
  BY <1>1, <1>2, <1>6, <1>7 DEF OpTypes
<1>9. GenerationsRight'
  <2>1. /\ fAtlasGeneration' = fAtlasGeneration /\ fGeneration' = fGeneration
        /\ locator' = locator /\ fBulkUseToken' = fBulkUseToken
    BY <1>1 DEF atlasVars
  <2>2. ASSUME NEW s \in SubRuns \ broken', subRunGeneration'[s] = fAtlasGeneration,
               NEW i \in 1 .. Len(GlyphsOf[s])
        PROVE  /\ texCoords'[s][i] = locator[GlyphsOf[s][i]]
               /\ Good(texCoords[s][i])'
               /\ SlotOf(texCoords'[s][i]) \in ToSet(fBulkUseToken[s])
    <3>1. PICK loc : loc = texCoords'[s][i]
      OBVIOUS
    <3>2. /\ loc = locator[GlyphsOf[s][i]] /\ Good(loc) /\ SlotOf(loc) \in ToSet(fBulkUseToken[s])
      <4>1. CASE s = current
        <5>1. begin = 0
          <6>1. begin # 0 => current \in broken
            BY <1>1, <1>6 DEF PlacingRight
          <6> QED
            BY <1>1, <2>2, <4>1, <6>1
        <5>2. i \in begin + 1 .. placed
          BY <1>1, <2>2, <4>1, <5>1
        <5> QED
          BY <1>2, <1>7, <3>1, <4>1, <5>2
      <4>2. CASE s # current
        <5>1. s \notin broken /\ subRunGeneration[s] = fAtlasGeneration /\ loc = texCoords[s][i]
          BY <1>7, <2>2, <3>1, <4>2
        <5> QED
          BY <1>6, <2>2, <5>1 DEF GenerationsRight
      <4> QED
        BY <4>1, <4>2
    <3>3. Good(loc)'
      BY <1>5, <3>2
    <3> QED
      BY <3>1, <3>2, <3>3
  <2>3. \A s \in SubRuns : subRunGeneration'[s] < fGeneration
    BY <1>6, <1>7 DEF GenerationsRight
  <2> QED
    BY <1>6, <2>1, <2>2, <2>3 DEF GenerationsRight, SlotOf
<1>10. PlacingRight'
  BY <1>1 DEF PlacingRight
<1>11. QuadsRight'
  <2>1. \A quad : Ready(quad) => Ready(quad)'
    BY <1>1 DEF Ready, Listed, Slot, Holds, NextDrawToken, atlasVars, tokenVars
  <2> QED
    BY <1>1, <1>2, <2>1 DEF QuadsRight, AreReady, IsLapsed, giveUpVars
<1>12. PlotsLast'
  <2>1. Missing' = Missing
    <3>1. placed \in Nat
      BY <1>6 DEF OpTypes
    <3> QED
      BY <1>1, <3>1 DEF Missing
  <2> QED
    BY <1>1, <1>5, <1>6, <2>1 DEF PlotsLast
<1> QED
  BY <1>5, <1>8, <1>9, <1>10, <1>11, <1>12 DEF AtlasInv

(* An op that gives up leaves what it has placed, and its coordinates are  *)
(* not of the atlas's generation.                                          *)
LEMMA BailKeeps ==
  ASSUME AtlasInv, Bail
  PROVE  AtlasInv'
<1>1. /\ pc = "placing" /\ placed < Len(GlyphsOf[current])
      /\ texCoords' \in {texCoords, [texCoords EXCEPT ![current] = NewCoords]}
      /\ gaveUp' = NextDrawToken /\ left' = [left EXCEPT !.bails = @ - 1] /\ left.bails > 0
      /\ quads' = {} /\ pc' = "idle" /\ begin' = 0 /\ placed' = 0
      /\ UNCHANGED <<atlasVars, fPrevFlushToken, tokenVars, uploadVars, fDraws, texture, locator,
                     subRunGeneration, fBulkUseToken, broken, lapsed>>
  BY DEF Bail
<1>2. /\ current \in SubRuns
      /\ NewCoords \in [1 .. Len(GlyphsOf[current]) -> Locators \union {None}]
  BY <1>1, NewOnes
<1>3. UNCHANGED <<fDraws, tokenVars>> /\ (Excused => Excused')
  BY <1>1 DEF Excused, tokenVars, NextDrawToken
<1>4. Prepares
  BY <1>1 DEF Prepares
<1>5. /\ AtlasTypes' /\ TokenTypes' /\ ListsRight' /\ RecordsRight' /\ LocatorsRight'
      /\ DrawsRight' /\ TextureRight' /\ UploadsRight' /\ ScheduleRight' /\ TokensRight'
      /\ Live' = Live /\ \A loc : Good(loc)' <=> Good(loc)
  <2>1. {} \in SUBSET QuadsOf /\ AreReady({})
    BY DEF AreReady
  <2>2. UNCHANGED <<atlasVars, fPrevFlushToken, uploadVars, texture, locator, lapsed>>
    BY <1>1
  <2> QED
    BY <1>3, <1>4, <2>1, <2>2, DrawKeeps
<1>6. OpTypes /\ GenerationsRight /\ PlacingRight /\ PlotsLast
  BY DEF AtlasInv
<1>7. /\ \A s \in SubRuns : s # current => texCoords'[s] = texCoords[s]
      /\ DOMAIN texCoords' = SubRuns
      /\ \A s \in SubRuns : texCoords'[s] \in [1 .. Len(GlyphsOf[s]) -> Locators \union {None}]
  BY <1>1, <1>2, <1>6 DEF OpTypes
<1>8. /\ left' \in [subRuns : 0 .. MaxSubRuns, flushes : Nat, bails : Nat]
      /\ left'.subRuns = left.subRuns
  <2>1. /\ left \in [subRuns : 0 .. MaxSubRuns, flushes : Nat, bails : Nat]
        /\ left.bails - 1 \in Nat
    BY <1>1, <1>6 DEF OpTypes
  <2> QED
    BY <1>1, <2>1
<1>9. OpTypes'
  BY <1>1, <1>6, <1>7, <1>8 DEF OpTypes
<1>10. GenerationsRight'
  <2>1. /\ fAtlasGeneration' = fAtlasGeneration /\ fGeneration' = fGeneration
        /\ locator' = locator /\ subRunGeneration' = subRunGeneration
        /\ fBulkUseToken' = fBulkUseToken /\ broken' = broken
    BY <1>1 DEF atlasVars
  <2>2. subRunGeneration[current] # fAtlasGeneration
    BY <1>1, <1>6 DEF PlacingRight
  <2>3. ASSUME NEW s \in SubRuns \ broken, subRunGeneration[s] = fAtlasGeneration,
               NEW i \in 1 .. Len(GlyphsOf[s])
        PROVE  /\ texCoords'[s][i] = locator[GlyphsOf[s][i]]
               /\ Good(texCoords[s][i])'
               /\ SlotOf(texCoords'[s][i]) \in ToSet(fBulkUseToken[s])
    <3>1. PICK loc : loc = texCoords'[s][i]
      OBVIOUS
    <3>2. s # current /\ loc = texCoords[s][i]
      BY <1>7, <2>2, <2>3, <3>1
    <3>3. /\ loc = locator[GlyphsOf[s][i]] /\ Good(loc)
          /\ SlotOf(loc) \in ToSet(fBulkUseToken[s])
      BY <1>6, <2>3, <3>2 DEF GenerationsRight
    <3>4. Good(loc)'
      BY <1>5, <3>3
    <3> QED
      BY <3>1, <3>3, <3>4
  <2> QED
    BY <1>6, <2>1, <2>3 DEF GenerationsRight, SlotOf
<1>11. PlacingRight' /\ QuadsRight'
  BY <1>1 DEF PlacingRight, QuadsRight
<1>12. PlotsLast'
  <2> DEFINE A == MaxPages * NumPlots + (MaxSubRuns - left.subRuns) * MaxGlyphs
             D == Cardinality(Live)
  <2>1. Missing \in Nat /\ Missing' = 0
    <3>1. placed \in Nat /\ Len(GlyphsOf[current]) \in Nat
      BY <1>2, <1>6, MostGlyphs DEF OpTypes
    <3>2. Missing = Len(GlyphsOf[current]) - placed
      BY <1>1 DEF Missing
    <3> QED
      BY <1>1, <3>1, <3>2 DEF Missing
  <2>2. D \in Nat /\ A \in Nat /\ D + Missing <= A
    BY <1>6, LiveSize DEF PlotsLast
  <2> HIDE DEF A, D
  <2>3. D + 0 <= A
    BY <2>1, <2>2
  <2> QED
    BY <1>5, <1>8, <2>1, <2>3 DEF PlotsLast, A, D
<1> QED
  BY <1>5, <1>9, <1>10, <1>11, <1>12 DEF AtlasInv

(* Between ops.                                                            *)
LEMMA BetweenOps ==
  ASSUME AtlasInv, NEW read \in SUBSET QuadsOf, AreReady(read),
         UNCHANGED <<atlasVars, fPrevFlushToken, uploadVars, texture, locator, blobVars, giveUpVars>>,
         \/ UNCHANGED <<fDraws, tokenVars>> /\ ~DrawComes
         \/ RecordDraw(read),
         pc \in {"idle", "op"}, pc' \in {"idle", "execute"}, quads' = {},
         begin' \in Nat, placed' \in Nat, begin' <= placed',
         left' = left \/ left' = [left EXCEPT !.subRuns = @ - 1], left' # left => left.subRuns > 0
  PROVE  AtlasInv'
<1>1. Prepares
  BY DEF Prepares
<1>2. \/ UNCHANGED <<fDraws, tokenVars>> /\ (Excused => Excused')
      \/ RecordDraw(read)
  BY DEF Excused, giveUpVars, tokenVars, NextDrawToken
<1>3. /\ AtlasTypes' /\ TokenTypes' /\ ListsRight' /\ RecordsRight' /\ LocatorsRight'
      /\ DrawsRight' /\ TextureRight' /\ UploadsRight' /\ ScheduleRight' /\ TokensRight'
      /\ Live' = Live /\ \A loc : Good(loc)' <=> Good(loc)
  <2>1. UNCHANGED <<atlasVars, fPrevFlushToken, uploadVars, texture, locator, lapsed>>
    BY DEF giveUpVars
  <2> QED
    BY <1>1, <1>2, <2>1, DrawKeeps
<1>4. OpTypes /\ GenerationsRight /\ PlotsLast /\ left.subRuns \in 0 .. MaxSubRuns
      /\ left \in [subRuns : 0 .. MaxSubRuns, flushes : Nat, bails : Nat]
  BY DEF AtlasInv, OpTypes
<1>5. /\ left' \in [subRuns : 0 .. MaxSubRuns, flushes : Nat, bails : Nat]
      /\ left'.subRuns = left.subRuns \/ (left'.subRuns = left.subRuns - 1 /\ left.subRuns > 0)
  <2>1. CASE left' = left
    BY <1>4, <2>1
  <2>2. CASE left' # left
    <3>1. left.subRuns - 1 \in 0 .. MaxSubRuns
      BY <1>4, <2>2, Numbers
    <3> QED
      BY <1>4, <2>2, <3>1
  <2> QED
    BY <2>1, <2>2
<1>6. OpTypes'
  BY <1>4, <1>5 DEF OpTypes, blobVars
<1>7. GenerationsRight'
  <2>1. /\ fAtlasGeneration' = fAtlasGeneration /\ fGeneration' = fGeneration
        /\ locator' = locator /\ subRunGeneration' = subRunGeneration /\ fBulkUseToken' = fBulkUseToken
        /\ texCoords' = texCoords /\ broken' = broken
    BY DEF atlasVars, blobVars
  <2>2. \A s \in SubRuns : \A i \in 1 .. Len(GlyphsOf[s]) :
          Good(texCoords[s][i]) => Good(texCoords[s][i])'
    <3> SUFFICES ASSUME NEW s \in SubRuns, NEW i \in 1 .. Len(GlyphsOf[s]), Good(texCoords[s][i])
                 PROVE  Good(texCoords[s][i])'
      OBVIOUS
    <3>1. PICK loc : loc = texCoords[s][i]
      OBVIOUS
    <3>2. Good(loc)'
      BY <1>3, <3>1
    <3> QED
      BY <2>1, <3>1, <3>2
  <2> QED
    BY <1>4, <2>1, <2>2 DEF GenerationsRight, SlotOf
<1>8. PlacingRight' /\ QuadsRight'
  BY DEF PlacingRight, QuadsRight
<1>9. PlotsLast'
  <2>1. Missing = 0 /\ Missing' = 0
    BY DEF Missing
  <2> DEFINE A == MaxPages * NumPlots
             B == (MaxSubRuns - left.subRuns) * MaxGlyphs
             C == (MaxSubRuns - left'.subRuns) * MaxGlyphs
             D == Cardinality(Live)
  <2>2. D \in Nat /\ A \in Nat /\ B \in Nat
    BY LiveSize
  <2>3. C \in Nat /\ B <= C
    <3>1. CASE left'.subRuns = left.subRuns
      BY <2>2, <3>1
    <3>2. CASE left'.subRuns = left.subRuns - 1 /\ left.subRuns > 0
      <4>1. C = B + MaxGlyphs
        BY <1>4, <3>2, OneMore
      <4> QED
        BY <2>2, <4>1, Numbers
    <3> QED
      BY <1>5, <3>1, <3>2
  <2>4. D + 0 <= A + B
    BY <1>4, <2>1 DEF PlotsLast
  <2> HIDE DEF A, B, C, D
  <2>5. D + 0 <= A + C
    BY <2>2, <2>3, <2>4
  <2> QED
    BY <1>3, <2>1, <2>5 DEF PlotsLast, A, C, D
<1> QED
  BY <1>3, <1>6, <1>7, <1>8, <1>9 DEF AtlasInv

LEMMA EndOpKeeps ==
  ASSUME AtlasInv, EndOp
  PROVE  AtlasInv'
<1>1. /\ pc = "op" /\ CreateDraw(quads) /\ quads' = {} /\ pc' = "idle" /\ begin' = 0 /\ placed' = 0
      /\ UNCHANGED <<atlasVars, fPrevFlushToken, uploadVars, texture, locator, blobVars, left,
                     giveUpVars>>
  BY DEF EndOp
<1>2. quads \in SUBSET QuadsOf /\ AreReady(quads)
  BY DEF AtlasInv, OpTypes, QuadsRight, AreReady
<1>3. quads = {} => ~DrawComes
  BY <1>1 DEF DrawComes
<1>4. \/ UNCHANGED <<fDraws, tokenVars>> /\ ~DrawComes
      \/ RecordDraw(quads)
  BY <1>1, <1>3 DEF CreateDraw
<1>5. begin' \in Nat /\ placed' \in Nat /\ begin' <= placed'
  BY <1>1
<1> QED
  BY <1>1, <1>2, <1>4, <1>5, BetweenOps

LEMMA OtherDrawKeeps ==
  ASSUME AtlasInv, OtherDraw
  PROVE  AtlasInv'
<1>1. /\ pc = "idle" /\ left.subRuns > 0 /\ RecordDraw({})
      /\ left' = [left EXCEPT !.subRuns = @ - 1]
      /\ UNCHANGED <<atlasVars, fPrevFlushToken, uploadVars, texture, locator, blobVars, opVars, quads,
                     giveUpVars>>
  BY DEF OtherDraw
<1>2. {} \in SUBSET QuadsOf /\ AreReady({})
  BY DEF AreReady
<1>3. quads = {} /\ begin \in Nat /\ placed \in Nat /\ begin <= placed
  BY <1>1 DEF AtlasInv, OpTypes, QuadsRight
<1>4. pc' = "idle" /\ quads' = {} /\ begin' = begin /\ placed' = placed
  BY <1>1, <1>3 DEF opVars
<1> QED
  BY <1>1, <1>2, <1>3, <1>4, BetweenOps

LEMMA PreExecuteKeeps ==
  ASSUME AtlasInv, PreExecute
  PROVE  AtlasInv'
<1>1. /\ pc = "idle" /\ pc' = "execute"
      /\ UNCHANGED <<atlasVars, fPrevFlushToken, tokenVars, uploadVars, fDraws, texture, locator,
                     blobVars, current, begin, placed, quads, left, giveUpVars>>
  BY DEF PreExecute
<1>2. {} \in SUBSET QuadsOf /\ AreReady({})
  BY DEF AreReady
<1>3. quads = {} /\ begin \in Nat /\ placed \in Nat /\ begin <= placed
  BY <1>1 DEF AtlasInv, OpTypes, QuadsRight
<1>4. ~DrawComes
  BY <1>1 DEF DrawComes
<1> QED
  BY <1>1, <1>2, <1>3, <1>4, BetweenOps
-----------------------------------------------------------------------------
(* When all is executed all draws are flushed, and reset() leaves nothing  *)
(* to upload: the plots that waited for it have lapsed.                    *)
LEMMA ResetFacts ==
  ASSUME AtlasInv, Executed, Reset
  PROVE  /\ fLastIssuedToken = fLastFlushedToken /\ fLastFlushedToken \in Nat /\ ~DrawComes
         /\ fASAPUploads' = <<>> /\ fInlineUploads' = <<>> /\ Uploads' = {} /\ Pending' = {}
         /\ gaveUp' = gaveUp
         /\ \A gen \in lapsed : gen \in lapsed'
         /\ \A p \in Listed : p \in Pending \/ NextTokenToFlush <= plot[p].lastUpload =>
              plot[p].gen \in lapsed'
<1>1. /\ TokenTypes /\ pc = "execute" /\ fASAPUploads = <<>> /\ fDraws = <<>>
  BY DEF AtlasInv, Executed
<1>2. fLastIssuedToken = fLastFlushedToken /\ fLastFlushedToken \in Nat
  <2>1. Len(fDraws) = 0
    BY <1>1
  <2> QED
    BY <1>1, <2>1 DEF TokenTypes
<1>3. ~DrawComes
  BY <1>1 DEF DrawComes
<1>4. /\ fASAPUploads' = <<>> /\ fInlineUploads' = <<>> /\ gaveUp' = gaveUp
      /\ lapsed' = lapsed \union {plot[p].gen : p \in Lapsing}
  BY <1>1 DEF Reset
<1>5. Uploads' = {}
  BY <1>4 DEF Uploads, UploadsIn
<1>6. Pending' = {}
  <2>1. Pending' = {u.plot : u \in Uploads'}
    BY PendingIs DEF Pending, Uploads
  <2> QED
    BY <1>5, <2>1
<1>7. ASSUME NEW p \in Listed, p \in Pending \/ NextTokenToFlush <= plot[p].lastUpload
      PROVE  plot[p].gen \in lapsed'
  <2>1. plot[p].lastUpload \in Nat /\ NextTokenToFlush \in Nat
    BY <1>1, UploadFacts, AtlasFacts DEF AtlasInv, Records
  <2>2. p \in Lapsing
    BY <1>7, <2>1 DEF Lapsing, UploadIsScheduled
  <2> QED
    BY <1>4, <2>2
<1> QED
  BY <1>2, <1>3, <1>4, <1>5, <1>6, <1>7

LEMMA MoreTasksKeeps ==
  ASSUME AtlasInv, MoreTasks
  PROVE  AtlasInv'
<1>1. /\ Executed /\ Reset /\ pc = "execute" /\ pc' = "idle" /\ fDraws = <<>>
      /\ UNCHANGED <<atlasVars, fPrevFlushToken, tokenVars, fDraws, texture, locator,
                     blobVars, current, begin, placed, quads, left>>
  BY DEF MoreTasks, Executed
<1>2. /\ AtlasTypes /\ TokenTypes /\ OpTypes /\ ListsRight /\ RecordsRight /\ LocatorsRight
      /\ GenerationsRight /\ QuadsRight /\ TextureRight /\ TokensRight /\ PlotsLast
  BY DEF AtlasInv
<1>3. /\ fASAPUploads' = <<>> /\ fInlineUploads' = <<>> /\ Uploads' = {} /\ Pending' = {}
      /\ ~DrawComes /\ gaveUp' = gaveUp
      /\ \A gen \in lapsed : gen \in lapsed'
      /\ \A p \in Listed : p \in Pending \/ NextTokenToFlush <= plot[p].lastUpload =>
           plot[p].gen \in lapsed'
  BY <1>1, ResetFacts
<1>4. /\ Listed' = Listed /\ Live' = Listed /\ Live' \subseteq Live
      /\ Active' = Active /\ NextDrawToken' = NextDrawToken /\ NextTokenToFlush' = NextTokenToFlush
      /\ \A p : Slot(p)' = Slot(p)
  BY <1>1, <1>3 DEF atlasVars, tokenVars, Listed, Live, Active, Slot,
              NextDrawToken, NextTokenToFlush
<1>5. AtlasTypes' /\ ListsRight' /\ LocatorsRight'
  BY <1>1, <1>2, <1>4 DEF AtlasTypes, ListsRight, LocatorsRight, Located, Holds, atlasVars
<1>6. TokenTypes' /\ UploadsRight'
  <2>1. fASAPUploads' \in Seq(PlotObjects) /\ fInlineUploads' \in Seq(UploadRecords)
    BY <1>3
  <2>2. TokenTypes'
    BY <1>1, <1>2, <2>1 DEF TokenTypes, tokenVars
  <2>3. Len(fASAPUploads') = 0 /\ Len(fInlineUploads') = 0
    BY <1>3
  <2> QED
    BY <1>3, <2>2, <2>3 DEF UploadsRight
<1>7. OpTypes'
  BY <1>1, <1>2 DEF OpTypes, blobVars
<1>8. RecordsRight'
  BY <1>1, <1>2, <1>4 DEF RecordsRight, atlasVars
<1>9. GenerationsRight'
  BY <1>1, <1>2, <1>4 DEF GenerationsRight, atlasVars, blobVars, Good, Located, SlotOf
<1>10. PlacingRight' /\ QuadsRight' /\ DrawsRight'
  <2>1. quads' = {}
    BY <1>1, <1>2 DEF QuadsRight
  <2>2. Len(fDraws') = 0
    BY <1>1
  <2> QED
    BY <1>1, <2>1, <2>2 DEF PlacingRight, QuadsRight, DrawsRight
<1>11. TextureRight'
  <2>1. \A p \in Listed : plot[p].gen \in lapsed' \/ plot[p].clean = Len(plot[p].glyphs)
    BY <1>2, <1>3 DEF TextureRight
  <2> QED
    BY <1>1, <1>2, <1>3, <1>4, <2>1 DEF TextureRight, atlasVars
<1>12. TokensRight' /\ ScheduleRight'
  <2>1. fLastIssuedToken' = fLastIssuedToken /\ plot' = plot
    BY <1>1 DEF tokenVars, atlasVars
  <2>2. TokensRight'
    BY <1>2, <1>3, <1>4, <2>1 DEF TokensRight
  <2> QED
    BY <1>3, <1>4, <2>1, <2>2 DEF ScheduleRight
<1>13. PlotsLast'
  <2>1. Missing = 0 /\ Missing' = 0 /\ left' = left
    BY <1>1 DEF Missing
  <2>2. IsFiniteSet(Live) /\ Cardinality(Live) \in Nat
    BY LiveSize
  <2>3. PICK m \in Nat : m = Cardinality(Live') /\ m <= Cardinality(Live)
    BY <1>4, <2>2, FS_Subset, FS_CardinalityType
  <2>4. m + 0 <= Cardinality(Live) + Missing
    BY <2>1, <2>2, <2>3
  <2> QED
    BY <2>1, <2>3, <2>4, NoMorePlots
<1> QED
  BY <1>5, <1>6, <1>7, <1>8, <1>9, <1>10, <1>11, <1>12, <1>13 DEF AtlasInv

(* When the first inline upload is not due, none is.                       *)
LEMMA NoneIsDue ==
  ASSUME AtlasInv, ~InlineIsDue
  PROVE  \A i \in 1 .. Len(fInlineUploads) :
           fInlineUploads[i].before \in NextTokenToFlush + 1 .. NextDrawToken
<1> SUFFICES ASSUME NEW i \in 1 .. Len(fInlineUploads)
             PROVE  fInlineUploads[i].before \in NextTokenToFlush + 1 .. NextDrawToken
  OBVIOUS
<1>1. TokenTypes /\ UploadsRight
  BY DEF AtlasInv
<1>2. fInlineUploads \in Seq(UploadRecords) /\ Len(fInlineUploads) \in Nat
  BY <1>1, LenProperties DEF TokenTypes
<1>3. 1 \in 1 .. Len(fInlineUploads) /\ 1 <= i
  BY <1>2
<1>4. fInlineUploads # <<>> /\ Head(fInlineUploads) = fInlineUploads[1]
  BY <1>2, <1>3
<1>5. fInlineUploads[1].before # NextTokenToFlush
  BY <1>4 DEF InlineIsDue
<1>6. /\ fInlineUploads[1].before \in NextTokenToFlush .. NextDrawToken
      /\ fInlineUploads[i].before \in NextTokenToFlush .. NextDrawToken
      /\ fInlineUploads[1].before <= fInlineUploads[i].before
  BY <1>1, <1>3 DEF UploadsRight
<1>7. NextTokenToFlush \in Nat /\ NextDrawToken \in Nat
  BY <1>1, UploadFacts
<1> QED
  BY <1>5, <1>6, <1>7

LEMMA DrawIsFlushed ==
  ASSUME AtlasInv, Draw
  PROVE  AtlasInv'
<1>1. /\ pc = "execute" /\ pc' = "execute" /\ fASAPUploads = <<>> /\ fDraws # <<>> /\ ~InlineIsDue
      /\ fDraws' = Tail(fDraws)
      /\ fLastFlushedToken' = NextTokenToFlush
      /\ UNCHANGED <<plot, uploadVars, texture, executeUnchanged>>
      /\ UNCHANGED <<fPlotList, fNumActivePages, fGeneration, fAtlasGeneration, fPrevFlushToken,
                     fLastIssuedToken, locator, blobVars, opVars, quads, left, giveUpVars>>
  BY DEF Draw, executeUnchanged, opVars
<1>2. /\ AtlasTypes /\ TokenTypes /\ OpTypes /\ ListsRight /\ RecordsRight /\ LocatorsRight
      /\ GenerationsRight /\ QuadsRight /\ TextureRight /\ UploadsRight /\ TokensRight /\ PlotsLast
      /\ DrawsRight
  BY DEF AtlasInv
<1>3. /\ Uploads' = Uploads /\ Listed' = Listed /\ Pending' = Pending /\ Live' = Live
      /\ Active' = Active /\ NextDrawToken' = NextDrawToken
      /\ NextTokenToFlush' = NextTokenToFlush + 1
      /\ \A p : Slot(p)' = Slot(p)
  BY <1>1 DEF uploadVars, Uploads, Listed, Pending, Live, Active, Slot, NextDrawToken, NextTokenToFlush
<1>4. /\ Tail(fDraws) \in Seq(SUBSET QuadsOf) /\ Len(fDraws) \in Nat \ {0}
      /\ Len(Tail(fDraws)) = Len(fDraws) - 1
      /\ \A k \in 1 .. Len(fDraws) - 1 : Tail(fDraws)[k] = fDraws[k + 1]
  <2>1. fDraws \in Seq(SUBSET QuadsOf)
    BY <1>2 DEF TokenTypes
  <2>2. Tail(fDraws) \in Seq(SUBSET QuadsOf) /\ Len(Tail(fDraws)) = Len(fDraws) - 1
        /\ Len(fDraws) \in Nat \ {0}
    BY <1>1, <2>1, HeadTailProperties, EmptySeq, LenProperties
  <2>3. \A k \in 1 .. Len(fDraws) - 1 : Tail(fDraws)[k] = fDraws[k + 1]
    BY <1>1, <2>1, <2>2, HeadTailProperties
  <2> QED
    BY <2>2, <2>3
<1>5. AtlasTypes' /\ ListsRight' /\ LocatorsRight' /\ OpTypes' /\ RecordsRight' /\ GenerationsRight'
  <2>1. AtlasTypes' /\ ListsRight' /\ LocatorsRight'
    BY <1>1, <1>2, <1>3 DEF AtlasTypes, ListsRight, LocatorsRight, Located, Holds
  <2>2. OpTypes'
    BY <1>1, <1>2 DEF OpTypes, blobVars, opVars
  <2>3. RecordsRight'
    BY <1>1, <1>2, <1>3 DEF RecordsRight
  <2>4. GenerationsRight'
    BY <1>1, <1>2, <1>3 DEF GenerationsRight, blobVars, Good, Located, SlotOf
  <2> QED
    BY <2>1, <2>2, <2>3, <2>4
<1>6. TokenTypes'
  <2>1. fLastFlushedToken' \in Nat /\ fLastFlushedToken' + Len(fDraws') = fLastIssuedToken'
    BY <1>1, <1>2, <1>4 DEF TokenTypes, NextTokenToFlush
  <2> QED
    BY <1>1, <1>2, <1>4, <2>1 DEF TokenTypes, uploadVars
<1>7. PlacingRight' /\ QuadsRight' /\ ScheduleRight'
  <2>1. quads' = {}
    BY <1>1, <1>2 DEF QuadsRight
  <2> QED
    BY <1>1, <2>1 DEF PlacingRight, QuadsRight, ScheduleRight, Prepares
<1>8. TextureRight'
  BY <1>1, <1>2, <1>3 DEF TextureRight, giveUpVars
<1>9. UploadsRight'
  <2>1. \A i \in 1 .. Len(fInlineUploads) :
          fInlineUploads[i].before \in NextTokenToFlush + 1 .. NextDrawToken
    BY <1>1, NoneIsDue
  <2> QED
    BY <1>1, <1>2, <1>3, <2>1 DEF UploadsRight, uploadVars
<1>10. TokensRight'
  <2>1. ~DrawComes
    BY <1>1 DEF DrawComes
  <2> QED
    BY <1>1, <1>2, <1>3, <2>1 DEF TokensRight, giveUpVars
<1>11. DrawsRight'
  <2>1. \A quad, token : WillRead(quad, token)' <=> WillRead(quad, token)
    BY <1>1, <1>3, WillReadSame DEF SamePlace
  <2>2. ASSUME NEW k \in 1 .. Len(fDraws'), NEW quad \in fDraws'[k], quad.whole
        PROVE  quad.loc # None /\ WillRead(quad, fLastFlushedToken' + k)
    <3>1. k + 1 \in 1 .. Len(fDraws) /\ quad \in fDraws[k + 1]
      BY <1>1, <1>4, <2>2
    <3>2. quad.loc # None /\ WillRead(quad, fLastFlushedToken + (k + 1))
      BY <1>2, <2>2, <3>1 DEF DrawsRight
    <3>3. fLastFlushedToken' + k = fLastFlushedToken + (k + 1)
      BY <1>1, <1>2 DEF TokenTypes, NextTokenToFlush
    <3> QED
      BY <3>2, <3>3
  <2>3. ASSUME NEW k \in 1 .. Len(fDraws'), NEW quad \in fDraws'[k], quad.whole
        PROVE  quad.loc # None /\ WillRead(quad, fLastFlushedToken + k)'
    <3>1. PICK token : token = fLastFlushedToken' + k
      OBVIOUS
    <3>2. quad.loc # None /\ WillRead(quad, token)
      BY <2>2, <2>3, <3>1
    <3>3. WillRead(quad, token)'
      BY <2>1, <3>2
    <3> QED
      BY <3>1, <3>2, <3>3
  <2> QED
    BY <1>1, <2>3 DEF DrawsRight, Prepares
<1>12. PlotsLast'
  <2>1. Missing' = 0 /\ Missing = 0
    BY <1>1 DEF Missing
  <2> QED
    BY <1>1, <1>2, <1>3, <2>1 DEF PlotsLast
<1> QED
  BY <1>5, <1>6, <1>7, <1>8, <1>9, <1>10, <1>11, <1>12 DEF AtlasInv
-----------------------------------------------------------------------------
(* An upload is executed before all the others.                            *)
UploadLists ==
  /\ \A i, j \in 1 .. Len(fASAPUploads) : fASAPUploads[i] = fASAPUploads[j] => i = j
  /\ \A i, j \in 1 .. Len(fInlineUploads) :
       /\ fInlineUploads[i].plot = fInlineUploads[j].plot => i = j
       /\ i <= j => fInlineUploads[i].before <= fInlineUploads[j].before
  /\ \A i \in 1 .. Len(fInlineUploads) :
       fInlineUploads[i].before \in NextTokenToFlush .. NextDrawToken

IsFirst(u) ==
  /\ u \in Uploads /\ u.before <= NextTokenToFlush
  /\ \A v \in Uploads : u.before <= v.before
  /\ Uploads' = Uploads \ {u}
  /\ UploadToTexture(u.plot, Pending')
  /\ pc = "execute"
  /\ UNCHANGED <<fDraws, fLastFlushedToken, executeUnchanged>>

IsUploaded(u) ==
  /\ u.plot \in PlotObjects /\ u.plot \in Live /\ u.plot \notin Pending'
  /\ plot[u.plot] \in Records /\ Slot(u.plot) \in Slots
  /\ plot' \in PlotMaps /\ texture' \in [Slots -> [1 .. Room -> Glyphs \union {None}]]
  /\ Listed' = Listed /\ Pending' = Pending \ {u.plot} /\ Live' \subseteq Live
  /\ \A q \in PlotObjects : q # u.plot => plot'[q] = plot[q] /\ Slot(q)' = Slot(q)
  /\ \A q \in Listed :
       /\ Slot(q)' = Slot(q) /\ plot'[q] \in Records /\ plot'[q].page = plot[q].page
       /\ plot'[q].index = plot[q].index
       /\ plot'[q].glyphs = plot[q].glyphs /\ plot'[q].gen = plot[q].gen
       /\ plot'[q].lastUse = plot[q].lastUse /\ plot'[q].lastUpload = plot[q].lastUpload
  /\ u.plot \in Listed => plot'[u.plot].clean = Len(plot[u.plot].glyphs)
  /\ \A slot \in Slots : slot # Slot(u.plot) => texture'[slot] = texture[slot]
  /\ \A i \in 1 .. Room : texture'[Slot(u.plot)][i] =
       IF i \in plot[u.plot].clean + 1 .. Len(plot[u.plot].glyphs) THEN plot[u.plot].glyphs[i]
       ELSE texture[Slot(u.plot)][i]
  /\ NextDrawToken' = NextDrawToken /\ NextTokenToFlush' = NextTokenToFlush /\ Active' = Active

LEMMA UploadedFacts ==
  ASSUME AtlasInv, NEW u, IsFirst(u)
  PROVE  IsUploaded(u)
<1> DEFINE p == u.plot
<1>1. /\ AtlasTypes /\ TokenTypes /\ ListsRight /\ RecordsRight /\ UploadsRight /\ plot \in PlotMaps
      /\ texture \in [Slots -> [1 .. Room -> Glyphs \union {None}]]
  BY DEF AtlasInv, AtlasTypes
<1>2. /\ u \in Uploads /\ Uploads' = Uploads \ {u}
      /\ texture' = [texture EXCEPT ![Slot(p)] =
           [i \in 1 .. Room |->
              IF i \in plot[p].clean + 1 .. Len(plot[p].glyphs) THEN plot[p].glyphs[i] ELSE @[i]]]
      /\ plot' = [plot EXCEPT ![p] =
           IF p \in Listed \union Pending' THEN [plot[p] EXCEPT !.clean = Len(plot[p].glyphs)] ELSE None]
      /\ fPlotList' = fPlotList /\ fNumActivePages' = fNumActivePages
      /\ fLastIssuedToken' = fLastIssuedToken /\ fLastFlushedToken' = fLastFlushedToken
  BY DEF IsFirst, UploadToTexture, executeUnchanged
<1>3. /\ p \in PlotObjects /\ Pending = {v.plot : v \in Uploads} /\ Listed \subseteq PlotObjects
      /\ p \in Live
  BY <1>1, <1>2, UploadFacts, AtlasFacts DEF Live
<1>4. Listed' = Listed
  BY <1>2 DEF Listed
<1>5. Pending' = {v.plot : v \in Uploads'}
  BY PendingIs DEF Pending, Uploads
<1>6. Pending' = Pending \ {p} /\ p \notin Pending' /\ Live' \subseteq Live
  <2>1. \A v \in Uploads : v.plot = p => v = u
    BY <1>1, <1>2 DEF UploadsRight
  <2>2. Pending' = Pending \ {p}
    BY <1>2, <1>3, <1>5, <2>1
  <2> QED
    BY <1>4, <2>2 DEF Live
<1>7. plot[p] \in Records /\ Slot(p) \in Slots /\ Len(plot[p].glyphs) <= Room
  <2>1. plot[p] # None /\ plot[p] \in Records \union {None} /\ Len(plot[p].glyphs) <= Room
    BY <1>1, <1>3 DEF RecordsRight, PlotMaps
  <2> QED
    BY <2>1 DEF Slot, Slots, Records
<1> DEFINE c == [plot[p] EXCEPT !.clean = Len(plot[p].glyphs)]
<1>8. /\ c \in Records /\ c.page = plot[p].page /\ c.index = plot[p].index
      /\ c.glyphs = plot[p].glyphs /\ c.gen = plot[p].gen /\ c.clean = Len(plot[p].glyphs)
      /\ c.lastUse = plot[p].lastUse /\ c.lastUpload = plot[p].lastUpload
  <2>1. Len(plot[p].glyphs) \in Nat
    BY <1>7, SeqSet DEF Records
  <2> QED
    BY <1>7, <2>1 DEF Records
<1>9. plot' = [plot EXCEPT ![p] = IF p \in Listed THEN c ELSE None]
  BY <1>2, <1>6
<1> HIDE DEF c, p
<1>10. /\ plot' \in PlotMaps
       /\ \A q \in PlotObjects : q # p => plot'[q] = plot[q]
       /\ p \in Listed => plot'[p] = c
  BY <1>1, <1>3, <1>8, <1>9 DEF PlotMaps
<1>11. \A q \in PlotObjects : q # p => Slot(q)' = Slot(q)
  BY <1>10 DEF Slot
<1>12. ASSUME NEW q \in Listed
       PROVE  /\ Slot(q)' = Slot(q) /\ plot'[q] \in Records /\ plot'[q].page = plot[q].page
              /\ plot'[q].index = plot[q].index
              /\ plot'[q].glyphs = plot[q].glyphs /\ plot'[q].gen = plot[q].gen
              /\ plot'[q].lastUse = plot[q].lastUse /\ plot'[q].lastUpload = plot[q].lastUpload
  <2>1. plot[q] \in Records
    BY <1>1, AtlasFacts
  <2> QED
    BY <1>3, <1>8, <1>10, <2>1 DEF Slot
<1> DEFINE t == [i \in 1 .. Room |->
              IF i \in plot[p].clean + 1 .. Len(plot[p].glyphs) THEN plot[p].glyphs[i]
              ELSE texture[Slot(p)][i]]
<1>13. texture' = [texture EXCEPT ![Slot(p)] = t]
  BY <1>2 DEF p
<1>14. t \in [1 .. Room -> Glyphs \union {None}]
  <2>1. plot[p].clean \in Nat /\ plot[p].glyphs \in Seq(Glyphs)
    BY <1>7 DEF Records
  <2>2. /\ Len(plot[p].glyphs) \in Nat
        /\ \A i \in 1 .. Len(plot[p].glyphs) : plot[p].glyphs[i] \in Glyphs
    BY <2>1, SeqSet
  <2>3. \A i \in 1 .. Room : texture[Slot(p)][i] \in Glyphs \union {None}
    BY <1>1, <1>7
  <2>4. \A i \in 1 .. Room : i \in plot[p].clean + 1 .. Len(plot[p].glyphs) => plot[p].glyphs[i] \in Glyphs
    BY <2>1, <2>2
  <2> QED
    BY <2>3, <2>4
<1>15. \A i \in 1 .. Room : t[i] = IF i \in plot[p].clean + 1 .. Len(plot[p].glyphs) THEN plot[p].glyphs[i]
                                   ELSE texture[Slot(p)][i]
  OBVIOUS
<1> HIDE DEF t
<1>16. /\ texture' \in [Slots -> [1 .. Room -> Glyphs \union {None}]]
       /\ texture'[Slot(p)] = t
       /\ \A slot \in Slots : slot # Slot(p) => texture'[slot] = texture[slot]
  BY <1>1, <1>7, <1>13, <1>14
<1>17. NextDrawToken' = NextDrawToken /\ NextTokenToFlush' = NextTokenToFlush /\ Active' = Active
  BY <1>2 DEF NextDrawToken, NextTokenToFlush, Active
<1> QED
  BY <1>3, <1>4, <1>6, <1>7, <1>8, <1>10, <1>11, <1>12, <1>15, <1>16, <1>17 DEF IsUploaded, p

LEMMA UploadedDraws ==
  ASSUME AtlasInv, NEW u, IsFirst(u), IsUploaded(u)
  PROVE  DrawsRight' /\ TextureRight'
<1> DEFINE p == u.plot
<1>1. /\ TokenTypes /\ AtlasTypes /\ ListsRight /\ RecordsRight /\ UploadsRight /\ DrawsRight /\ TextureRight
  BY DEF AtlasInv
<1>2. /\ u \in Uploads /\ u.before <= NextTokenToFlush /\ Uploads' = Uploads \ {u}
      /\ \A v \in Uploads : u.before <= v.before
      /\ fDraws' = fDraws /\ fLastFlushedToken' = fLastFlushedToken /\ pc' = "execute"
      /\ lapsed' = lapsed
  BY DEF IsFirst, executeUnchanged, opVars, giveUpVars
<1>3. /\ \A v \in Uploads : v.plot \in PlotObjects /\ v.before \in Nat
      /\ NextTokenToFlush \in Nat /\ NextTokenToFlush = fLastFlushedToken + 1
      /\ Pending = {v.plot : v \in Uploads}
  BY <1>1, UploadFacts DEF NextTokenToFlush
<1>4. \A v \in Uploads' : v \in Uploads /\ v # u /\ v.plot # p
  BY <1>1, <1>2 DEF UploadsRight
<1>5. /\ p \in PlotObjects /\ p \in Live /\ plot[p] \in Records /\ Slot(p) \in Slots
      /\ Listed' = Listed /\ Pending' = Pending \ {p}
      /\ \A q \in PlotObjects : q # p => plot'[q] = plot[q] /\ Slot(q)' = Slot(q)
      /\ \A q \in Listed : Slot(q)' = Slot(q) /\ plot'[q].glyphs = plot[q].glyphs
                           /\ plot'[q].gen = plot[q].gen
      /\ p \in Listed => plot'[p].clean = Len(plot[p].glyphs)
      /\ \A slot \in Slots : slot # Slot(p) => texture'[slot] = texture[slot]
      /\ \A i \in 1 .. Room : texture'[Slot(p)][i] =
           IF i \in plot[p].clean + 1 .. Len(plot[p].glyphs) THEN plot[p].glyphs[i]
           ELSE texture[Slot(p)][i]
  BY DEF IsUploaded
<1>6. plot[p].clean \in Nat /\ Len(plot[p].glyphs) \in Nat /\ Len(plot[p].glyphs) <= Room
      /\ plot[p].clean <= Len(plot[p].glyphs) /\ Room \in Nat
  BY <1>1, <1>5, SeqSet, Numbers DEF Records, RecordsRight
<1> HIDE DEF p
<1>7. \A v \in Uploads' : plot'[v.plot] = plot[v.plot] /\ Slot(v.plot)' = Slot(v.plot)
  BY <1>3, <1>4, <1>5
<1>8. \A v \in Uploads' : \A loc : Covers(v, loc)' <=> Covers(v, loc)
  BY <1>7 DEF Covers
<1>9. ASSUME NEW quad \in QuadsOf, quad.loc # None, NEW token \in Nat, u.before <= token,
             WillRead(quad, token)
      PROVE  WillRead(quad, token)'
  <2> DEFINE loc == quad.loc
  <2>1. loc.at \in 1 .. Room /\ SlotOf(loc) \in Slots
    <3>1. quad.loc \in Locators
      BY <1>9 DEF QuadsOf
    <3> QED
      BY <3>1 DEF Locators, SlotOf, Slots
  <2> HIDE DEF loc
  <2>2. CASE \E w \in Uploads :
             /\ w.before <= token /\ Covers(w, loc) /\ plot[w.plot].glyphs[loc.at] = quad.glyph
             /\ \A v \in Uploads : v.before <= token /\ Slot(v.plot) = SlotOf(loc) /\ v # w =>
                  v.before < w.before
    <3>1. PICK w \in Uploads :
             /\ w.before <= token /\ Covers(w, loc) /\ plot[w.plot].glyphs[loc.at] = quad.glyph
             /\ \A v \in Uploads : v.before <= token /\ Slot(v.plot) = SlotOf(loc) /\ v # w =>
                  v.before < w.before
      BY <2>2
    <3>2. CASE w # u
      <4>1. w \in Uploads' /\ Covers(w, loc)' /\ plot'[w.plot].glyphs[loc.at] = quad.glyph
        BY <1>2, <1>7, <1>8, <3>1, <3>2
      <4>2. \A v \in Uploads' : v.before <= token /\ Slot(v.plot)' = SlotOf(loc) /\ v # w =>
              v.before < w.before
        BY <1>4, <1>7, <3>1
      <4> QED
        BY <3>1, <4>1, <4>2 DEF WillRead, loc
    <3>3. CASE w = u
      <4>1. \A v \in Uploads' : v.before <= token => Slot(v.plot)' # SlotOf(loc)
        <5> SUFFICES ASSUME NEW v \in Uploads', v.before <= token, Slot(v.plot)' = SlotOf(loc) PROVE FALSE
          OBVIOUS
        <5>1. v.before < u.before
          BY <1>4, <1>7, <3>1, <3>3
        <5> QED
          BY <1>2, <1>3, <1>4, <5>1
      <4>2. \A v \in Uploads' : v.before <= token => ~Covers(v, loc)'
        BY <4>1 DEF Covers
      <4>3. ReadsRight(quad)'
        <5>1. Slot(p) = SlotOf(loc) /\ loc.at \in plot[p].clean + 1 .. Len(plot[p].glyphs)
              /\ plot[p].glyphs[loc.at] = quad.glyph
          BY <3>1, <3>3 DEF Covers, p
        <5>2. texture'[SlotOf(loc)][loc.at] = quad.glyph
          BY <1>5, <2>1, <5>1
        <5> QED
          BY <5>2 DEF ReadsRight, SlotOf, loc
      <4> QED
        BY <4>2, <4>3 DEF WillRead, loc
    <3> QED
      BY <3>2, <3>3
  <2>3. CASE ReadsRight(quad) /\ \A w \in Uploads : w.before <= token => ~Covers(w, loc)
    <3>1. ~Covers(u, loc)
      BY <1>2, <1>9, <2>3
    <3>2. texture'[SlotOf(loc)][loc.at] = texture[SlotOf(loc)][loc.at]
      <4>1. CASE Slot(p) = SlotOf(loc)
        <5>1. ~(loc.at \in plot[p].clean + 1 .. Len(plot[p].glyphs))
          BY <3>1, <4>1 DEF Covers, p
        <5> QED
          BY <1>5, <2>1, <4>1, <5>1
      <4>2. CASE Slot(p) # SlotOf(loc)
        BY <1>5, <2>1, <4>2
      <4> QED
        BY <4>1, <4>2
    <3>3. ReadsRight(quad)'
      BY <2>3, <3>2 DEF ReadsRight, SlotOf, loc
    <3>4. \A w \in Uploads' : w.before <= token => ~Covers(w, loc)'
      BY <1>4, <1>8, <2>3
    <3> QED
      BY <3>3, <3>4 DEF WillRead, loc
  <2> QED
    BY <1>9, <2>2, <2>3 DEF WillRead, loc
<1>10. DrawsRight'
  <2>1. ASSUME NEW k \in 1 .. Len(fDraws), NEW quad \in fDraws[k], quad.whole
        PROVE  quad.loc # None /\ WillRead(quad, fLastFlushedToken + k)'
    <3>1. quad \in QuadsOf
      <4>1. fDraws \in Seq(SUBSET QuadsOf)
        BY <1>1 DEF TokenTypes
      <4>2. fDraws[k] \in SUBSET QuadsOf
        BY <2>1, <4>1, SeqSet
      <4> QED
        BY <4>2
    <3>2. PICK token \in Nat : token = fLastFlushedToken + k
      BY <1>1 DEF TokenTypes
    <3>3. quad.loc # None /\ WillRead(quad, token)
      BY <1>1, <2>1, <3>2 DEF DrawsRight
    <3>4. u.before <= token
      <4>1. fLastFlushedToken \in Nat
        BY <1>1 DEF TokenTypes
      <4> QED
        BY <1>2, <1>3, <3>2, <4>1
    <3>5. WillRead(quad, token)'
      BY <1>9, <3>1, <3>3, <3>4
    <3>6. token = (fLastFlushedToken + k)'
      BY <1>2, <3>2
    <3> QED
      BY <3>3, <3>5, <3>6
  <2> QED
    BY <1>2, <2>1 DEF DrawsRight, Prepares
<1>11. \A p1, q1 \in Listed : Slot(p1) = Slot(q1) => p1 = q1
  BY <1>1, AtlasFacts
<1>12. ASSUME NEW q \in Listed, NEW i \in 1 .. plot'[q].clean
       PROVE  texture'[Slot(q)][i] = plot[q].glyphs[i]
  <2>1. q \in PlotObjects /\ plot[q] \in Records /\ Slot(q) \in Slots
    BY <1>1, AtlasFacts
  <2>2. CASE q = p
    <3>1. i \in 1 .. Len(plot[p].glyphs)
      BY <1>5, <1>12, <2>2
    <3>2. i \in 1 .. Room
      BY <1>6, <3>1
    <3>3. CASE i \in plot[p].clean + 1 .. Len(plot[p].glyphs)
      BY <1>5, <2>2, <3>2, <3>3
    <3>4. CASE i \notin plot[p].clean + 1 .. Len(plot[p].glyphs)
      <4>1. i \in 1 .. plot[p].clean
        BY <1>6, <3>1, <3>4
      <4>2. texture[Slot(p)][i] = plot[p].glyphs[i]
        BY <1>1, <2>2, <4>1 DEF TextureRight
      <4> QED
        BY <1>5, <2>2, <3>2, <3>4, <4>2
    <3> QED
      BY <3>3, <3>4
  <2>3. CASE q # p
    <3>1. i \in 1 .. plot[q].clean
      BY <1>5, <1>12, <2>1, <2>3
    <3>2. texture[Slot(q)][i] = plot[q].glyphs[i]
      BY <1>1, <3>1 DEF TextureRight
    <3>3. Slot(q) # Slot(p)
      <4> SUFFICES ASSUME Slot(q) = Slot(p) PROVE FALSE
        OBVIOUS
      <4>1. p \notin Listed
        BY <1>11, <2>3
      <4>2. PICK v \in Uploads : v.plot \in Listed /\ Slot(v.plot) = Slot(p) /\ u.before < v.before
        BY <1>1, <1>2, <4>1 DEF UploadsRight, p
      <4>3. v.plot = q /\ v.before # 0
        BY <1>2, <1>3, <1>11, <4>2
      <4>4. plot[q].clean = 0
        BY <1>1, <4>3 DEF TextureRight
      <4> QED
        BY <3>1, <4>4
    <3> QED
      BY <1>5, <2>1, <3>2, <3>3
  <2> QED
    BY <2>2, <2>3
<1>13. TextureRight'
  <2>1. \A q \in Listed' : \A i \in 1 .. plot'[q].clean : texture'[Slot(q)'][i] = plot'[q].glyphs[i]
    BY <1>5, <1>12
  <2>2. \A q \in Listed' \ Pending' :
          plot'[q].gen \in lapsed' \/ plot'[q].clean = Len(plot'[q].glyphs)
    <3> SUFFICES ASSUME NEW q \in Listed, q \notin Pending'
                 PROVE  plot'[q].gen \in lapsed' \/ plot'[q].clean = Len(plot'[q].glyphs)
      BY <1>5
    <3>1. CASE q = p
      BY <1>5, <3>1
    <3>2. CASE q # p
      <4>1. q \in Listed \ Pending /\ q \in PlotObjects
        BY <1>1, <1>5, <3>2, AtlasFacts
      <4>2. plot'[q] = plot[q]
        BY <1>5, <3>2, <4>1
      <4> QED
        BY <1>1, <1>2, <4>1, <4>2 DEF TextureRight
    <3> QED
      BY <3>1, <3>2
  <2>3. \A v \in Uploads' : /\ plot'[v.plot].clean < Len(plot'[v.plot].glyphs)
                            /\ v.before # 0 => plot'[v.plot].clean = 0
    BY <1>1, <1>4, <1>7 DEF TextureRight
  <2> QED
    BY <2>1, <2>2, <2>3 DEF TextureRight
<1> QED
  BY <1>10, <1>13

LEMMA UploadKeeps ==
  ASSUME AtlasInv, NEW u, IsFirst(u), UploadLists',
         fASAPUploads' \in Seq(PlotObjects), fInlineUploads' \in Seq(UploadRecords)
  PROVE  AtlasInv'
<1>1. /\ AtlasTypes /\ TokenTypes /\ OpTypes /\ ListsRight /\ RecordsRight /\ LocatorsRight
      /\ GenerationsRight /\ QuadsRight /\ UploadsRight /\ TokensRight /\ PlotsLast
  BY DEF AtlasInv
<1>2. IsUploaded(u)
  BY UploadedFacts
<1>3. /\ plot' \in PlotMaps /\ texture' \in [Slots -> [1 .. Room -> Glyphs \union {None}]]
      /\ Listed' = Listed /\ Pending' = Pending \ {u.plot} /\ Live' \subseteq Live
      /\ \A q \in PlotObjects : q # u.plot => plot'[q] = plot[q] /\ Slot(q)' = Slot(q)
      /\ \A q \in Listed :
           /\ Slot(q)' = Slot(q) /\ plot'[q] \in Records /\ plot'[q].page = plot[q].page
           /\ plot'[q].index = plot[q].index
           /\ plot'[q].glyphs = plot[q].glyphs /\ plot'[q].gen = plot[q].gen
           /\ plot'[q].lastUse = plot[q].lastUse /\ plot'[q].lastUpload = plot[q].lastUpload
      /\ u.plot \in Listed => plot'[u.plot].clean = Len(plot[u.plot].glyphs)
      /\ NextDrawToken' = NextDrawToken /\ NextTokenToFlush' = NextTokenToFlush /\ Active' = Active
      /\ u.plot \notin Pending'
  BY <1>2 DEF IsUploaded
<1>4. /\ u \in Uploads /\ \A v \in Uploads : u.before <= v.before
      /\ Uploads' = Uploads \ {u} /\ pc = "execute" /\ pc' = "execute" /\ fDraws' = fDraws
      /\ UNCHANGED <<fLastFlushedToken, fPlotList, fNumActivePages, fGeneration, fAtlasGeneration,
                     fPrevFlushToken, fLastIssuedToken, locator, blobVars, opVars, quads, left,
                     gaveUp>>
  BY DEF IsFirst, executeUnchanged, opVars, giveUpVars
<1>5. DrawsRight' /\ TextureRight'
  BY <1>2, UploadedDraws
<1>6. Live \subseteq PlotObjects /\ Listed \subseteq Live
  BY LiveSize DEF Live
<1>7. AtlasTypes'
  BY <1>1, <1>3, <1>4 DEF AtlasTypes
<1>8. TokenTypes'
  BY <1>1, <1>4 DEF TokenTypes
<1>9. OpTypes'
  BY <1>1, <1>4 DEF OpTypes, blobVars, opVars
<1>10. ListsRight'
  <2>1. \A q \in Listed : plot'[q] # None
    BY <1>3, Numbers
  <2>2. \A q \in Listed : SlotIn(plot', q) = SlotIn(plot, q)
    BY <1>3 DEF SlotIn
  <2>3. Listed = ListedIn(fPlotList)
    BY DEF Listed, ListedIn
  <2>4. \A page \in Pages : ToSet(fPlotList[page]) \subseteq Listed
    BY DEF Listed
  <2>5. ListsAre(plot, fPlotList)
    BY <1>1 DEF ListsRight
  <2>6. \A page \in Pages : \A p \in ToSet(fPlotList[page]) : plot'[p] # None /\ plot'[p].page = page
    BY <1>3, <2>1, <2>4, <2>5 DEF ListsAre
  <2>7. ListsAre(plot', fPlotList)
    BY <2>2, <2>3, <2>5, <2>6 DEF ListsAre
  <2> QED
    BY <1>4, <2>7 DEF ListsRight
<1>11. RecordsRight'
  <2>1. ASSUME NEW p \in Live'
        PROVE  /\ plot'[p] # None
               /\ Len(plot'[p].glyphs) <= Room /\ plot'[p].clean <= Len(plot'[p].glyphs)
               /\ plot'[p].gen < fGeneration
               /\ plot'[p].lastUse <= NextDrawToken /\ plot'[p].lastUpload <= NextDrawToken
    <3>1. p \in Live /\ p \in PlotObjects
      BY <1>3, <1>6, <2>1
    <3>2. /\ plot[p] # None
          /\ Len(plot[p].glyphs) <= Room /\ plot[p].clean <= Len(plot[p].glyphs)
          /\ plot[p].gen < fGeneration
          /\ plot[p].lastUse <= NextDrawToken /\ plot[p].lastUpload <= NextDrawToken
      BY <1>1, <3>1 DEF RecordsRight
    <3>3. CASE p # u.plot
      BY <1>3, <3>1, <3>2, <3>3
    <3>4. CASE p = u.plot
      <4>1. p \in Listed
        BY <1>3, <2>1, <3>4 DEF Live
      <4>2. plot'[p] # None /\ plot'[p].glyphs = plot[p].glyphs
            /\ plot'[p].clean = Len(plot[p].glyphs) /\ Len(plot'[p].glyphs) \in Nat
        <5>1. plot'[p] \in Records
          BY <1>3, <4>1
        <5>2. Len(plot'[p].glyphs) \in Nat
          BY <5>1, SeqSet DEF Records
        <5> QED
          BY <1>3, <3>4, <4>1, <5>1, <5>2, Numbers
      <4> QED
        BY <1>3, <3>2, <4>1, <4>2
    <3> QED
      BY <3>3, <3>4
  <2>2. \A p \in Listed : plot'[p].glyphs # <<>> => plot'[p].lastUse # 0
    BY <1>1, <1>3 DEF RecordsRight
  <2> QED
    BY <1>3, <1>4, <2>1, <2>2 DEF RecordsRight
<1>12. \A loc : \A p : Located(loc, p)' <=> Located(loc, p)
  BY <1>3 DEF Located
<1>13. LocatorsRight'
  BY <1>1, <1>3, <1>4, <1>12 DEF LocatorsRight, Holds
<1>14. GenerationsRight'
  <2>1. \A loc : Good(loc)' <=> Good(loc)
    BY <1>3, <1>12 DEF Good
  <2>2. \A s \in SubRuns : \A i \in 1 .. Len(GlyphsOf[s]) :
          Good(texCoords[s][i]) => Good(texCoords[s][i])'
    <3> SUFFICES ASSUME NEW s \in SubRuns, NEW i \in 1 .. Len(GlyphsOf[s]), Good(texCoords[s][i])
                 PROVE  Good(texCoords[s][i])'
      OBVIOUS
    <3>1. PICK loc : loc = texCoords[s][i]
      OBVIOUS
    <3>2. Good(loc)' /\ texCoords' = texCoords
      BY <1>4, <2>1, <3>1 DEF blobVars
    <3> QED
      BY <3>1, <3>2
  <2> QED
    BY <1>1, <1>4, <2>2 DEF GenerationsRight, SlotOf, blobVars
<1>15. PlacingRight' /\ QuadsRight' /\ ScheduleRight'
  <2>1. quads' = {}
    BY <1>1, <1>4 DEF QuadsRight
  <2> QED
    BY <1>4, <2>1 DEF PlacingRight, QuadsRight, ScheduleRight, Prepares
<1>16. TokensRight'
  <2>1. ~DrawComes
    BY <1>4 DEF DrawComes
  <2> QED
    BY <1>1, <1>3, <1>4, <2>1 DEF TokensRight
<1>17. UploadsRight'
  <2>1. \A v \in Uploads' : v \in Uploads /\ v # u /\ v.plot # u.plot /\ v.plot \in PlotObjects
    BY <1>1, <1>4, UploadFacts DEF UploadsRight
  <2>2. \A v, w \in Uploads' : v.plot = w.plot => v = w
    BY <1>1, <1>4 DEF UploadsRight
  <2>3. ASSUME NEW v \in Uploads', v.plot \notin Listed
        PROVE  \E w \in Uploads' : w.plot \in Listed /\ Slot(w.plot)' = Slot(v.plot)' /\ v.before < w.before
    <3>1. PICK w \in Uploads : w.plot \in Listed /\ Slot(w.plot) = Slot(v.plot) /\ v.before < w.before
      BY <1>1, <2>1, <2>3 DEF UploadsRight
    <3>2. w # u
      <4>1. u.before <= v.before /\ u.before \in Nat /\ v.before \in Nat /\ w.before \in Nat
        BY <1>1, <1>4, <2>1, UploadFacts
      <4> QED
        BY <3>1, <4>1
    <3>3. w \in Uploads' /\ Slot(w.plot)' = Slot(w.plot) /\ Slot(v.plot)' = Slot(v.plot)
      BY <1>3, <1>4, <2>1, <3>1, <3>2
    <3> QED
      BY <3>1, <3>3
  <2> QED
    BY <1>3, <2>2, <2>3 DEF UploadsRight, UploadLists
<1>18. PlotsLast'
  <2>1. Missing = 0 /\ Missing' = 0 /\ left' = left
    BY <1>4 DEF Missing
  <2>2. IsFiniteSet(Live) /\ Cardinality(Live) \in Nat
    BY LiveSize
  <2>3. PICK m \in Nat : m = Cardinality(Live') /\ m <= Cardinality(Live)
    BY <1>3, <2>2, FS_Subset, FS_CardinalityType
  <2>4. m + 0 <= Cardinality(Live) + Missing
    BY <2>1, <2>2, <2>3
  <2> QED
    BY <2>1, <2>3, <2>4, NoMorePlots
<1> QED
  BY <1>5, <1>7, <1>8, <1>9, <1>10, <1>11, <1>13, <1>14, <1>15, <1>16, <1>17, <1>18 DEF AtlasInv

LEMMA ASAPIsFirst ==
  ASSUME AtlasInv, ASAPUpload
  PROVE  /\ \E u : IsFirst(u)
         /\ UploadLists' /\ fASAPUploads' \in Seq(PlotObjects) /\ fInlineUploads' \in Seq(UploadRecords)
<1>1. /\ pc = "execute" /\ fASAPUploads # <<>>
      /\ fASAPUploads' = Tail(fASAPUploads)
      /\ UploadToTexture(Head(fASAPUploads), Scheduled(Tail(fASAPUploads), fInlineUploads))
      /\ UNCHANGED <<fInlineUploads, fDraws, fLastFlushedToken, executeUnchanged>>
  BY DEF ASAPUpload
<1>2. /\ TokenTypes /\ UploadsRight /\ fASAPUploads \in Seq(PlotObjects)
      /\ fInlineUploads \in Seq(UploadRecords)
  BY DEF AtlasInv, TokenTypes
<1> DEFINE u == [plot |-> Head(fASAPUploads), before |-> 0]
<1>3. /\ Tail(fASAPUploads) \in Seq(PlotObjects) /\ Len(fASAPUploads) \in Nat \ {0}
      /\ Len(Tail(fASAPUploads)) = Len(fASAPUploads) - 1 /\ Head(fASAPUploads) = fASAPUploads[1]
      /\ \A i \in 1 .. Len(fASAPUploads) - 1 : Tail(fASAPUploads)[i] = fASAPUploads[i + 1]
      /\ Uploads = UploadsIn(Tail(fASAPUploads), fInlineUploads) \union {u}
  BY <1>1, <1>2, UploadsTail DEF Uploads
<1>4. u.plot = Head(fASAPUploads) /\ u.before = 0
  OBVIOUS
<1>5. /\ \A v \in Uploads : v.before \in Nat /\ \A i \in 1 .. Len(fInlineUploads) :
           fInlineUploads[i].before # 0
      /\ NextTokenToFlush \in Nat
      /\ NextTokenToFlush # 0
  <2>1. fLastFlushedToken \in Nat
    BY <1>2 DEF TokenTypes
  <2>2. NextTokenToFlush \in Nat /\ NextTokenToFlush # 0
    BY <2>1 DEF NextTokenToFlush
  <2>3. NextDrawToken \in Nat /\ \A v \in Uploads : v.before \in Nat
    BY <1>2, UploadFacts
  <2>4. \A i \in 1 .. Len(fInlineUploads) : fInlineUploads[i].before \in NextTokenToFlush .. NextDrawToken
    BY <1>2 DEF UploadsRight
  <2> QED
    BY <2>2, <2>3, <2>4
<1>6. \A i \in 1 .. Len(fASAPUploads) - 1 : i + 1 \in 1 .. Len(fASAPUploads) /\ i + 1 # 1
  BY <1>3
<1>7. \A i \in 1 .. Len(fASAPUploads) - 1 : Tail(fASAPUploads)[i] # Head(fASAPUploads)
  <2>1. 1 \in 1 .. Len(fASAPUploads)
    BY <1>3
  <2> QED
    BY <1>2, <1>3, <1>6, <2>1 DEF UploadsRight
<1>8. u \notin UploadsIn(Tail(fASAPUploads), fInlineUploads)
  <2> SUFFICES ASSUME u \in UploadsIn(Tail(fASAPUploads), fInlineUploads) PROVE FALSE
    OBVIOUS
  <2>1. CASE \E i \in 1 .. Len(Tail(fASAPUploads)) : u = [plot |-> Tail(fASAPUploads)[i], before |-> 0]
    <3>1. PICK i \in 1 .. Len(fASAPUploads) - 1 : u = [plot |-> Tail(fASAPUploads)[i], before |-> 0]
      BY <1>3, <2>1
    <3>2. u.plot = Tail(fASAPUploads)[i]
      BY <3>1
    <3> QED
      BY <1>4, <1>7, <3>2
  <2>2. CASE \E i \in 1 .. Len(fInlineUploads) : u = fInlineUploads[i]
    BY <1>3, <1>4, <1>5, <2>2
  <2> HIDE DEF u
  <2> QED
    BY <1>2, <1>3, <2>1, <2>2, UploadsAre
<1> HIDE DEF u
<1>9. /\ Uploads' = UploadsIn(Tail(fASAPUploads), fInlineUploads)
      /\ Pending' = Scheduled(Tail(fASAPUploads), fInlineUploads)
  BY <1>1 DEF Uploads, Pending
<1>10. IsFirst(u)
  <2>1. u \in Uploads /\ Uploads' = Uploads \ {u}
    BY <1>3, <1>8, <1>9
  <2>2. u.before <= NextTokenToFlush /\ \A v \in Uploads : u.before <= v.before
    BY <1>4, <1>5
  <2> QED
    BY <1>1, <1>4, <1>9, <2>1, <2>2 DEF IsFirst
<1>11. UploadLists'
  <2>1. \A i, j \in 1 .. Len(Tail(fASAPUploads)) :
          Tail(fASAPUploads)[i] = Tail(fASAPUploads)[j] => i = j
    <3> SUFFICES ASSUME NEW i \in 1 .. Len(fASAPUploads) - 1, NEW j \in 1 .. Len(fASAPUploads) - 1,
                        Tail(fASAPUploads)[i] = Tail(fASAPUploads)[j]
                 PROVE  i = j
      BY <1>3
    <3>1. fASAPUploads[i + 1] = fASAPUploads[j + 1]
      BY <1>3
    <3>2. i + 1 = j + 1
      BY <1>2, <1>6, <3>1 DEF UploadsRight
    <3> QED
      BY <3>2
  <2>2. NextTokenToFlush' = NextTokenToFlush /\ NextDrawToken' = NextDrawToken
    BY <1>1 DEF NextTokenToFlush, NextDrawToken, executeUnchanged
  <2> QED
    BY <1>1, <1>2, <2>1, <2>2, SMTT(40) DEF UploadLists, UploadsRight
<1> QED
  BY <1>1, <1>2, <1>3, <1>10, <1>11

LEMMA InlineIsFirst ==
  ASSUME AtlasInv, InlineUpload
  PROVE  /\ \E u : IsFirst(u)
         /\ UploadLists' /\ fASAPUploads' \in Seq(PlotObjects) /\ fInlineUploads' \in Seq(UploadRecords)
<1> DEFINE l == fInlineUploads
           u == Head(fInlineUploads)
<1>1. /\ pc = "execute" /\ fASAPUploads = <<>> /\ l # <<>> /\ u.before = NextTokenToFlush
      /\ l' = Tail(l)
      /\ UploadToTexture(u.plot, Scheduled(fASAPUploads, Tail(l)))
      /\ UNCHANGED <<fASAPUploads, fDraws, fLastFlushedToken, executeUnchanged>>
  BY DEF InlineUpload, InlineIsDue
<1>2. /\ TokenTypes /\ UploadsRight /\ fASAPUploads \in Seq(PlotObjects)
      /\ l \in Seq(UploadRecords)
  BY DEF AtlasInv, TokenTypes
<1>3. /\ Tail(l) \in Seq(UploadRecords) /\ Len(l) \in Nat \ {0}
      /\ Len(Tail(l)) = Len(l) - 1 /\ Head(l) = l[1]
      /\ \A i \in 1 .. Len(l) - 1 : Tail(l)[i] = l[i + 1]
      /\ Uploads = UploadsIn(fASAPUploads, Tail(l)) \union {u}
  BY <1>1, <1>2, UploadsTail DEF Uploads
<1>4. \A i \in 1 .. Len(l) - 1 : i + 1 \in 1 .. Len(l) /\ i + 1 # 1
  BY <1>3
<1>5. /\ \A i, j \in 1 .. Len(l) : /\ l[i].plot = l[j].plot => i = j
                                   /\ i <= j => l[i].before <= l[j].before
      /\ \A i \in 1 .. Len(l) : l[i].before \in NextTokenToFlush .. NextDrawToken
  BY <1>2 DEF UploadsRight
<1>6. \A v \in UploadsIn(fASAPUploads, Tail(l)) : \E i \in 1 .. Len(l) - 1 : v = l[i + 1]
  <2>1. Len(fASAPUploads) = 0
    BY <1>1
  <2>2. PICK t \in Seq(UploadRecords) : t = Tail(l)
    BY <1>3
  <2>3. \A v \in UploadsIn(fASAPUploads, t) :
          \/ \E i \in 1 .. Len(fASAPUploads) : v = [plot |-> fASAPUploads[i], before |-> 0]
          \/ \E i \in 1 .. Len(t) : v = t[i]
    BY <1>2, UploadsAre
  <2>4. \A v \in UploadsIn(fASAPUploads, t) : \E i \in 1 .. Len(t) : v = t[i]
    BY <2>1, <2>3
  <2> QED
    BY <1>3, <2>2, <2>4
<1>7. 1 \in 1 .. Len(l)
  BY <1>3
<1>8. u \notin UploadsIn(fASAPUploads, Tail(l))
  <2> SUFFICES ASSUME u \in UploadsIn(fASAPUploads, Tail(l)) PROVE FALSE
    OBVIOUS
  <2>1. PICK i \in 1 .. Len(l) - 1 : u = l[i + 1]
    BY <1>6
  <2>2. l[1].plot = l[i + 1].plot
    BY <1>3, <2>1
  <2> QED
    BY <1>4, <1>5, <1>7, <2>2
<1>9. /\ Uploads' = UploadsIn(fASAPUploads, Tail(l))
      /\ Pending' = Scheduled(fASAPUploads, Tail(l))
  BY <1>1 DEF Uploads, Pending
<1>10. \A v \in Uploads : u.before <= v.before
  <2>1. NextTokenToFlush \in Nat
    BY <1>2, UploadFacts
  <2>2. \A i \in 1 .. Len(l) - 1 : u.before <= l[i + 1].before
    <3> SUFFICES ASSUME NEW i \in 1 .. Len(l) - 1 PROVE u.before <= l[i + 1].before
      OBVIOUS
    <3>1. 1 <= i + 1 /\ i + 1 \in 1 .. Len(l)
      BY <1>4
    <3> QED
      BY <1>3, <1>5, <1>7, <3>1
  <2> QED
    BY <1>1, <1>3, <1>6, <2>1, <2>2
<1>11. IsFirst(u)
  <2>1. u \in Uploads /\ Uploads' = Uploads \ {u}
    BY <1>3, <1>8, <1>9
  <2>2. u.before <= NextTokenToFlush
    BY <1>1, <1>2, UploadFacts
  <2> HIDE DEF u, l
  <2> QED
    BY <1>1, <1>9, <1>10, <2>1, <2>2 DEF IsFirst
<1>12. UploadLists'
  <2>1. \A i, j \in 1 .. Len(Tail(l)) :
          /\ Tail(l)[i].plot = Tail(l)[j].plot => i = j
          /\ i <= j => Tail(l)[i].before <= Tail(l)[j].before
    <3> SUFFICES ASSUME NEW i \in 1 .. Len(l) - 1, NEW j \in 1 .. Len(l) - 1
                 PROVE  /\ Tail(l)[i].plot = Tail(l)[j].plot => i = j
                        /\ i <= j => Tail(l)[i].before <= Tail(l)[j].before
      BY <1>3
    <3>1. Tail(l)[i] = l[i + 1] /\ Tail(l)[j] = l[j + 1]
      BY <1>3
    <3>2. /\ l[i + 1].plot = l[j + 1].plot => i + 1 = j + 1
          /\ i + 1 <= j + 1 => l[i + 1].before <= l[j + 1].before
      BY <1>4, <1>5
    <3>3. (i + 1 = j + 1 => i = j) /\ (i <= j => i + 1 <= j + 1)
      OBVIOUS
    <3> QED
      BY <3>1, <3>2, <3>3
  <2>2. NextTokenToFlush' = NextTokenToFlush /\ NextDrawToken' = NextDrawToken
    BY <1>1 DEF NextTokenToFlush, NextDrawToken, executeUnchanged
  <2>3. \A i \in 1 .. Len(Tail(l)) : Tail(l)[i].before \in NextTokenToFlush .. NextDrawToken
    BY <1>3, <1>4, <1>5
  <2>4. \A i, j \in 1 .. Len(fASAPUploads) : fASAPUploads[i] = fASAPUploads[j] => i = j
    BY <1>2 DEF UploadsRight
  <2> QED
    BY <1>1, <2>1, <2>2, <2>3, <2>4 DEF UploadLists
<1> QED
  BY <1>1, <1>2, <1>3, <1>11, <1>12

LEMMA UploadsKeep ==
  ASSUME AtlasInv, ASAPUpload \/ InlineUpload
  PROVE  AtlasInv'
<1>1. /\ \E u : IsFirst(u)
      /\ UploadLists' /\ fASAPUploads' \in Seq(PlotObjects) /\ fInlineUploads' \in Seq(UploadRecords)
  BY ASAPIsFirst, InlineIsFirst
<1> QED
  BY <1>1, UploadKeeps
-----------------------------------------------------------------------------
(* compact(): plots are emptied, and the last page may be given up.        *)
LEMMA AtlasSize ==
  ASSUME AtlasTypes, ListsRight
  PROVE  IsFiniteSet(Listed) /\ Cardinality(Listed) = MaxPages * NumPlots
<1> DEFINE f == [p \in Listed |-> Slot(p)]
<1>1. /\ \A p \in Listed : Slot(p) \in Slots
      /\ \A slot \in Slots : \E p \in Listed : Slot(p) = slot
      /\ \A p, q \in Listed : Slot(p) = Slot(q) => p = q
      /\ Listed \subseteq PlotObjects
  <2>1. \A slot \in Slots : PlotAt(slot) \in Listed /\ Slot(PlotAt(slot)) = slot
    BY AtlasFacts
  <2> QED
    BY <2>1, AtlasFacts
<1>2. f \in [Listed -> Slots] /\ \A p \in Listed : f[p] = Slot(p)
  BY <1>1
<1> HIDE DEF f
<1>3. f \in Bijection(Listed, Slots)
  BY <1>1, <1>2 DEF Bijection, Injection, Surjection, IsInjective
<1>4. IsFiniteSet(Listed)
  BY <1>1, Numbers, FS_Subset
<1>5. Cardinality(Slots) = Cardinality(Listed)
  BY <1>3, <1>4, FS_Bijection DEF ExistsBijection
<1>6. /\ IsFiniteSet(Pages) /\ IsFiniteSet(Indexes)
      /\ Cardinality(Pages) = MaxPages /\ Cardinality(Indexes) = NumPlots
  BY Numbers, FS_Interval DEF Pages, Indexes
<1>7. Cardinality(Slots) = MaxPages * NumPlots
  BY <1>6, FS_Product DEF Slots
<1> QED
  BY <1>4, <1>5, <1>7

Empties(p) ==
  /\ plot'[p] \in Records /\ plot'[p].page = plot[p].page /\ plot'[p].index = plot[p].index
  /\ plot'[p].glyphs = <<>> /\ plot'[p].clean = 0
  /\ plot'[p].lastUpload = 0 /\ plot'[p].lastUse = 0
  /\ fGeneration < plot'[p].gen /\ plot'[p].gen < fGeneration'
Ages(p) ==
  /\ plot'[p] \in Records /\ SamePlace(p) /\ plot'[p].gen = plot[p].gen
  /\ plot'[p].lastUse = plot[p].lastUse /\ plot'[p].lastUpload = plot[p].lastUpload

Compacts(E, G) ==
  /\ E \subseteq Listed /\ G \subseteq Listed
  /\ plot' \in PlotMaps
  /\ \A p \in E \union G : Empties(p) /\ plot[p].page \in Active
  /\ \A p \in Listed \ (E \union G) : Ages(p)
  /\ fPlotList' \in ListMaps /\ Rearranged(fPlotList, fPlotList')
  /\ fGeneration' \in Nat /\ fGeneration <= fGeneration'
  /\ E # {} => fGeneration < fGeneration'
  /\ fAtlasGeneration' = IF E = {} THEN fAtlasGeneration ELSE fGeneration
  /\ fNumActivePages' \in 0 .. MaxPages /\ Active' \subseteq Active
  /\ \A p \in Listed : plot[p].page \in Active /\ plot[p].page \notin Active' => p \in G
  /\ texture' \in [Slots -> [1 .. Room -> Glyphs \union {None}]]
  /\ \A p \in Listed : p \notin G => texture'[Slot(p)] = texture[Slot(p)]
  /\ E = {} => \A p \in G : plot[p].lastUse = 0

LEMMA NotCompacted ==
  ASSUME AtlasInv,
         UNCHANGED <<plot, fPlotList, fNumActivePages, fGeneration, fAtlasGeneration, texture>>
  PROVE  Compacts({}, {})
<1>1. AtlasTypes /\ ListsRight
  BY DEF AtlasInv
<1>2. \A p \in Listed : Ages(p)
  BY <1>1, AtlasFacts DEF Ages, SamePlace
<1>3. Rearranged(fPlotList, fPlotList)
  BY <1>1 DEF ListsRight, ListsAre, Rearranged
<1>4. Active' = Active
  BY DEF Active
<1>5. fGeneration \in Nat /\ fGeneration <= fGeneration
  BY <1>1 DEF AtlasTypes
<1> QED
  BY <1>1, <1>2, <1>3, <1>4, <1>5 DEF Compacts, AtlasTypes

(* The list of a page that is given up is in the order of its plots again. *)
LEMMA ListAnew ==
  ASSUME AtlasTypes, ListsRight, NEW page \in Pages,
         NEW list, list = [i \in Indexes |-> PlotAt(<<page, NumPlots + 1 - i>>)]
  PROVE  list \in Seq(PlotObjects) /\ Len(list) = NumPlots /\ IsOnce(list)
         /\ ToSet(list) = ToSet(fPlotList[page])
<1>1. NumPlots \in Nat /\ Indexes = 1 .. NumPlots
  BY Numbers DEF Indexes
<1>2. \A i \in Indexes : NumPlots + 1 - i \in Indexes /\ NumPlots + 1 - (NumPlots + 1 - i) = i
  BY <1>1
<1>3. \A i \in Indexes : /\ list[i] \in Listed /\ list[i] \in PlotObjects
                         /\ Slot(list[i]) = <<page, NumPlots + 1 - i>>
  <2> SUFFICES ASSUME NEW i \in Indexes
               PROVE  /\ list[i] \in Listed /\ list[i] \in PlotObjects
                      /\ Slot(list[i]) = <<page, NumPlots + 1 - i>>
    OBVIOUS
  <2>1. <<page, NumPlots + 1 - i>> \in Slots
    BY <1>2 DEF Slots
  <2>2. list[i] = PlotAt(<<page, NumPlots + 1 - i>>)
    OBVIOUS
  <2> QED
    BY <2>1, <2>2, AtlasFacts
<1>4. list \in Seq(PlotObjects) /\ Len(list) = NumPlots /\ DOMAIN list = Indexes
  <2>1. list \in [1 .. NumPlots -> PlotObjects]
    BY <1>1, <1>3
  <2>2. list \in Seq(PlotObjects)
    BY <1>1, <2>1, SeqDef
  <2>3. DOMAIN list = 1 .. NumPlots
    BY <2>1
  <2>4. Len(list) \in Nat /\ DOMAIN list = 1 .. Len(list)
    BY <2>2, SeqSet
  <2>5. Len(list) = NumPlots
    <3> DEFINE n == Len(list)
    <3>1. n \in Nat /\ 1 .. n = 1 .. NumPlots
      BY <2>3, <2>4
    <3> HIDE DEF n
    <3>2. n = NumPlots
      BY <1>1, <3>1
    <3> QED
      BY <3>2 DEF n
  <2> QED
    BY <1>1, <2>2, <2>3, <2>5
<1>5. IsOnce(list)
  <2> SUFFICES ASSUME NEW i \in Indexes, NEW j \in Indexes, list[i] = list[j] PROVE i = j
    BY <1>4 DEF IsOnce
  <2>1. NumPlots + 1 - i = NumPlots + 1 - j
    BY <1>3
  <2> QED
    BY <1>1, <2>1
<1>6. ToSet(fPlotList[page]) = {p \in Listed : plot[p].page = page}
  BY AtlasFacts
<1>7. \A p \in ToSet(list) : p \in Listed /\ plot[p].page = page
  <2>1. \A p \in ToSet(list) : \E i \in Indexes : list[i] = p
    BY <1>4 DEF ToSet
  <2> SUFFICES ASSUME NEW p \in ToSet(list) PROVE p \in Listed /\ plot[p].page = page
    OBVIOUS
  <2>2. PICK i \in Indexes : list[i] = p
    BY <2>1
  <2>3. p \in Listed /\ Slot(p) = <<page, NumPlots + 1 - i>>
    BY <1>3, <2>2
  <2> QED
    BY <2>3 DEF Slot
<1>8. ASSUME NEW p \in Listed, plot[p].page = page PROVE p \in ToSet(list)
  <2> DEFINE i == NumPlots + 1 - plot[p].index
  <2>1. plot[p].index \in Indexes
    BY <1>8, AtlasFacts DEF Slot, Slots
  <2>2. i \in Indexes /\ NumPlots + 1 - i = plot[p].index
    BY <1>2, <2>1
  <2> HIDE DEF i
  <2>3. Slot(list[i]) = Slot(p) /\ list[i] \in Listed
    BY <1>3, <1>8, <2>2 DEF Slot
  <2>4. list[i] = p
    BY <2>3, AtlasFacts
  <2> QED
    BY <1>4, <2>2, <2>4 DEF ToSet
<1> QED
  BY <1>4, <1>5, <1>6, <1>7, <1>8

(* When nothing is evicted, the page that is given up was not in use.      *)
LEMMA GivenUpUnused ==
  ASSUME AtlasInv, fNumActivePages > 1, CompactEvicts = {}, Deactivates
  PROVE  \A p \in LastPlots : plot[p].lastUse = 0
<1>1. AgedInLastPage = {} /\ MovedOut = {}
  BY DEF CompactEvicts
<1>2. LastPage \in Pages /\ AtlasTypes /\ ListsRight
  BY Numbers DEF AtlasInv, AtlasTypes, LastPage, Pages
<1>3. \A p \in LastPlots : p \in Listed /\ plot[p].page = LastPage
  BY <1>2, AtlasFacts DEF LastPlots
<1>4. RecentInLastPage = {}
  <2> SUFFICES ASSUME RecentInLastPage # {} PROVE FALSE
    OBVIOUS
  <2>1. RecentInLastPage \subseteq LastPlots
    BY DEF RecentInLastPage
  <2>2. \A p \in LastPlots : Position(p) \in Indexes
    <3> SUFFICES ASSUME NEW p \in LastPlots PROVE Position(p) \in Indexes
      OBVIOUS
    <3>1. \E i \in Indexes : fPlotList[LastPage][i] = p
      BY <1>2, ListAt DEF LastPlots
    <3> QED
      BY <1>3, <3>1 DEF Position
  <2> DEFINE K == {Position(p) : p \in RecentInLastPage}
  <2>3. K \in SUBSET (0 .. NumPlots) /\ K # {} /\ NumPlots \in Nat
    BY <2>1, <2>2, Numbers DEF Indexes
  <2>4. PICK k \in K : \A j \in K : k <= j
    <3> HIDE DEF K
    <3> QED
      BY <2>3, FirstOf
  <2>5. PICK p \in RecentInLastPage : k = Position(p)
    BY <2>4
  <2>6. \A q \in RecentInLastPage : ~Before(q, p)
    <3> SUFFICES ASSUME NEW q \in RecentInLastPage PROVE ~Before(q, p)
      OBVIOUS
    <3>1. Position(p) <= Position(q) /\ Position(p) \in Nat /\ Position(q) \in Nat
      <4>1. Position(q) \in K
        OBVIOUS
      <4>2. k <= Position(q)
        BY <2>4, <4>1
      <4> QED
        BY <2>1, <2>2, <2>5, <4>2, Numbers DEF Indexes
    <3>2. plot[q].page = LastPage /\ plot[p].page = LastPage /\ LastPage \in Nat
      BY <1>2, <1>3, <2>1, Numbers DEF Pages
    <3> QED
      BY <3>1, <3>2 DEF Before
  <2>7. {q \in RecentInLastPage : Before(q, p)} = {}
    BY <2>6
  <2>8. Cardinality({q \in RecentInLastPage : Before(q, p)}) = 0
    BY <2>7, FS_EmptySet
  <2>9. Cardinality(RecentInLastPage) \in Nat /\ Cardinality(RecentInLastPage) # 0
    <3>1. RecentInLastPage \subseteq Listed /\ IsFiniteSet(Listed)
      BY <1>2, <1>3, <2>1, AtlasSize
    <3>2. IsFiniteSet(RecentInLastPage)
      BY <3>1, FS_Subset
    <3> QED
      BY <3>2, FS_CardinalityType, FS_EmptySet
  <2>10. 0 < Moves
    BY <2>9 DEF Deactivates
  <2>11. p \in MovedOut
    BY <2>8, <2>10 DEF MovedOut
  <2> QED
    BY <1>1, <2>11
<1> QED
  BY <1>1, <1>4 DEF AgedInLastPage, RecentInLastPage, AlreadyFlushed

(* What compact() evicts, and the page it gives up, are of active pages.   *)
LEMMA CompactIs ==
  ASSUME AtlasInv, Compact
  PROVE  \E E, G : Compacts(E, G)
<1>1. CASE fNumActivePages <= 1 \/ \A p \in ActivePlots : ~UsedThisFlush(p)
  <2>1. Compacts({}, {})
    BY <1>1, NotCompacted DEF Compact
  <2> QED
    BY <2>1
<1>2. CASE ~(fNumActivePages <= 1 \/ \A p \in ActivePlots : ~UsedThisFlush(p))
  <2> DEFINE E == CompactEvicts
             G == IF Deactivates THEN LastPlots ELSE {}
  <2>1. /\ plot' = [p \in PlotObjects |->
              IF p \in E \union G
              THEN [ResetRects(plot[p], fGeneration + p) EXCEPT
                      !.idle = IF p \in G THEN 0 ELSE Idle(p)]
              ELSE IF p \in ActivePlots THEN [plot[p] EXCEPT !.idle = Idle(p)] ELSE plot[p]]
        /\ fGeneration' = fGeneration + MaxPlots + 1
        /\ fAtlasGeneration' = IF E = {} THEN fAtlasGeneration ELSE fGeneration
        /\ Deactivates =>
              /\ fNumActivePages' = fNumActivePages - 1
              /\ fPlotList' = [fPlotList EXCEPT ![LastPage] =
                    [i \in Indexes |-> PlotAt(<<LastPage, NumPlots + 1 - i>>)]]
              /\ texture' = [slot \in Slots |->
                    IF slot[1] = LastPage THEN [i \in 1 .. Room |-> None] ELSE texture[slot]]
        /\ ~Deactivates => UNCHANGED <<fNumActivePages, fPlotList, texture>>
    BY <1>2, Zenon DEF Compact
  <2>2. /\ AtlasTypes /\ ListsRight /\ fNumActivePages \in 0 .. MaxPages /\ fNumActivePages > 1
        /\ LastPage \in Pages /\ LastPage \in Active /\ LastPage = fNumActivePages
        /\ Active \subseteq Pages /\ fGeneration \in Nat /\ MaxPlots \in Nat
    BY <1>2, Numbers DEF AtlasInv, AtlasTypes, LastPage, Pages, Active
  <2>3. /\ LastPlots = {p \in Listed : plot[p].page = LastPage}
        /\ ActivePlots = {p \in Listed : plot[p].page \in Active}
    BY <2>2, AtlasFacts DEF LastPlots, ActivePlots
  <2>4. E \subseteq ActivePlots /\ G \subseteq LastPlots /\ LastPlots \subseteq ActivePlots
    <3>1. AgedInLastPage \subseteq LastPlots /\ RecentInLastPage \subseteq LastPlots
      BY DEF AgedInLastPage, RecentInLastPage
    <3>2. MovedOut \subseteq RecentInLastPage
      BY DEF MovedOut
    <3>3. MadeRoom \subseteq ActivePlots
      BY DEF MadeRoom, Available
    <3>4. LastPlots \subseteq ActivePlots
      BY <2>2, <2>3
    <3> QED
      BY <3>1, <3>2, <3>3, <3>4 DEF CompactEvicts
  <2>5. E \subseteq Listed /\ G \subseteq Listed /\ \A p \in E \union G : plot[p].page \in Active
    BY <2>3, <2>4
  <2>6. \A p \in G : Deactivates /\ plot[p].page = LastPage
    BY <2>3, <2>4
  <2>7. Deactivates => G = {p \in Listed : plot[p].page = LastPage}
    BY <2>3
  <2>8. ~Deactivates => G = {}
    OBVIOUS
  <2>9. E = {} => \A p \in G : plot[p].lastUse = 0
    BY <2>2, <2>8, GivenUpUnused
  <2> HIDE DEF E, G
  <2>10. \A p \in Listed : p \in PlotObjects /\ plot[p] \in Records /\ plot[p] # None
    BY <2>2, AtlasFacts
  <2>11. \A p \in Listed : Idle(p) \in Nat
    <3> SUFFICES ASSUME NEW p \in Listed PROVE Idle(p) \in Nat
      OBVIOUS
    <3>1. plot[p].idle \in Nat
      BY <2>10 DEF Records
    <3> QED
      BY <3>1 DEF Idle
  <2>12. \A p \in E \union G : Empties(p)
    <3> SUFFICES ASSUME NEW p \in E \union G PROVE Empties(p)
      OBVIOUS
    <3> DEFINE gen == fGeneration + p
               reset == ResetRects(plot[p], gen)
               idle == IF p \in G THEN 0 ELSE Idle(p)
    <3>1. p \in Listed /\ p \in 1 .. MaxPlots /\ plot[p] \in Records
      BY <2>5, <2>10 DEF PlotObjects
    <3>2. gen \in Nat \ {0} /\ fGeneration < gen /\ gen < fGeneration'
      BY <2>1, <2>2, <3>1
    <3>3. idle \in Nat
      BY <2>11, <3>1
    <3>4. plot'[p] = [reset EXCEPT !.idle = idle]
      BY <2>1, <2>10, <3>1
    <3> HIDE DEF gen, idle
    <3>5. /\ reset \in Records /\ reset.page = plot[p].page /\ reset.index = plot[p].index
          /\ reset.glyphs = <<>> /\ reset.clean = 0 /\ reset.gen = gen
          /\ reset.lastUpload = 0 /\ reset.lastUse = 0
      BY <3>1, <3>2, ResetIs
    <3> HIDE DEF reset
    <3>6. plot'[p] \in Records
      BY <3>3, <3>4, <3>5, Zenon DEF Records
    <3>7. /\ plot'[p].page = reset.page /\ plot'[p].index = reset.index
          /\ plot'[p].glyphs = reset.glyphs /\ plot'[p].clean = reset.clean
          /\ plot'[p].gen = reset.gen /\ plot'[p].lastUpload = reset.lastUpload
          /\ plot'[p].lastUse = reset.lastUse
      BY <3>4, <3>5 DEF Records
    <3> QED
      BY <3>2, <3>5, <3>6, <3>7 DEF Empties
  <2>13. \A p \in Listed \ (E \union G) : Ages(p)
    <3> SUFFICES ASSUME NEW p \in Listed \ (E \union G) PROVE Ages(p)
      OBVIOUS
    <3>1. p \in PlotObjects /\ plot[p] \in Records /\ Idle(p) \in Nat
      BY <2>10, <2>11
    <3>2. CASE p \in ActivePlots
      <4> DEFINE idle == Idle(p)
      <4>1. plot'[p] = [plot[p] EXCEPT !.idle = idle]
        BY <2>1, <3>1, <3>2
      <4> HIDE DEF idle
      <4>2. plot'[p] \in Records
        BY <3>1, <4>1, Zenon DEF Records, idle
      <4> QED
        BY <3>1, <4>1, <4>2 DEF Ages, SamePlace, Records
    <3>3. CASE p \notin ActivePlots
      <4>1. plot'[p] = plot[p]
        BY <2>1, <3>1, <3>3
      <4> QED
        BY <3>1, <4>1 DEF Ages, SamePlace
    <3> QED
      BY <3>2, <3>3
  <2>14. plot' \in PlotMaps
    <3>1. \A p \in PlotObjects : plot'[p] \in Records \union {None}
      <4> SUFFICES ASSUME NEW p \in PlotObjects PROVE plot'[p] \in Records \union {None}
        OBVIOUS
      <4>1. CASE p \in Listed
        BY <2>12, <2>13, <4>1 DEF Empties, Ages
      <4>2. CASE p \notin Listed
        <5>1. p \notin E \union G /\ p \notin ActivePlots
          BY <2>3, <2>5, <4>2
        <5>2. plot'[p] = plot[p]
          BY <2>1, <5>1
        <5> QED
          BY <2>2, <5>2 DEF AtlasTypes, PlotMaps
      <4> QED
        BY <4>1, <4>2
    <3>2. plot' = [p \in PlotObjects |-> plot'[p]]
      BY <2>1
    <3> QED
      BY <3>1, <3>2 DEF PlotMaps
  <2> DEFINE list == [i \in Indexes |-> PlotAt(<<LastPage, NumPlots + 1 - i>>)]
  <2>15. fPlotList' \in ListMaps /\ Rearranged(fPlotList, fPlotList')
    <3>1. fPlotList \in ListMaps /\ Rearranged(fPlotList, fPlotList)
      BY <2>2 DEF AtlasTypes, ListsRight, ListsAre, Rearranged
    <3>2. CASE Deactivates
      <4>1. /\ list \in Seq(PlotObjects) /\ Len(list) = NumPlots /\ IsOnce(list)
            /\ ToSet(list) = ToSet(fPlotList[LastPage])
        BY <2>2, ListAnew
      <4>2. fPlotList' = [fPlotList EXCEPT ![LastPage] = list]
        BY <2>1, <3>2
      <4> HIDE DEF list
      <4>3. fPlotList' \in ListMaps
        BY <2>2, <3>1, <4>1, <4>2 DEF ListMaps
      <4>4. \A page \in Pages : fPlotList'[page] = IF page = LastPage THEN list ELSE fPlotList[page]
        BY <2>2, <3>1, <4>2 DEF ListMaps
      <4>5. Len(fPlotList[LastPage]) = NumPlots
        BY <2>2 DEF ListsRight, ListsAre
      <4>6. ASSUME NEW page \in Pages
            PROVE  /\ Len(fPlotList'[page]) = Len(fPlotList[page]) /\ IsOnce(fPlotList'[page])
                   /\ ToSet(fPlotList'[page]) = ToSet(fPlotList[page])
        <5>1. CASE page = LastPage
          BY <4>1, <4>4, <4>5, <5>1
        <5>2. CASE page # LastPage
          BY <3>1, <4>4, <5>2 DEF Rearranged
        <5> QED
          BY <5>1, <5>2
      <4> QED
        BY <4>3, <4>6 DEF Rearranged
    <3>3. CASE ~Deactivates
      BY <2>1, <3>1, <3>3
    <3> QED
      BY <3>2, <3>3
  <2>16. /\ fGeneration' \in Nat /\ fGeneration < fGeneration'
         /\ fAtlasGeneration' = IF E = {} THEN fAtlasGeneration ELSE fGeneration
    BY <2>1, <2>2
  <2>17. /\ fNumActivePages' \in 0 .. MaxPages /\ Active' \subseteq Active
         /\ \A p \in Listed : plot[p].page \in Active /\ plot[p].page \notin Active' => p \in G
    <3>1. CASE Deactivates
      <4>1. fNumActivePages' = fNumActivePages - 1
        BY <2>1, <3>1
      <4>2. fNumActivePages' \in 0 .. MaxPages
        BY <2>2, <4>1, Numbers
      <4>3. Active' = Active \ {LastPage}
        BY <2>2, <4>1 DEF Active
      <4> QED
        BY <2>7, <3>1, <4>2, <4>3
    <3>2. CASE ~Deactivates
      BY <2>1, <2>2, <3>2 DEF Active
    <3> QED
      BY <3>1, <3>2
  <2>18. /\ texture' \in [Slots -> [1 .. Room -> Glyphs \union {None}]]
         /\ \A p \in Listed : p \notin G => texture'[Slot(p)] = texture[Slot(p)]
    <3>1. texture \in [Slots -> [1 .. Room -> Glyphs \union {None}]]
      BY <2>2 DEF AtlasTypes
    <3>2. CASE Deactivates
      <4>1. texture' = [slot \in Slots |->
               IF slot[1] = LastPage THEN [i \in 1 .. Room |-> None] ELSE texture[slot]]
        BY <2>1, <3>2
      <4>2. texture' \in [Slots -> [1 .. Room -> Glyphs \union {None}]]
        BY <3>1, <4>1
      <4>3. ASSUME NEW p \in Listed, p \notin G PROVE texture'[Slot(p)] = texture[Slot(p)]
        <5>1. Slot(p) \in Slots
          BY <2>2, AtlasFacts
        <5>2. Slot(p)[1] # LastPage
          BY <2>7, <3>2, <4>3 DEF Slot
        <5> QED
          BY <4>1, <5>1, <5>2
      <4> QED
        BY <4>2, <4>3
    <3>3. CASE ~Deactivates
      BY <2>1, <3>1, <3>3
    <3> QED
      BY <3>2, <3>3
  <2>19. Compacts(E, G)
    <3>1. E \subseteq Listed /\ G \subseteq Listed
      BY <2>5
    <3>2. \A p \in E \union G : Empties(p) /\ plot[p].page \in Active
      BY <2>5, <2>12
    <3>3. fGeneration <= fGeneration'
      BY <2>2, <2>16
    <3> QED
      BY <3>1, <3>2, <3>3, <2>9, <2>13, <2>14, <2>15, <2>16, <2>17, <2>18, Zenon
      DEF Compacts
  <2> QED
    BY <2>19
<1> QED
  BY <1>1, <1>2

LEMMA CompactedPlots ==
  ASSUME AtlasInv, Executed, Reset, NEW E, NEW G, Compacts(E, G), UNCHANGED tokenVars
  PROVE  /\ ListsRight' /\ Listed' = Listed /\ \A p \in Listed : Slot(p)' = Slot(p)
         /\ Uploads' = {} /\ Pending' = {} /\ Live' = Listed
         /\ NextDrawToken' = NextDrawToken /\ NextTokenToFlush' = NextTokenToFlush
         /\ fGeneration \in Nat /\ fGeneration' \in Nat /\ fGeneration <= fGeneration'
         /\ \A p \in Listed : Slot(p) \in Slots /\ plot[p] \in Records /\ plot[p].gen < fGeneration
         /\ \A p \in Listed : plot[p].gen \in lapsed' \/ plot[p].clean = Len(plot[p].glyphs)
<1>1. AtlasTypes /\ ListsRight /\ fPlotList \in ListMaps /\ fPlotList' \in ListMaps
  BY DEF AtlasInv, AtlasTypes, Compacts
<1>2. \A p \in Listed : Slot(p) \in Slots /\ plot[p] \in Records
  BY <1>1, AtlasFacts
<1>3. Listed = ListedIn(fPlotList) /\ Listed' = ListedIn(fPlotList')
  BY DEF Listed, ListedIn
<1>4. \A p : Slot(p) = SlotIn(plot, p) /\ Slot(p)' = SlotIn(plot', p)
  BY DEF Slot, SlotIn
<1>5. InPlace(fPlotList, plot, plot')
  <2> SUFFICES ASSUME NEW p \in Listed
               PROVE  plot'[p] # None /\ plot'[p].page = plot[p].page /\ plot'[p].index = plot[p].index
    BY <1>3 DEF InPlace
  <2>1. Empties(p) \/ Ages(p)
    BY DEF Compacts
  <2> QED
    BY <2>1, Numbers DEF Empties, Ages, SamePlace
<1>6. /\ ListsAre(plot', fPlotList') /\ ListedIn(fPlotList') = ListedIn(fPlotList)
      /\ \A p \in ListedIn(fPlotList) : SlotIn(plot', p) = SlotIn(plot, p)
  <2>1. Rearranged(fPlotList, fPlotList') /\ plot \in PlotMaps /\ ListsAre(plot, fPlotList)
    BY <1>1 DEF Compacts, AtlasTypes, ListsRight
  <2> QED
    BY <1>1, <1>5, <2>1, Relisted
<1>7. ListsRight' /\ Listed' = Listed /\ \A p \in Listed : Slot(p)' = Slot(p)
  BY <1>3, <1>4, <1>6 DEF ListsRight
<1>8. /\ Uploads' = {} /\ Pending' = {}
      /\ \A gen \in lapsed : gen \in lapsed'
      /\ \A p \in Listed : p \in Pending => plot[p].gen \in lapsed'
  BY ResetFacts
<1>9. Uploads' = {} /\ Pending' = {} /\ Live' = Listed
  BY <1>7, <1>8 DEF Live
<1>10. NextDrawToken' = NextDrawToken /\ NextTokenToFlush' = NextTokenToFlush
  BY DEF tokenVars, NextDrawToken, NextTokenToFlush
<1>11. fGeneration \in Nat /\ fGeneration' \in Nat /\ fGeneration <= fGeneration'
  BY <1>1 DEF AtlasTypes, Compacts
<1>12. \A p \in Listed : plot[p].gen < fGeneration
  BY DEF AtlasInv, RecordsRight, Live
<1>13. \A p \in Listed : plot[p].gen \in lapsed' \/ plot[p].clean = Len(plot[p].glyphs)
  BY <1>8 DEF AtlasInv, TextureRight
<1> QED
  BY <1>2, <1>7, <1>9, <1>10, <1>11, <1>12, <1>13

LEMMA CompactedRecords ==
  ASSUME AtlasInv, Executed, Reset, NEW E, NEW G, Compacts(E, G), UNCHANGED <<tokenVars, locator>>
  PROVE  RecordsRight' /\ LocatorsRight' /\ TextureRight'
<1>1. /\ Listed' = Listed /\ \A p \in Listed : Slot(p)' = Slot(p)
      /\ Uploads' = {} /\ Pending' = {} /\ Live' = Listed
      /\ NextDrawToken' = NextDrawToken
      /\ fGeneration \in Nat /\ fGeneration' \in Nat /\ fGeneration <= fGeneration'
      /\ \A p \in Listed : Slot(p) \in Slots /\ plot[p] \in Records /\ plot[p].gen < fGeneration
      /\ \A p \in Listed : plot[p].gen \in lapsed' \/ plot[p].clean = Len(plot[p].glyphs)
  BY CompactedPlots
<1>2. \A p \in Listed : \/ p \in E \union G /\ Empties(p)
                        \/ p \notin E \union G /\ Ages(p)
  BY DEF Compacts
<1>3. Listed \subseteq Live /\ NextDrawToken \in Nat
  BY DEF Live, NextDrawToken, AtlasInv, TokenTypes
<1>4. \A p \in Listed : plot'[p].gen \in Nat /\ plot[p].gen \in Nat /\ plot'[p] \in Records
  BY <1>1, <1>2 DEF Empties, Ages, Records
<1>5. RecordsRight'
  <2>1. ASSUME NEW p \in Listed
        PROVE  /\ plot'[p] # None
               /\ Len(plot'[p].glyphs) <= Room /\ plot'[p].clean <= Len(plot'[p].glyphs)
               /\ plot'[p].gen < fGeneration'
               /\ plot'[p].lastUse <= NextDrawToken /\ plot'[p].lastUpload <= NextDrawToken
               /\ plot'[p].glyphs # <<>> => plot'[p].lastUse # 0
    <3>1. plot'[p] # None
      BY <1>4, Numbers
    <3>2. CASE Empties(p)
      <4>1. plot'[p].glyphs = <<>> /\ Len(plot'[p].glyphs) = 0
        BY <3>2 DEF Empties
      <4>2. /\ plot'[p].clean = 0 /\ plot'[p].gen < fGeneration'
            /\ plot'[p].lastUse = 0 /\ plot'[p].lastUpload = 0
        BY <3>2 DEF Empties
      <4> QED
        BY <1>3, <3>1, <4>1, <4>2, Numbers
    <3>3. CASE Ages(p)
      <4>1. /\ Len(plot[p].glyphs) <= Room /\ plot[p].clean <= Len(plot[p].glyphs)
            /\ plot[p].gen < fGeneration
            /\ plot[p].lastUse <= NextDrawToken /\ plot[p].lastUpload <= NextDrawToken
            /\ plot[p].glyphs # <<>> => plot[p].lastUse # 0
        BY <1>3 DEF AtlasInv, RecordsRight
      <4>2. plot[p].gen < fGeneration'
        BY <1>1, <1>4, <4>1
      <4> QED
        BY <3>1, <3>3, <4>1, <4>2 DEF Ages, SamePlace
    <3> QED
      BY <1>2, <3>2, <3>3
  <2> QED
    BY <1>1, <2>1 DEF RecordsRight
<1>6. LocatorsRight'
  <2> SUFFICES ASSUME NEW g \in Glyphs, locator'[g] # None
               PROVE  /\ locator'[g].gen < fGeneration'
                      /\ \A p \in Listed' : Located(locator[g], p)' => Holds(p, locator[g].at, g)'
    BY DEF LocatorsRight
  <2> DEFINE loc == locator[g]
  <2>1. locator'[g] = loc /\ loc # None /\ loc \in Locators
    BY DEF AtlasInv, AtlasTypes
  <2>2. loc.gen < fGeneration /\ \A p \in Listed : Located(loc, p) => Holds(p, loc.at, g)
    BY <2>1 DEF AtlasInv, LocatorsRight
  <2> HIDE DEF loc
  <2>3. loc.gen \in Nat
    BY <2>1 DEF Locators
  <2>4. ASSUME NEW p \in Listed, Slot(p)' = SlotOf(loc), plot'[p].gen = loc.gen
        PROVE  loc.at \in 1 .. Len(plot'[p].glyphs) /\ plot'[p].glyphs[loc.at] = g
    <3>1. ~Empties(p)
      <4>1. ~(fGeneration < plot'[p].gen)
        BY <1>1, <2>2, <2>3, <2>4
      <4> QED
        BY <4>1 DEF Empties
    <3>2. Ages(p)
      BY <1>2, <3>1
    <3>3. Located(loc, p)
      BY <1>1, <2>4, <3>2 DEF Located, Ages
    <3>4. Holds(p, loc.at, g)
      BY <2>2, <3>3
    <3> QED
      BY <3>2, <3>4 DEF Holds, Ages, SamePlace
  <2>5. loc.gen < fGeneration'
    BY <1>1, <2>2, <2>3
  <2> QED
    BY <1>1, <2>1, <2>4, <2>5 DEF Located, Holds
<1>7. TextureRight'
  <2>1. ASSUME NEW p \in Listed
        PROVE  /\ \A i \in 1 .. plot'[p].clean : texture'[Slot(p)][i] = plot'[p].glyphs[i]
               /\ plot'[p].gen \in lapsed' \/ plot'[p].clean = Len(plot'[p].glyphs)
    <3>1. CASE Empties(p)
      <4>1. plot'[p].glyphs = <<>> /\ Len(plot'[p].glyphs) = 0 /\ plot'[p].clean = 0
        BY <3>1 DEF Empties
      <4>2. 1 .. plot'[p].clean = {}
        BY <4>1
      <4> QED
        BY <4>1, <4>2
    <3>2. CASE p \notin E \union G /\ Ages(p)
      <4>1. texture'[Slot(p)] = texture[Slot(p)]
        BY <3>2 DEF Compacts
      <4>2. \A i \in 1 .. plot[p].clean : texture[Slot(p)][i] = plot[p].glyphs[i]
        BY DEF AtlasInv, TextureRight
      <4> QED
        BY <1>1, <3>2, <4>1, <4>2 DEF Ages, SamePlace
    <3> QED
      BY <1>2, <3>1, <3>2
  <2> QED
    BY <1>1, <2>1 DEF TextureRight
<1> QED
  BY <1>5, <1>6, <1>7

LEMMA CompactedGenerations ==
  ASSUME AtlasInv, Executed, Reset, NEW E, NEW G, Compacts(E, G),
         UNCHANGED <<tokenVars, locator, blobVars>>
  PROVE  GenerationsRight'
<1>1. /\ Listed' = Listed /\ \A p \in Listed : Slot(p)' = Slot(p)
      /\ fGeneration \in Nat /\ fGeneration' \in Nat /\ fGeneration <= fGeneration'
      /\ \A p \in Listed : Slot(p) \in Slots /\ plot[p] \in Records /\ plot[p].gen < fGeneration
  BY CompactedPlots
<1>2. GenerationsRight /\ LocatorsRight /\ RecordsRight /\ OpTypes /\ fAtlasGeneration \in Nat
  BY DEF AtlasInv, AtlasTypes
<1>3. fAtlasGeneration' < fGeneration'
  BY <1>1, <1>2 DEF Compacts, GenerationsRight
<1>4. \A s \in SubRuns : subRunGeneration[s] \in Nat /\ subRunGeneration[s] < fGeneration
  BY <1>2 DEF OpTypes, GenerationsRight
<1>5. \A s \in SubRuns : subRunGeneration'[s] < fGeneration'
  BY <1>1, <1>4 DEF blobVars
<1>6. ASSUME NEW s \in SubRuns \ broken, subRunGeneration[s] = fAtlasGeneration',
             NEW i \in 1 .. Len(GlyphsOf[s])
      PROVE  /\ texCoords[s][i] = locator'[GlyphsOf[s][i]]
             /\ \A loc : loc = texCoords[s][i] =>
                  /\ loc # None /\ loc.page \in Active'
                  /\ \E p \in Listed : Slot(p)' = SlotOf(loc) /\ plot'[p].gen = loc.gen
             /\ SlotOf(texCoords[s][i]) \in ToSet(fBulkUseToken[s])
  <2>1. E = {}
    BY <1>1, <1>4, <1>6 DEF Compacts
  <2>2. GlyphsOf[s][i] \in Glyphs
    BY <1>6, MostGlyphs
  <2>3. fAtlasGeneration' = fAtlasGeneration /\ locator' = locator
    BY <2>1 DEF Compacts
  <2>4. /\ texCoords[s][i] = locator[GlyphsOf[s][i]] /\ Good(texCoords[s][i])
        /\ SlotOf(texCoords[s][i]) \in ToSet(fBulkUseToken[s])
    BY <1>2, <1>6, <2>3 DEF GenerationsRight
  <2> DEFINE loc == texCoords[s][i]
  <2>5. loc # None /\ loc.page \in Active
    BY <2>4 DEF Good
  <2>6. PICK p \in Listed : Located(loc, p)
    BY <2>4 DEF Good
  <2>7. Holds(p, loc.at, GlyphsOf[s][i])
    BY <1>2, <2>2, <2>4, <2>5, <2>6 DEF LocatorsRight
  <2> HIDE DEF loc
  <2>8. p \notin G
    <3>1. plot[p].glyphs # <<>>
      <4>1. 1 .. Len(plot[p].glyphs) # {}
        BY <2>7 DEF Holds
      <4> QED
        BY <4>1
    <3>2. plot[p].lastUse # 0
      BY <1>2, <3>1 DEF RecordsRight
    <3> QED
      BY <2>1, <3>2 DEF Compacts
  <2>9. Ages(p)
    BY <2>1, <2>8 DEF Compacts
  <2>10. plot[p].page = loc.page
    BY <2>6 DEF Located, Slot, SlotOf
  <2>11. loc.page \in Active'
    BY <2>5, <2>8, <2>10 DEF Compacts
  <2>12. Slot(p)' = SlotOf(loc) /\ plot'[p].gen = loc.gen
    BY <1>1, <2>6, <2>9 DEF Located, Ages
  <2>13. \A l : l = loc => /\ l # None /\ l.page \in Active'
                           /\ \E q \in Listed : Slot(q)' = SlotOf(l) /\ plot'[q].gen = l.gen
    BY <2>5, <2>11, <2>12
  <2> QED
    BY <2>3, <2>4, <2>13 DEF loc
<1>7. ASSUME NEW s \in SubRuns \ broken, subRunGeneration[s] = fAtlasGeneration',
             NEW i \in 1 .. Len(GlyphsOf[s])
      PROVE  Good(texCoords[s][i])'
  <2> DEFINE l == texCoords[s][i]
  <2>1. PICK loc : loc = l
    OBVIOUS
  <2>2. /\ loc # None /\ loc.page \in Active'
        /\ \E p \in Listed : Slot(p)' = SlotOf(loc) /\ plot'[p].gen = loc.gen
    BY <1>6, <1>7, <2>1
  <2>3. Good(loc)'
    BY <1>1, <2>2 DEF Good, Located
  <2>4. texCoords'[s][i] = loc
    BY <2>1 DEF blobVars
  <2> QED
    BY <2>3, <2>4
<1>8. UNCHANGED <<subRunGeneration, fBulkUseToken, texCoords, broken>>
  BY DEF blobVars
<1>9. \A s \in SubRuns : \A i, j \in 1 .. Len(fBulkUseToken[s]) :
        fBulkUseToken[s][i] = fBulkUseToken[s][j] => i = j
  BY <1>2 DEF GenerationsRight
<1> QED
  BY <1>3, <1>5, <1>6, <1>7, <1>8, <1>9 DEF GenerationsRight

(* What is left between flushes is in the texture or has lapsed, and       *)
(* nothing is pending.                                                     *)
LEMMA PostFlushKeeps ==
  ASSUME AtlasInv, PostFlush
  PROVE  AtlasInv'
<1>1. Executed /\ Reset /\ pc = "execute" /\ pc' = "idle" /\ fDraws = <<>>
  BY DEF PostFlush, Executed
<1>2. /\ UNCHANGED <<tokenVars, locator, blobVars>>
      /\ UNCHANGED <<fDraws, current, begin, placed, quads>>
      /\ fPrevFlushToken' = NextTokenToFlush
      /\ left' = [left EXCEPT !.subRuns = MaxSubRuns, !.flushes = @ - 1] /\ left.flushes > 0
  BY DEF PostFlush
<1>3. PICK E, G : Compacts(E, G)
  BY CompactIs DEF PostFlush
<1>4. /\ ListsRight' /\ Listed' = Listed /\ Uploads' = {} /\ Pending' = {} /\ Live' = Listed
      /\ NextDrawToken' = NextDrawToken /\ NextTokenToFlush' = NextTokenToFlush
      /\ \A p \in Listed : plot[p] \in Records
  BY <1>1, <1>2, <1>3, CompactedPlots
<1>5. RecordsRight' /\ LocatorsRight' /\ TextureRight'
  BY <1>1, <1>2, <1>3, CompactedRecords
<1>6. GenerationsRight'
  BY <1>1, <1>2, <1>3, CompactedGenerations
<1>7. AtlasTypes'
  <2>1. fGeneration \in Nat /\ fAtlasGeneration \in Nat
    BY DEF AtlasInv, AtlasTypes
  <2>2. fAtlasGeneration' \in Nat
    BY <1>3, <2>1 DEF Compacts
  <2>3. locator' \in [Glyphs -> Locators \union {None}]
    BY <1>2 DEF AtlasInv, AtlasTypes
  <2> QED
    BY <1>3, <2>2, <2>3, Zenon DEF Compacts, AtlasTypes
<1>8. TokenTypes'
  <2>1. fASAPUploads' \in Seq(PlotObjects) /\ fInlineUploads' \in Seq(UploadRecords)
    BY <1>1, ResetFacts
  <2> QED
    BY <1>2, <2>1 DEF AtlasInv, TokenTypes, tokenVars, NextTokenToFlush
<1>9. OpTypes' /\ left'.subRuns = MaxSubRuns
  <2>1. /\ left \in [subRuns : 0 .. MaxSubRuns, flushes : Nat, bails : Nat]
        /\ MaxSubRuns \in 0 .. MaxSubRuns /\ left.flushes - 1 \in Nat
    BY <1>2, Numbers DEF AtlasInv, OpTypes
  <2>2. /\ left' \in [subRuns : 0 .. MaxSubRuns, flushes : Nat, bails : Nat]
        /\ left'.subRuns = MaxSubRuns
    BY <1>2, <2>1
  <2> QED
    BY <1>1, <1>2, <2>2 DEF AtlasInv, OpTypes, blobVars
<1>10. PlacingRight' /\ QuadsRight' /\ DrawsRight'
  <2>1. quads' = {}
    BY <1>1, <1>2 DEF AtlasInv, QuadsRight
  <2>2. Len(fDraws') = 0
    BY <1>1, <1>2
  <2> QED
    BY <1>1, <2>1, <2>2 DEF PlacingRight, QuadsRight, DrawsRight
<1>11. UploadsRight'
  <2>1. fASAPUploads' = <<>> /\ fInlineUploads' = <<>>
    BY <1>1, ResetFacts
  <2>2. Len(fASAPUploads') = 0 /\ Len(fInlineUploads') = 0
    BY <2>1
  <2> QED
    BY <1>4, <2>2 DEF UploadsRight
<1>12. \A p \in Listed :
         /\ NextTokenToFlush <= plot'[p].lastUpload => plot'[p].gen \in lapsed'
         /\ gaveUp # NextDrawToken => plot'[p].lastUpload <= fLastIssuedToken
  <2> SUFFICES ASSUME NEW p \in Listed
               PROVE  /\ NextTokenToFlush <= plot'[p].lastUpload => plot'[p].gen \in lapsed'
                      /\ gaveUp # NextDrawToken => plot'[p].lastUpload <= fLastIssuedToken
    OBVIOUS
  <2>1. /\ fLastIssuedToken \in Nat /\ fLastFlushedToken \in Nat /\ ~DrawComes
        /\ NextTokenToFlush <= plot[p].lastUpload => plot[p].gen \in lapsed'
    BY <1>1, ResetFacts DEF AtlasInv, TokenTypes
  <2>2. CASE Empties(p)
    BY <2>1, <2>2 DEF Empties, NextTokenToFlush
  <2>3. CASE Ages(p)
    <3>1. gaveUp # NextDrawToken => plot[p].lastUpload <= fLastIssuedToken
      BY <2>1 DEF AtlasInv, TokensRight
    <3> QED
      BY <2>1, <2>3, <3>1 DEF Ages
  <2> QED
    BY <1>3, <2>2, <2>3 DEF Compacts
<1>13. ScheduleRight' /\ TokensRight'
  <2>1. fLastIssuedToken' = fLastIssuedToken /\ gaveUp' = gaveUp
    BY <1>1, <1>2, ResetFacts DEF tokenVars
  <2> QED
    BY <1>4, <1>12, <2>1 DEF ScheduleRight, TokensRight
<1>14. PlotsLast'
  <2>1. Missing' = 0
    BY <1>1 DEF Missing
  <2>2. Cardinality(Live') = MaxPages * NumPlots
    BY <1>4, AtlasSize DEF AtlasInv
  <2>3. (MaxSubRuns - left'.subRuns) * MaxGlyphs = 0
    <3>1. MaxSubRuns - left'.subRuns = 0
      BY <1>9, Numbers
    <3>2. 0 * MaxGlyphs = 0
      BY Numbers
    <3> QED
      BY <3>1, <3>2
  <2>4. MaxPages * NumPlots \in Nat
    BY Numbers
  <2> QED
    BY <2>1, <2>2, <2>3, <2>4 DEF PlotsLast
<1> QED
  BY <1>4, <1>5, <1>6, <1>7, <1>8, <1>9, <1>10, <1>11, <1>13, <1>14 DEF AtlasInv
-----------------------------------------------------------------------------
(* The atlas to begin with: the plots are numbered page by page.           *)
FirstPlots == 1 .. MaxPages * NumPlots
PageOf(p) == ((p - 1) \div NumPlots) + 1
IndexOf(p) == ((p - 1) % NumPlots) + 1

LEMMA FirstPlaces ==
  /\ \A p \in FirstPlots : /\ PageOf(p) \in Pages /\ IndexOf(p) \in Indexes
                           /\ p = (PageOf(p) * NumPlots) + 1 - (NumPlots + 1 - IndexOf(p))
  /\ \A page \in Pages, i \in Indexes :
       LET p == (page * NumPlots) + 1 - i
       IN p \in FirstPlots /\ PageOf(p) = page /\ IndexOf(p) = NumPlots + 1 - i
  /\ FirstPlots \subseteq PlotObjects
<1>1. /\ NumPlots \in Nat \ {0} /\ MaxPages \in Nat \ {0} /\ MaxPages * NumPlots \in Nat
      /\ MaxPages * NumPlots <= MaxPlots /\ MaxPlots \in Nat
  <2>1. ASSUME NEW mn \in Nat, NEW k \in Nat PROVE mn <= mn + k
    OBVIOUS
  <2>2. MaxSubRuns * MaxGlyphs \in Nat
    BY Numbers
  <2> QED
    BY <2>1, <2>2, Numbers DEF MaxPlots
<1>2. ASSUME NEW p \in FirstPlots
      PROVE  /\ PageOf(p) \in Pages /\ IndexOf(p) \in Indexes
             /\ p = (PageOf(p) * NumPlots) + 1 - (NumPlots + 1 - IndexOf(p))
  <2> DEFINE x == p - 1
             q == x \div NumPlots
             r == x % NumPlots
  <2>1. x \in Nat /\ x < MaxPages * NumPlots /\ p = x + 1
    BY <1>1 DEF FirstPlots
  <2>2. q \in Nat /\ r \in 0 .. NumPlots - 1 /\ x = q * NumPlots + r /\ q < MaxPages
    <3> HIDE DEF x
    <3> QED
      BY <1>1, <2>1, RowAndColumn DEF q, r
  <2>3. PageOf(p) = q + 1 /\ IndexOf(p) = r + 1
    BY DEF PageOf, IndexOf
  <2> HIDE DEF x, q, r
  <2>4. (q + 1) * NumPlots = q * NumPlots + NumPlots /\ q * NumPlots \in Nat
    BY <1>1, <2>2
  <2>5. ASSUME NEW qn \in Nat, x = qn + r
        PROVE  p = qn + NumPlots + 1 - (NumPlots + 1 - (r + 1))
    BY <1>1, <2>1, <2>2, <2>5
  <2>6. p = (PageOf(p) * NumPlots) + 1 - (NumPlots + 1 - IndexOf(p))
    BY <2>2, <2>3, <2>4, <2>5
  <2> QED
    BY <1>1, <2>2, <2>3, <2>6 DEF Pages, Indexes
<1>3. ASSUME NEW page \in Pages, NEW i \in Indexes,
             NEW p, p = (page * NumPlots) + 1 - i
      PROVE  p \in FirstPlots /\ PageOf(p) = page /\ IndexOf(p) = NumPlots + 1 - i
  <2> DEFINE q == page - 1
             r == NumPlots - i
  <2>1. q \in Nat /\ q < MaxPages /\ r \in 0 .. NumPlots - 1 /\ page = q + 1
        /\ i \in 1 .. NumPlots /\ r = NumPlots - i
    BY <1>1 DEF Pages, Indexes
  <2> HIDE DEF q, r
  <2>2. page * NumPlots = q * NumPlots + NumPlots /\ q * NumPlots \in Nat
    BY <1>1, <2>1
  <2>3. p \in Int /\ p - 1 = q * NumPlots + r
    <3>1. ASSUME NEW qn \in Nat, p = qn + NumPlots + 1 - i PROVE p \in Int /\ p - 1 = qn + r
      BY <1>1, <2>1, <3>1
    <3> QED
      BY <1>3, <2>2, <3>1
  <2>4. /\ (p - 1) \div NumPlots = q /\ (p - 1) % NumPlots = r
        /\ q * NumPlots + r < MaxPages * NumPlots
    <3>1. /\ (q * NumPlots + r) \div NumPlots = q /\ (q * NumPlots + r) % NumPlots = r
          /\ \A m \in Nat : q < m => q * NumPlots + r < m * NumPlots
      BY <1>1, <2>1, InRow
    <3>2. q * NumPlots + r < MaxPages * NumPlots
      BY <1>1, <2>1, <3>1
    <3> QED
      BY <2>3, <3>1, <3>2
  <2>5. p \in FirstPlots
    <3>1. ASSUME NEW qn \in Nat, p - 1 = qn + r, qn + r < MaxPages * NumPlots
          PROVE  p \in 1 .. MaxPages * NumPlots
      BY <1>1, <2>1, <2>3, <3>1
    <3> QED
      BY <2>2, <2>3, <2>4, <3>1 DEF FirstPlots
  <2>6. PageOf(p) = q + 1 /\ IndexOf(p) = r + 1
    BY <2>4 DEF PageOf, IndexOf
  <2> QED
    BY <1>1, <2>1, <2>5, <2>6
<1>4. FirstPlots \subseteq PlotObjects
  BY <1>1 DEF FirstPlots, PlotObjects
<1> QED
  BY <1>2, <1>3, <1>4

LEMMA FirstLists ==
  ASSUME Init
  PROVE  /\ plot \in PlotMaps /\ fPlotList \in ListMaps /\ ListsRight /\ Listed = FirstPlots
         /\ \A p \in FirstPlots : plot[p] = Plot(PageOf(p), IndexOf(p), p + 1) /\ plot[p] \in Records
<1>1. /\ plot = [p \in PlotObjects |->
           IF p > MaxPages * NumPlots THEN None
           ELSE Plot(((p - 1) \div NumPlots) + 1, ((p - 1) % NumPlots) + 1, p + 1)]
      /\ fPlotList = [page \in Pages |-> [i \in Indexes |-> (page * NumPlots) + 1 - i]]
  BY DEF Init
<1>2. /\ NumPlots \in Nat \ {0} /\ MaxPages * NumPlots \in Nat /\ Indexes = 1 .. NumPlots
      /\ MaxPlots \in Nat /\ FirstPlots \subseteq PlotObjects
  BY Numbers, FirstPlaces DEF Indexes
<1>3. ASSUME NEW p \in FirstPlots
      PROVE  plot[p] = Plot(PageOf(p), IndexOf(p), p + 1) /\ plot[p] \in Records
  <2>1. ~(p > MaxPages * NumPlots) /\ p \in PlotObjects /\ p + 1 \in Nat \ {0}
    BY <1>2 DEF FirstPlots
  <2>2. plot[p] = Plot(PageOf(p), IndexOf(p), p + 1)
    BY <1>1, <2>1 DEF PageOf, IndexOf
  <2>3. <<>> \in Seq(Glyphs) /\ PageOf(p) \in Pages /\ IndexOf(p) \in Indexes
    BY FirstPlaces
  <2> QED
    BY <2>1, <2>2, <2>3 DEF Plot, AlreadyFlushed, Records
<1>4. plot \in PlotMaps
  <2>1. ASSUME NEW p \in PlotObjects PROVE plot[p] \in Records \union {None}
    <3>1. CASE p > MaxPages * NumPlots
      BY <1>1, <3>1
    <3>2. CASE ~(p > MaxPages * NumPlots)
      <4>1. p \in FirstPlots
        BY <1>2, <3>2 DEF PlotObjects, FirstPlots
      <4> QED
        BY <1>3, <4>1
    <3> QED
      BY <3>1, <3>2
  <2>2. plot = [p \in PlotObjects |-> plot[p]]
    BY <1>1
  <2> QED
    BY <2>1, <2>2 DEF PlotMaps
<1>5. \A page \in Pages : DOMAIN fPlotList[page] = Indexes
  BY <1>1
<1>6. \A page \in Pages : \A i \in Indexes :
        /\ fPlotList[page][i] \in FirstPlots /\ PageOf(fPlotList[page][i]) = page
        /\ IndexOf(fPlotList[page][i]) = NumPlots + 1 - i
  BY <1>1, FirstPlaces
<1>7. \A page \in Pages : fPlotList[page] \in Seq(PlotObjects) /\ Len(fPlotList[page]) = NumPlots
  <2> SUFFICES ASSUME NEW page \in Pages
               PROVE  fPlotList[page] \in Seq(PlotObjects) /\ Len(fPlotList[page]) = NumPlots
    OBVIOUS
  <2> DEFINE list == fPlotList[page]
  <2>1. list \in [1 .. NumPlots -> PlotObjects]
    BY <1>1, <1>2, <1>6
  <2> HIDE DEF list
  <2>2. list \in Seq(PlotObjects)
    BY <1>2, <2>1, SeqDef
  <2>3. DOMAIN list = 1 .. NumPlots
    BY <2>1
  <2>4. Len(list) \in Nat /\ DOMAIN list = 1 .. Len(list)
    BY <2>2, SeqSet
  <2>5. Len(list) = NumPlots
    <3> DEFINE n == Len(list)
    <3>1. n \in Nat /\ 1 .. n = 1 .. NumPlots
      BY <2>3, <2>4
    <3> HIDE DEF n
    <3>2. n = NumPlots
      BY <1>2, <3>1
    <3> QED
      BY <3>2 DEF n
  <2> QED
    BY <2>2, <2>5 DEF list
<1>8. fPlotList \in ListMaps
  <2>1. fPlotList = [page \in Pages |-> fPlotList[page]]
    BY <1>1
  <2> QED
    BY <1>7, <2>1 DEF ListMaps
<1>9. ASSUME NEW page \in Pages PROVE IsOnce(fPlotList[page])
  <2> SUFFICES ASSUME NEW i \in Indexes, NEW j \in Indexes, fPlotList[page][i] = fPlotList[page][j]
               PROVE  i = j
    BY <1>5 DEF IsOnce
  <2>1. NumPlots + 1 - i = NumPlots + 1 - j
    BY <1>6
  <2> QED
    BY <1>2, <2>1
<1>10. ASSUME NEW page \in Pages
       PROVE  ToSet(fPlotList[page]) = {p \in FirstPlots : PageOf(p) = page}
  <2>1. ASSUME NEW p \in ToSet(fPlotList[page]) PROVE p \in FirstPlots /\ PageOf(p) = page
    <3>1. PICK i \in Indexes : fPlotList[page][i] = p
      BY <1>5 DEF ToSet
    <3> QED
      BY <1>6, <3>1
  <2>2. ASSUME NEW p \in FirstPlots, PageOf(p) = page PROVE p \in ToSet(fPlotList[page])
    <3> DEFINE i == NumPlots + 1 - IndexOf(p)
    <3>1. IndexOf(p) \in Indexes /\ p = (page * NumPlots) + 1 - i
      BY <2>2, FirstPlaces
    <3>2. i \in Indexes
      BY <1>2, <3>1
    <3>3. fPlotList[page][i] = p
      BY <1>1, <3>1, <3>2
    <3> QED
      BY <1>5, <3>2, <3>3 DEF ToSet
  <2> QED
    BY <2>1, <2>2
<1>11. Listed = FirstPlots
  BY <1>10, FirstPlaces DEF Listed
<1>12. \A p \in FirstPlots : plot[p].page = PageOf(p) /\ plot[p].index = IndexOf(p) /\ plot[p] # None
  <2> SUFFICES ASSUME NEW p \in FirstPlots
               PROVE  plot[p].page = PageOf(p) /\ plot[p].index = IndexOf(p) /\ plot[p] # None
    OBVIOUS
  <2>1. plot[p] = Plot(PageOf(p), IndexOf(p), p + 1)
    BY <1>3
  <2>2. plot[p].page = PageOf(p) /\ plot[p].index = IndexOf(p)
    BY <2>1 DEF Plot
  <2> QED
    BY <1>3, <2>2, Numbers
<1>13. ListsRight
  <2>1. Listed = ListedIn(fPlotList)
    BY DEF Listed, ListedIn
  <2>2. \A page \in Pages : \A p \in ToSet(fPlotList[page]) : plot[p] # None /\ plot[p].page = page
    BY <1>10, <1>12
  <2>3. ASSUME NEW slot \in Slots PROVE \E p \in FirstPlots : SlotIn(plot, p) = slot
    <3>1. PICK page \in Pages, index \in Indexes : slot = <<page, index>>
      BY DEF Slots
    <3> DEFINE i == NumPlots + 1 - index
               p == fPlotList[page][i]
    <3>2. i \in Indexes /\ NumPlots + 1 - i = index
      BY <1>2
    <3>3. p \in FirstPlots /\ PageOf(p) = page /\ IndexOf(p) = index
      BY <1>6, <3>2
    <3> HIDE DEF p
    <3> QED
      BY <1>12, <3>1, <3>3 DEF SlotIn
  <2>4. ASSUME NEW p \in FirstPlots, NEW q \in FirstPlots, SlotIn(plot, p) = SlotIn(plot, q)
        PROVE  p = q
    <3>1. PageOf(p) = PageOf(q) /\ IndexOf(p) = IndexOf(q)
      BY <1>12, <2>4 DEF SlotIn
    <3>2. /\ p = (PageOf(p) * NumPlots) + 1 - (NumPlots + 1 - IndexOf(p))
          /\ q = (PageOf(q) * NumPlots) + 1 - (NumPlots + 1 - IndexOf(q))
      BY FirstPlaces
    <3> QED
      BY <3>1, <3>2
  <2> QED
    BY <1>7, <1>9, <1>11, <2>1, <2>2, <2>3, <2>4 DEF ListsRight, ListsAre
<1> QED
  BY <1>3, <1>4, <1>8, <1>11, <1>13

LEMMA AtlasInitially ==
  ASSUME Init
  PROVE  AtlasInv /\ PagesRight
<1>1. /\ plot \in PlotMaps /\ fPlotList \in ListMaps /\ ListsRight /\ Listed = FirstPlots
      /\ \A p \in FirstPlots : plot[p] = Plot(PageOf(p), IndexOf(p), p + 1) /\ plot[p] \in Records
  BY FirstLists
<1>2. /\ fASAPUploads = <<>> /\ fInlineUploads = <<>> /\ fDraws = <<>> /\ quads = {}
      /\ fNumActivePages = 0 /\ fGeneration = 2 + MaxPages * NumPlots /\ fAtlasGeneration = 1
      /\ fPrevFlushToken = 0 /\ fLastIssuedToken = 0 /\ fLastFlushedToken = 0
      /\ texture = [slot \in Slots |-> [i \in 1 .. Room |-> None]]
      /\ locator = [g \in Glyphs |-> None]
      /\ subRunGeneration = [s \in SubRuns |-> 0]
      /\ fBulkUseToken = [s \in SubRuns |-> <<>>]
      /\ texCoords = [s \in SubRuns |-> [i \in DOMAIN GlyphsOf[s] |-> None]]
      /\ pc = "idle" /\ begin = 0 /\ placed = 0 /\ broken = {}
      /\ left = [subRuns |-> MaxSubRuns, flushes |-> MaxFlushes, bails |-> MaxBails]
  BY DEF Init, AlreadyFlushed
<1>3. Uploads = {} /\ Pending = {} /\ Live = FirstPlots
  <2>1. Uploads = {}
    BY <1>2 DEF Uploads, UploadsIn
  <2>2. Pending = {}
    BY <2>1, PendingIs DEF Pending, Uploads
  <2> QED
    BY <1>1, <2>1, <2>2 DEF Live
<1>4. \A p \in FirstPlots :
        /\ plot[p] # None /\ plot[p].glyphs = <<>> /\ plot[p].clean = 0 /\ plot[p].gen = p + 1
        /\ plot[p].lastUse = 0 /\ plot[p].lastUpload = 0
  <2> SUFFICES ASSUME NEW p \in FirstPlots
               PROVE  /\ plot[p] # None /\ plot[p].glyphs = <<>> /\ plot[p].clean = 0
                      /\ plot[p].gen = p + 1 /\ plot[p].lastUse = 0 /\ plot[p].lastUpload = 0
    OBVIOUS
  <2>1. plot[p] # None
    BY <1>1, Numbers
  <2>2. plot[p] = Plot(PageOf(p), IndexOf(p), p + 1)
    BY <1>1
  <2>3. /\ plot[p].glyphs = <<>> /\ plot[p].clean = 0
        /\ plot[p].gen = p + 1 /\ plot[p].lastUse = 0 /\ plot[p].lastUpload = 0
    BY <2>2 DEF Plot, AlreadyFlushed
  <2> QED
    BY <2>1, <2>3
<1>5. MaxPages * NumPlots \in Nat /\ FirstPlots = 1 .. MaxPages * NumPlots /\ 0 \in Nat
  BY Numbers DEF FirstPlots
<1>6. /\ fNumActivePages \in 0 .. MaxPages /\ fGeneration \in Nat /\ fAtlasGeneration \in Nat
      /\ fAtlasGeneration < fGeneration /\ 0 < fGeneration
  <2>1. ASSUME NEW n \in Nat PROVE 2 + n \in Nat /\ 1 < 2 + n /\ 0 < 2 + n
    OBVIOUS
  <2>2. 0 \in 0 .. MaxPages
    BY Numbers
  <2> QED
    BY <1>2, <1>5, <2>1, <2>2
<1>7. \A g \in Glyphs : locator[g] = None
  BY <1>2
<1>8. AtlasTypes
  <2>1. texture \in [Slots -> [1 .. Room -> Glyphs \union {None}]]
    BY <1>2
  <2>2. locator \in [Glyphs -> Locators \union {None}]
    BY <1>2
  <2> QED
    BY <1>1, <1>6, <2>1, <2>2 DEF AtlasTypes
<1>9. TokenTypes
  <2>1. <<>> \in Seq(PlotObjects) /\ <<>> \in Seq(UploadRecords) /\ <<>> \in Seq(SUBSET QuadsOf)
        /\ Len(<<>>) = 0
    OBVIOUS
  <2> QED
    BY <1>2, <2>1 DEF TokenTypes
<1>10. OpTypes
  <2>1. \A s \in SubRuns : fBulkUseToken[s] = <<>> /\ <<>> \in Seq(Slots)
    BY <1>2
  <2>2. ASSUME NEW s \in SubRuns
        PROVE  texCoords[s] \in [1 .. Len(GlyphsOf[s]) -> Locators \union {None}]
    <3>1. DOMAIN GlyphsOf[s] = 1 .. Len(GlyphsOf[s])
      BY MostGlyphs, LenProperties
    <3>2. texCoords[s] = [i \in DOMAIN GlyphsOf[s] |-> None]
      BY <1>2
    <3> QED
      BY <3>1, <3>2
  <2>3. left \in [subRuns : 0 .. MaxSubRuns, flushes : Nat, bails : Nat]
    BY <1>2, AtlasAssumption
  <2>4. subRunGeneration \in [SubRuns -> Nat] /\ DOMAIN texCoords = SubRuns
    BY <1>2
  <2>5. fBulkUseToken \in [SubRuns -> Seq(Slots)]
    BY <1>2, <2>1
  <2> QED
    BY <1>2, <2>2, <2>3, <2>4, <2>5 DEF OpTypes
<1>11. RecordsRight
  <2>1. ASSUME NEW p \in FirstPlots
        PROVE  /\ Len(plot[p].glyphs) <= Room /\ plot[p].clean <= Len(plot[p].glyphs)
               /\ plot[p].gen < fGeneration
               /\ plot[p].lastUse <= NextDrawToken /\ plot[p].lastUpload <= NextDrawToken
    <3>1. Len(plot[p].glyphs) = 0
      BY <1>4
    <3>2. plot[p].gen < fGeneration
      BY <1>2, <1>4, <1>5
    <3>3. 0 <= NextDrawToken /\ 0 <= Room
      BY <1>2, Numbers DEF NextDrawToken
    <3> QED
      BY <1>4, <3>1, <3>2, <3>3
  <2> QED
    BY <1>1, <1>3, <1>4, <2>1 DEF RecordsRight
<1>12. LocatorsRight
  BY <1>7 DEF LocatorsRight
<1>13. GenerationsRight
  <2>1. \A s \in SubRuns : subRunGeneration[s] = 0 /\ Len(fBulkUseToken[s]) = 0
    BY <1>2
  <2>2. fAtlasGeneration # 0
    BY <1>2
  <2> QED
    BY <1>6, <2>1, <2>2 DEF GenerationsRight
<1>14. PlacingRight /\ QuadsRight /\ DrawsRight
  <2>1. Len(fDraws) = 0
    BY <1>2
  <2> QED
    BY <1>2, <2>1 DEF PlacingRight, QuadsRight, DrawsRight
<1>15. TextureRight
  <2>1. \A p \in FirstPlots : Len(plot[p].glyphs) = 0 /\ 1 .. plot[p].clean = {}
    BY <1>4
  <2> QED
    BY <1>1, <1>3, <1>4, <2>1 DEF TextureRight
<1>16. UploadsRight
  <2>1. Len(fASAPUploads) = 0 /\ Len(fInlineUploads) = 0
    BY <1>2
  <2> QED
    BY <1>3, <2>1 DEF UploadsRight
<1>17. ScheduleRight /\ TokensRight
  <2>1. \A p \in Listed : plot[p].lastUpload = 0 /\ ~(NextTokenToFlush <= 0) /\ 0 <= fLastIssuedToken
    BY <1>1, <1>2, <1>4 DEF NextTokenToFlush
  <2> QED
    BY <1>3, <2>1 DEF ScheduleRight, TokensRight
<1>18. PlotsLast
  <2>1. Missing = 0
    BY <1>2 DEF Missing
  <2>2. Cardinality(Live) = MaxPages * NumPlots
    BY <1>1, <1>3, <1>8, AtlasSize
  <2>3. (MaxSubRuns - left.subRuns) * MaxGlyphs = 0
    <3>1. MaxSubRuns - left.subRuns = 0
      BY <1>2, Numbers
    <3>2. 0 * MaxGlyphs = 0
      BY Numbers
    <3> QED
      BY <3>1, <3>2
  <2> QED
    BY <1>5, <2>1, <2>2, <2>3 DEF PlotsLast
<1>19. PagesRight
  BY <1>1, <1>4 DEF PagesRight
<1> QED
  BY <1>1, <1>8, <1>9, <1>10, <1>11, <1>12, <1>13, <1>14, <1>15, <1>16, <1>17, <1>18, <1>19
  DEF AtlasInv
-----------------------------------------------------------------------------
(* The steps.                                                              *)
IInv == AtlasInv /\ PagesRight

LEMMA SamePages ==
  ASSUME PagesRight, UNCHANGED <<plot, fPlotList, fNumActivePages>>
  PROVE  PagesRight'
BY DEF PagesRight, Listed, Active

LEMMA TaggedPages ==
  ASSUME AtlasInv, PagesRight, NEW T \in SUBSET Listed, Tagging(T)
  PROVE  PagesRight'
<1>1. /\ Listed' = Listed /\ Active' = Active
      /\ \A p \in PlotObjects : SamePlace(p)
  BY TaggingFacts DEF AtlasInv
<1>2. Listed \subseteq PlotObjects
  BY AtlasFacts DEF AtlasInv
<1> QED
  BY <1>1, <1>2 DEF PagesRight, SamePlace

LEMMA RegeneratedPages ==
  ASSUME AtlasInv, PagesRight, NEW s \in SubRuns, NEW from, Regenerate(s, from)
  PROVE  PagesRight'
<1>1. CASE subRunGeneration[s] # fAtlasGeneration
  BY <1>1, SamePages DEF Regenerate
<1>2. CASE subRunGeneration[s] = fAtlasGeneration
  <2>1. Tagging(Used(s))
    BY <1>2, SetUseTokensTags DEF Regenerate, giveUpVars
  <2>2. Used(s) \in SUBSET Listed
    BY DEF Used
  <2> QED
    BY <2>1, <2>2, TaggedPages
<1> QED
  BY <1>1, <1>2

LEMMA UploadedPages ==
  ASSUME AtlasInv, PagesRight, NEW u, IsUploaded(u)
  PROVE  PagesRight'
BY DEF PagesRight, IsUploaded

LEMMA CompactedPages ==
  ASSUME AtlasInv, PagesRight, PostFlush
  PROVE  PagesRight'
<1>1. PICK E, G : Compacts(E, G)
  BY CompactIs DEF PostFlush
<1>2. Listed' = Listed
  BY <1>1, CompactedPlots DEF PostFlush
<1> SUFFICES ASSUME NEW p \in Listed
             PROVE  plot'[p].page \in Active' \/ plot'[p].glyphs = <<>>
  BY <1>2 DEF PagesRight
<1>3. CASE p \in E \union G
  BY <1>1, <1>3 DEF Compacts, Empties
<1>4. CASE p \notin E \union G
  <2>1. Ages(p) /\ (plot[p].page \in Active => plot[p].page \in Active')
    BY <1>1, <1>4 DEF Compacts
  <2> QED
    BY <2>1 DEF PagesRight, Ages, SamePlace
<1> QED
  BY <1>3, <1>4

LEMMA NothingHappens ==
  ASSUME IInv, UNCHANGED vars
  PROVE  IInv'
<1>1. /\ UNCHANGED <<plot, fPlotList, fNumActivePages, fGeneration, fAtlasGeneration>>
      /\ UNCHANGED <<fPrevFlushToken, fLastIssuedToken, fLastFlushedToken>>
      /\ UNCHANGED <<fASAPUploads, fInlineUploads, fDraws, texture, locator>>
      /\ UNCHANGED <<subRunGeneration, fBulkUseToken, texCoords, broken>>
      /\ UNCHANGED <<pc, current, begin, placed, quads, left, gaveUp, lapsed>>
  BY DEF vars, atlasVars, tokenVars, uploadVars, blobVars, opVars, giveUpVars
<1>2. AtlasTypes' /\ TokenTypes' /\ OpTypes'
  BY <1>1 DEF IInv, AtlasInv, AtlasTypes, TokenTypes, OpTypes
<1>3. /\ Listed' = Listed /\ Uploads' = Uploads /\ Pending' = Pending /\ Live' = Live
      /\ Active' = Active /\ NextDrawToken' = NextDrawToken /\ NextTokenToFlush' = NextTokenToFlush
      /\ \A p : Slot(p)' = Slot(p)
  BY <1>1 DEF Listed, Uploads, Pending, Live, Active, NextDrawToken, NextTokenToFlush, Slot
<1>4. \A loc : Good(loc)' <=> Good(loc)
  BY <1>1, <1>3 DEF Good, Located
<1>5. ListsRight' /\ RecordsRight' /\ LocatorsRight' /\ PagesRight'
  BY <1>1, <1>3
  DEF IInv, AtlasInv, ListsRight, RecordsRight, LocatorsRight, Located, Holds, PagesRight
<1>6. GenerationsRight'
  BY <1>1, <1>3 DEF IInv, AtlasInv, GenerationsRight, Good, Located
<1>7. PlacingRight'
  BY <1>1, <1>3 DEF IInv, AtlasInv, PlacingRight, Good, Located
<1>8. QuadsRight'
  BY <1>1, <1>3 DEF IInv, AtlasInv, QuadsRight, Ready, Holds, IsLapsed
<1>9. DrawsRight'
  <2>1. \A quad, token : WillRead(quad, token)' <=> WillRead(quad, token)
    BY <1>1, <1>3, WillReadSame DEF SamePlace
  <2>2. \A quad, token : Reserved(quad, token)' <=> Reserved(quad, token)
    BY <1>1, <1>3 DEF Reserved, Holds
  <2> QED
    BY <1>1, <2>1, <2>2 DEF IInv, AtlasInv, DrawsRight, Prepares
<1>10. TextureRight' /\ UploadsRight' /\ ScheduleRight'
  BY <1>1, <1>3 DEF IInv, AtlasInv, TextureRight, UploadsRight, ScheduleRight, Prepares
<1>11. TokensRight' /\ PlotsLast'
  BY <1>1, <1>3 DEF IInv, AtlasInv, TokensRight, DrawComes, PlotsLast, Missing
<1> QED
  BY <1>2, <1>5, <1>6, <1>7, <1>8, <1>9, <1>10, <1>11 DEF IInv, AtlasInv

LEMMA StepKeeps ==
  ASSUME IInv, [Next]_vars
  PROVE  IInv'
<1> USE DEF IInv
<1>1. ASSUME NEW s \in SubRuns, NextSubRun(s) PROVE IInv'
  BY <1>1, NextSubRunKeeps, RegeneratedPages DEF NextSubRun
<1>2. CASE Again
  <2>1. current \in SubRuns
    BY <1>2 DEF Again, AtlasInv, OpTypes
  <2> QED
    BY <1>2, <2>1, AgainKeeps, RegeneratedPages DEF Again
<1>3. CASE PlaceKnown
  BY <1>3, PlaceKnownKeeps, TaggedPages
<1>4. CASE PlaceNew
  BY <1>4, PlaceNewKeeps
<1>5. CASE Stop
  BY <1>5, StopKeeps, SamePages DEF Stop, atlasVars
<1>6. CASE Bail
  BY <1>6, BailKeeps, SamePages DEF Bail, atlasVars
<1>7. CASE Finish
  BY <1>7, FinishKeeps, SamePages DEF Finish, atlasVars
<1>8. CASE EndOp
  BY <1>8, EndOpKeeps, SamePages DEF EndOp, atlasVars
<1>9. CASE OtherDraw
  BY <1>9, OtherDrawKeeps, SamePages DEF OtherDraw, atlasVars
<1>10. CASE PreExecute
  BY <1>10, PreExecuteKeeps, SamePages DEF PreExecute, atlasVars
<1>11. CASE ASAPUpload \/ InlineUpload
  <2>1. AtlasInv'
    BY <1>11, UploadsKeep
  <2>2. PICK u : IsFirst(u)
    BY <1>11, ASAPIsFirst, InlineIsFirst
  <2>3. IsUploaded(u)
    BY <2>2, UploadedFacts
  <2> QED
    BY <2>1, <2>3, UploadedPages
<1>12. CASE Draw
  BY <1>12, DrawIsFlushed, SamePages DEF Draw, executeUnchanged
<1>13. CASE MoreTasks
  BY <1>13, MoreTasksKeeps, SamePages DEF MoreTasks, atlasVars
<1>14. CASE PostFlush
  BY <1>14, PostFlushKeeps, CompactedPages
<1>15. CASE UNCHANGED vars
  BY <1>15, NothingHappens
<1> QED
  BY <1>1, <1>2, <1>3, <1>4, <1>5, <1>6, <1>7, <1>8, <1>9, <1>10, <1>11, <1>12, <1>13, <1>14,
     <1>15
  DEF Next, OpStep

(* The inductive invariant of the atlas, its uploads and the text ops:     *)
(* which plots are listed, what is to be uploaded and before which draw,   *)
(* and what each draw will read (GrDrawOpAtlas.cpp, GrOpFlushState.cpp,    *)
(* GrAtlasTextOp.cpp).                                                     *)
THEOREM AtlasInvariance == Spec => []IInv
<1>1. Init => IInv
  BY AtlasInitially DEF IInv
<1>2. IInv /\ [Next]_vars => IInv'
  BY StepKeeps
<1> QED
  BY <1>1, <1>2, PTL DEF Spec

(* A subrun that has the generation of the atlas has the coordinates its   *)
(* glyphs have in the atlas, and the plots it tags are theirs: whatever    *)
(* evicts, compact() and deactivateLastPage() included, changes the        *)
(* generation when it takes a glyph away (processEviction(),               *)
(* GrDrawOpAtlas.cpp:237).                                                 *)
THEOREM GenerationAlwaysTells == Spec => []GenerationTells
<1>1. IInv => GenerationTells
  <2> SUFFICES ASSUME AtlasInv PROVE GenerationTells
    BY DEF IInv
  <2>1. /\ AtlasTypes /\ TokenTypes /\ OpTypes /\ ListsRight /\ RecordsRight /\ LocatorsRight
        /\ GenerationsRight
    BY DEF AtlasInv
  <2>2. \A page \in Pages : IsInjective(fPlotList[page]) /\ Len(fPlotList[page]) = NumPlots
    BY <2>1 DEF ListsRight, ListsAre, IsOnce, IsInjective
  <2>3. fLastFlushedToken <= fLastIssuedToken
    <3>1. Len(fDraws) \in Nat
      BY <2>1, LenProperties DEF TokenTypes
    <3> QED
      BY <2>1, <3>1 DEF TokenTypes
  <2>4. locator \in [Glyphs -> {None} \union
          [page : Pages, index : Indexes, gen : 1 .. fGeneration, at : 1 .. Room]]
    <3>1. ASSUME NEW g \in Glyphs, locator[g] # None
          PROVE  locator[g] \in [page : Pages, index : Indexes, gen : 1 .. fGeneration, at : 1 .. Room]
      <4>1. locator[g] \in Locators /\ locator[g].gen < fGeneration /\ fGeneration \in Nat
        BY <2>1, <3>1 DEF AtlasTypes, LocatorsRight
      <4>2. locator[g].gen \in 1 .. fGeneration
        BY <4>1 DEF Locators
      <4> QED
        BY <4>1, <4>2 DEF Locators
    <3>2. locator = [g \in Glyphs |-> locator[g]]
      BY <2>1 DEF AtlasTypes
    <3> QED
      BY <3>1, <3>2
  <2>5. \A p \in Listed : plot[p].gen < fGeneration
    BY <2>1 DEF RecordsRight, Live
  <2>6. AtlasTypeOK
    BY <2>1, <2>2, <2>3, <2>4, <2>5 DEF AtlasTypeOK, AtlasTypes
  <2>7. ASSUME NEW s \in SubRuns \ broken, subRunGeneration[s] = fAtlasGeneration,
               NEW i \in DOMAIN GlyphsOf[s]
        PROVE  /\ texCoords[s][i] = locator[GlyphsOf[s][i]]
               /\ HasID(texCoords[s][i])
               /\ <<texCoords[s][i].page, texCoords[s][i].index>> \in ToSet(fBulkUseToken[s])
    <3>1. i \in 1 .. Len(GlyphsOf[s])
      BY MostGlyphs, LenProperties
    <3>2. /\ texCoords[s][i] = locator[GlyphsOf[s][i]]
          /\ Good(texCoords[s][i])
          /\ SlotOf(texCoords[s][i]) \in ToSet(fBulkUseToken[s])
      BY <2>1, <2>7, <3>1 DEF GenerationsRight
    <3>3. texCoords[s][i] \in Locators \union {None}
      BY <2>1, <3>1 DEF OpTypes
    <3>4. HasID(texCoords[s][i])
      BY <2>1, <3>2, <3>3, GoodIs
    <3> QED
      BY <3>2, <3>4 DEF SlotOf
  <2> QED
    BY <2>6, <2>7 DEF GenerationTells
<1> QED
  BY <1>1, AtlasInvariance, PTL

(* What a draw samples when it is executed is the glyphs it was made for:  *)
(* no upload before it has taken their place, and theirs were not          *)
(* forgotten (addToAtlas(), GrDrawOpAtlas.cpp:298; updatePlot(), :245),    *)
(* whichever ops give up part way. Excepted are subruns drawn as they are  *)
(* after they were regenerated in several parts, and plots with an upload  *)
(* that lapsed, for which it is not so.                                    *)
THEOREM WholeSubRunsAlwaysReadRight == Spec => []WholeSubRunsReadRight
<1>1. IInv => WholeSubRunsReadRight
  <2> SUFFICES ASSUME AtlasInv, fASAPUploads = <<>>, fDraws # <<>>, ~InlineIsDue,
                      NEW quad \in Head(fDraws), quad.whole
               PROVE  ReadsRight(quad)
    BY DEF IInv, WholeSubRunsReadRight
  <2>1. 1 \in 1 .. Len(fDraws) /\ Head(fDraws) = fDraws[1]
    <3>1. fDraws \in Seq(SUBSET QuadsOf)
      BY DEF AtlasInv, TokenTypes
    <3>2. Len(fDraws) \in Nat /\ Len(fDraws) # 0
      BY <3>1, LenProperties, EmptySeq
    <3> QED
      BY <3>1, <3>2, HeadTailProperties
  <2>2. WillRead(quad, NextTokenToFlush)
    <3>1. WillRead(quad, fLastFlushedToken + 1)
      BY <2>1 DEF AtlasInv, DrawsRight
    <3> QED
      BY <3>1 DEF NextTokenToFlush
  <2>3. \A u \in Uploads : ~(u.before <= NextTokenToFlush)
    <3> SUFFICES ASSUME NEW u \in Uploads PROVE ~(u.before <= NextTokenToFlush)
      OBVIOUS
    <3>1. fASAPUploads \in Seq(PlotObjects) /\ fInlineUploads \in Seq(UploadRecords)
      BY DEF AtlasInv, TokenTypes
    <3>2. 1 .. Len(fASAPUploads) = {}
      OBVIOUS
    <3>3. \E i \in 1 .. Len(fInlineUploads) : u = fInlineUploads[i]
      <4>1. u \in UploadsIn(fASAPUploads, fInlineUploads)
        BY DEF Uploads
      <4>2. \/ \E i \in 1 .. Len(fASAPUploads) : u = [plot |-> fASAPUploads[i], before |-> 0]
            \/ \E i \in 1 .. Len(fInlineUploads) : u = fInlineUploads[i]
        BY <3>1, <4>1, UploadsAre
      <4> QED
        BY <3>2, <4>2
    <3>4. u.before \in NextTokenToFlush + 1 .. NextDrawToken
      BY <3>3, NoneIsDue
    <3>5. NextTokenToFlush \in Nat /\ NextDrawToken \in Nat
      BY UploadFacts DEF AtlasInv
    <3> QED
      BY <3>4, <3>5
  <2> QED
    BY <2>2, <2>3 DEF WillRead
<1> QED
  BY <1>1, AtlasInvariance, PTL

(* "We should only be issuing uploads if we are in fact dirty"             *)
(* (GrDrawOpAtlas.cpp:171), an inline upload precedes a draw that is       *)
(* recorded, and when all draws are flushed no upload is left              *)
(* (GrOpFlushState::reset(), GrOpFlushState.cpp:76) or passes for one that *)
(* is scheduled (updatePlot(), GrDrawOpAtlas.cpp:253), with one exception: *)
(* an op gave up the very draw that was to follow (GrAtlasTextOp.cpp:383). *)
THEOREM UploadsAreAlwaysUsed == Spec => []UploadsAreUsed
<1>1. IInv => UploadsAreUsed
  <2> SUFFICES ASSUME AtlasInv PROVE UploadsAreUsed
    BY DEF IInv
  <2>1. TokenTypes /\ UploadsRight /\ TextureRight /\ RecordsRight /\ TokensRight
    BY DEF AtlasInv
  <2>2. /\ Pending = {u.plot : u \in Uploads}
        /\ NextTokenToFlush \in Nat /\ fLastIssuedToken \in Nat
    BY <2>1, UploadFacts DEF TokenTypes
  <2>3. \A p \in Pending : plot[p] # None /\ plot[p].clean < Len(plot[p].glyphs)
    <3> SUFFICES ASSUME NEW p \in Pending
                 PROVE  plot[p] # None /\ plot[p].clean < Len(plot[p].glyphs)
      OBVIOUS
    <3>1. PICK u \in Uploads : u.plot = p
      BY <2>2
    <3> QED
      BY <2>1, <3>1 DEF RecordsRight, TextureRight, Live
  <2>4. ASSUME pc \in {"idle", "execute"}, NEW i \in DOMAIN fInlineUploads
        PROVE  /\ fInlineUploads[i].before \in NextTokenToFlush .. NextDrawToken
               /\ fInlineUploads[i].before = NextDrawToken => gaveUp = NextDrawToken
    <3>1. fASAPUploads \in Seq(PlotObjects) /\ fInlineUploads \in Seq(UploadRecords)
      BY <2>1 DEF TokenTypes
    <3>2. i \in 1 .. Len(fInlineUploads)
      BY <2>4, <3>1, LenProperties
    <3>3. fInlineUploads[i] \in Uploads /\ ~DrawComes
      BY <2>4, <3>1, <3>2, UploadsAre DEF Uploads, DrawComes
    <3>4. gaveUp # NextDrawToken => fInlineUploads[i].before <= fLastIssuedToken
      BY <2>1, <3>3 DEF TokensRight
    <3>5. fInlineUploads[i].before \in NextTokenToFlush .. NextDrawToken
      BY <2>1, <3>2 DEF UploadsRight
    <3> QED
      BY <2>2, <3>4, <3>5 DEF NextDrawToken
  <2>5. ASSUME Executed
        PROVE  /\ NextDrawToken = NextTokenToFlush
               /\ fInlineUploads # <<>> \/ Lapsing # {} => gaveUp = NextDrawToken
    <3>1. /\ pc = "execute" /\ ~DrawComes /\ fLastIssuedToken = fLastFlushedToken
          /\ NextDrawToken = NextTokenToFlush
      <4>1. Len(fDraws) = 0
        BY <2>5 DEF Executed
      <4>2. fLastIssuedToken = fLastFlushedToken
        BY <2>1, <4>1 DEF TokenTypes
      <4> QED
        BY <2>5, <4>2 DEF Executed, DrawComes, NextDrawToken, NextTokenToFlush
    <3> SUFFICES ASSUME gaveUp # NextDrawToken PROVE fInlineUploads = <<>> /\ Lapsing = {}
      BY <3>1
    <3>2. /\ \A u \in Uploads : u.before <= fLastIssuedToken
          /\ \A p \in Listed : plot[p].lastUpload <= fLastIssuedToken
      BY <2>1, <3>1 DEF TokensRight
    <3>3. \A n \in Nat : n <= fLastIssuedToken => ~(NextTokenToFlush <= n)
      BY <2>2, <3>1 DEF NextTokenToFlush
    <3>4. fInlineUploads = <<>>
      <4> SUFFICES ASSUME fInlineUploads # <<>> PROVE FALSE
        OBVIOUS
      <4>1. fASAPUploads \in Seq(PlotObjects) /\ fInlineUploads \in Seq(UploadRecords)
        BY <2>1 DEF TokenTypes
      <4>2. 1 \in 1 .. Len(fInlineUploads)
        BY <4>1, EmptySeq, LenProperties
      <4>3. fInlineUploads[1] \in Uploads
        BY <4>1, <4>2, UploadsAre DEF Uploads
      <4>4. fInlineUploads[1].before \in Nat /\ NextTokenToFlush <= fInlineUploads[1].before
        BY <2>1, <4>2, <4>3, UploadFacts DEF UploadsRight
      <4> QED
        BY <3>2, <3>3, <4>3, <4>4
    <3>5. Pending = {}
      <4>1. Uploads = {}
        BY <2>5, <3>4 DEF Executed, Uploads, UploadsIn
      <4> QED
        BY <2>2, <4>1
    <3>6. \A p \in Listed : plot[p].lastUpload \in Nat
      BY AtlasFacts DEF AtlasInv, Records
    <3> QED
      BY <3>2, <3>3, <3>4, <3>5, <3>6 DEF Lapsing, UploadIsScheduled
  <2> QED
    BY <2>3, <2>4, <2>5 DEF UploadsAreUsed
<1> QED
  BY <1>1, AtlasInvariance, PTL
========================================
