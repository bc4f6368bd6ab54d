---------------------------- MODULE GrDrawOpAtlas ----------------------------
(***************************************************************************)
(* The atlas of glyphs that draws sample (src/gpu/GrDrawOpAtlas.cpp), with *)
(* the tokens and deferred uploads that order its changes against draws    *)
(* (GrDeferredUpload.h, GrOpFlushState.cpp) and its main client, the text  *)
(* ops (GrAtlasTextOp.cpp, VertexRegenerator of GrTextBlob.cpp).           *)
(*                                                                         *)
(* One thread flushes: ops are prepared one after another, which places    *)
(* their glyphs, records draws and schedules uploads; then uploads and     *)
(* draws are executed; at last the atlas is compacted. Which blobs are     *)
(* drawn when is up to the clients.                                        *)
(***************************************************************************)
EXTENDS Integers, FiniteSets, FiniteSetsExt, SequencesExt, Lists

CONSTANTS
  MaxPages,            (* fMaxPages                                        *)
  NumPlots,            (* fNumPlots, the plots of a page                   *)
  Room,                (* glyphs that fit into a plot                      *)
  RecentlyUsedCount,   (* kRecentlyUsedCount                               *)
  CompactDivisor,      (* the part of a page compact() moves: 4            *)
  Glyphs,
  SubRuns, GlyphsOf,   (* the glyphs of each subrun, in order              *)
  MaxSubRuns,          (* bound: subruns prepared before an execution      *)
  MaxFlushes,          (* bound *)
  MaxBails,            (* bound: ops that give up                          *)
  None

Pages == 1 .. MaxPages
Indexes == 1 .. NumPlots
MaxGlyphs == Max({Len(GlyphsOf[s]) : s \in SubRuns})
MaxPlots == MaxPages * NumPlots + MaxSubRuns * MaxGlyphs
PlotObjects == 1 .. MaxPlots
Slots == Pages \X Indexes

Records ==
  [page : Pages, index : Indexes, glyphs : Seq(Glyphs), clean : Nat, gen : Nat \ {0},
   lastUpload : Nat, lastUse : Nat, idle : Nat]
Locators == [page : Pages, index : Indexes, gen : Nat \ {0}, at : 1 .. Room]

ASSUME AtlasAssumption ==
  /\ MaxPages \in Nat \ {0} /\ NumPlots \in Nat \ {0} /\ Room \in Nat \ {0}
  /\ RecentlyUsedCount \in Nat /\ CompactDivisor \in Nat \ {0}
  /\ IsFiniteSet(SubRuns) /\ SubRuns # {}
  /\ GlyphsOf \in [SubRuns -> Seq(Glyphs) \ {<<>>}]
  /\ MaxSubRuns \in Nat /\ MaxFlushes \in Nat /\ MaxBails \in Nat
  /\ None \notin Glyphs \union SubRuns \union Records \union Locators

VARIABLES
  plot,              (* the Plot objects                                   *)
  fPlotList,         (* the plots of each page, the last used first        *)
  fNumActivePages,
  fGeneration,       (* the GenerationCounter                              *)
  fAtlasGeneration,
  fPrevFlushToken,
  fLastIssuedToken, fLastFlushedToken,
  fASAPUploads, fInlineUploads, fDraws,
  texture,           (* what the texture of each plot holds on the GPU     *)
  locator,           (* GrGlyph: where the atlas has it                    *)
  subRunGeneration,  (* SubRun: its fAtlasGeneration                       *)
  fBulkUseToken,     (* SubRun: the plots it uses, by page and index       *)
  texCoords,         (* SubRun: where its quads say the glyphs are         *)
  pc,
  current,           (* the subrun an op regenerates                       *)
  begin, placed,     (* regenerate() has begun with glyph begin + 1 and    *)
                     (* has come to glyph placed                           *)
  quads,             (* what the op has for its next draw                  *)
  left,              (* subruns, flushes and bails that are left           *)
  broken,            (* history: subruns last regenerated in several parts *)
  gaveUp,            (* history: the draw that an op last gave up          *)
  lapsed             (* history: generations of plots with uploads for no  *)
                     (* draw                                               *)

atlasVars == <<plot, fPlotList, fNumActivePages, fGeneration, fAtlasGeneration>>
tokenVars == <<fLastIssuedToken, fLastFlushedToken>>
uploadVars == <<fASAPUploads, fInlineUploads>>
blobVars == <<subRunGeneration, fBulkUseToken, texCoords, broken>>
opVars == <<pc, current, begin, placed>>
giveUpVars == <<gaveUp, lapsed>>
vars == <<atlasVars, fPrevFlushToken, tokenVars, uploadVars, fDraws, texture, locator,
          blobVars, opVars, quads, left, giveUpVars>>

AlreadyFlushed == 0
NextTokenToFlush == fLastFlushedToken + 1
NextDrawToken == fLastIssuedToken + 1

Plot(page, index, gen) ==
  [page |-> page, index |-> index, glyphs |-> <<>>, clean |-> 0, gen |-> gen,
   lastUpload |-> AlreadyFlushed, lastUse |-> AlreadyFlushed, idle |-> 0]

Init ==
  /\ plot = [p \in PlotObjects |->
       IF p > MaxPages * NumPlots THEN None
       ELSE Plot(((p - 1) \div NumPlots) + 1, ((p - 1) % NumPlots) + 1, p + 1)]
  /\ fPlotList = [page \in Pages |-> [i \in Indexes |-> (page * NumPlots) + 1 - i]]
  /\ fNumActivePages = 0
  /\ fGeneration = 2 + MaxPages * NumPlots /\ fAtlasGeneration = 1
  /\ fPrevFlushToken = AlreadyFlushed
  /\ fLastIssuedToken = 0 /\ fLastFlushedToken = 0
  /\ fASAPUploads = <<>> /\ fInlineUploads = <<>> /\ fDraws = <<>>
  /\ texture = [slot \in Slots |-> [i \in 1 .. Room |-> None]]
  /\ locator = [g \in Glyphs |-> None]
  /\ subRunGeneration = [s \in SubRuns |-> 0]
  /\ fBulkUseToken = [s \in SubRuns |-> <<>>]
  /\ texCoords = [s \in SubRuns |-> [i \in DOMAIN GlyphsOf[s] |-> None]]
  /\ pc = "idle" /\ current = None /\ begin = 0 /\ placed = 0
  /\ quads = {}
  /\ left = [subRuns |-> MaxSubRuns, flushes |-> MaxFlushes, bails |-> MaxBails]
  /\ broken = {} /\ gaveUp = 0 /\ lapsed = {}
-----------------------------------------------------------------------------
Slot(p) == <<plot[p].page, plot[p].index>>
Listed == UNION {ToSet(fPlotList[page]) : page \in Pages}
Scheduled(asap, inline) == ToSet(asap) \union {inline[i].plot : i \in DOMAIN inline}
Pending == Scheduled(fASAPUploads, fInlineUploads)
Active == 1 .. fNumActivePages
HasRoom(p) == Len(plot[p].glyphs) < Room
PlotAt(slot) == CHOOSE p \in Listed : Slot(p) = slot

(* hasID(): a locator is good as long as its plot has the generation.      *)
HasID(loc) ==
  /\ loc # None /\ loc.page \in Active
  /\ plot[PlotAt(<<loc.page, loc.index>>)].gen = loc.gen

(* makeMRU() of some plots of a list, one after the other.                 *)
MadeMRU(list, plots) ==
  Reverse(plots) \o Omit(list, ToSet(plots))

(* resetRects(), after processEviction() took its generation.              *)
ResetRects(record, gen) ==
  [Plot(record.page, record.index, gen) EXCEPT !.idle = record.idle]

(* Mutant: the text ops are not told that the atlas has changed. *)
ProcessEvictionUntold == UNCHANGED fAtlasGeneration /\ fGeneration' = fGeneration + 2

(* processEviction(). The locators stay with the glyphs: the atlases of    *)
(* glyphs are made without an evictor, and it is the new generation of the *)
(* plot that tells.                                                        *)
ProcessEviction == fAtlasGeneration' = fGeneration /\ fGeneration' = fGeneration + 2
-----------------------------------------------------------------------------
(* addSubImage() of a glyph to a plot, and the addGlyphToBulkAndSetUseToken()  *)
(* that follows when addToAtlas() has succeeded.                           *)
Tagged(record) ==
  IF <<record.page, record.index>> \in ToSet(fBulkUseToken[current]) THEN record
  ELSE [record EXCEPT !.lastUse = NextDrawToken]

Tags(slot) ==
  fBulkUseToken' = [fBulkUseToken EXCEPT ![current] =
    IF slot \in ToSet(@) THEN @ ELSE Append(@, slot)]

LocatorIn(record) ==
  [page |-> record.page, index |-> record.index, gen |-> record.gen,
   at |-> Len(record.glyphs) + 1]

(* Mutant: an upload that is due before the next draw is taken to wait still. *)
UploadIsScheduledLate(record) == record.lastUpload >= fLastFlushedToken

(* "Otherwise, we already have a scheduled upload that hasn't yet          *)
(* [occurred]. This new update will piggy back on that".                   *)
UploadIsScheduled(record) == record.lastUpload >= NextTokenToFlush

(* The glyph goes into a plot by an upload before all draws: addSubImage() *)
(* and updatePlot(), for the plot as the record says. *)
AddASAP(g, p, record) ==
  /\ plot' = [plot EXCEPT ![p] = Tagged(
       [record EXCEPT !.glyphs = Append(@, g),
          !.lastUpload = IF UploadIsScheduled(record) THEN @ ELSE NextTokenToFlush])]
  /\ fASAPUploads' = IF UploadIsScheduled(record) THEN fASAPUploads ELSE Append(fASAPUploads, p)
  /\ fPlotList' = [fPlotList EXCEPT ![record.page] = MadeMRU(@, <<p>>)]
  /\ locator' = [locator EXCEPT ![g] = LocatorIn(record)]
  /\ Tags(<<record.page, record.index>>)
  /\ UNCHANGED fInlineUploads

Roomy(page) == \E p \in ToSet(fPlotList[page]) : HasRoom(p)
Shareable == {page \in Active : Roomy(page)}

(* Into the first page with room in one of its plots. *)
AddToPage(g, page) ==
  /\ LET p == fPlotList[page][Min({i \in Indexes : HasRoom(fPlotList[page][i])})]
     IN AddASAP(g, p, plot[p])
  /\ UNCHANGED <<fGeneration, fAtlasGeneration>>

Share(g) ==
  /\ Shareable # {}
  /\ AddToPage(g, Min(Shareable))
  /\ UNCHANGED fNumActivePages

(* activateNewPage(): "We wait until we've grown to the full number of     *)
(* pages to begin evicting already flushed plots".                         *)
Activate(g) ==
  /\ Shareable = {} /\ fNumActivePages < MaxPages
  /\ fNumActivePages' = fNumActivePages + 1
  /\ AddToPage(g, fNumActivePages')

LeastRecent(page) == Last(fPlotList[page])

(* Mutant: a plot of the draws that are still to be flushed counts as flushed. *)
FlushedTailsLate == {page \in Active : plot[LeastRecent(page)].lastUse <= NextTokenToFlush}

FlushedTails == {page \in Active : plot[LeastRecent(page)].lastUse < NextTokenToFlush}

(* The least recently used plot of a page, if all its draws are flushed.   *)
EvictFlushed(g) ==
  /\ Shareable = {} /\ fNumActivePages = MaxPages /\ FlushedTails # {}
  /\ LET p == LeastRecent(Min(FlushedTails))
     IN AddASAP(g, p, ResetRects(plot[p], fGeneration + 1))
  /\ ProcessEviction
  /\ UNCHANGED fNumActivePages

(* "Try to find a plot that we can perform an inline upload to": one that  *)
(* the draw being prepared does not read, from the last page backwards.    *)
Replaceable == {page \in Active : plot[LeastRecent(page)].lastUse # NextDrawToken}

Replace(g) ==
  /\ Shareable = {} /\ fNumActivePages = MaxPages /\ FlushedTails = {}
  /\ Replaceable # {}
  /\ LET old == LeastRecent(Max(Replaceable))
         new == CHOOSE p \in PlotObjects \ (Listed \union Pending) : TRUE
         clone == Plot(plot[old].page, plot[old].index, fGeneration + 1)
     IN /\ plot' = [p \in PlotObjects |->
             IF p = new THEN Tagged([clone EXCEPT !.glyphs = <<g>>, !.lastUpload = NextDrawToken])
             ELSE IF p = old /\ old \notin Pending THEN None ELSE plot[p]]
        /\ fPlotList' = [fPlotList EXCEPT ![clone.page] =
             <<new>> \o Omit(@, {old})]
        /\ fInlineUploads' = Append(fInlineUploads, [plot |-> new, before |-> NextDrawToken])
        /\ locator' = [locator EXCEPT ![g] = LocatorIn(clone)]
        /\ Tags(Slot(old))
  /\ ProcessEviction
  /\ UNCHANGED <<fNumActivePages, fASAPUploads>>

(* kTryAgain *)
Full ==
  /\ Shareable = {} /\ fNumActivePages = MaxPages
  /\ FlushedTails = {} /\ Replaceable = {}
-----------------------------------------------------------------------------
(* recordDraw(), of a draw with what it reads.                             *)
RecordDraw(read) ==
  /\ fDraws' = Append(fDraws, read)
  /\ fLastIssuedToken' = NextDrawToken
  /\ UNCHANGED fLastFlushedToken

(* createDrawForGeneratedGlyphs(): nothing is recorded without glyphs.     *)
CreateDraw(read) ==
  IF read = {} THEN UNCHANGED <<fDraws, tokenVars>> ELSE RecordDraw(read)

(* The quads of glyphs from + 1 .. to of a subrun, as a draw reads them,   *)
(* and (history) whether the coordinates are of one regeneration and no    *)
(* upload of their plot has lapsed.                                        *)
IsLapsed(loc) == loc # None /\ loc.gen \in lapsed

Quads(s, coords, from, to, whole) ==
  {[loc |-> coords[i], glyph |-> GlyphsOf[s][i], whole |-> (whole /\ ~IsLapsed(coords[i]))]
     : i \in from + 1 .. to}

SetUseTokens(slots) ==
  LET used(page) ==
        LET on == Omit(slots, {slot \in Slots : slot[1] # page})
        IN [i \in DOMAIN on |-> PlotAt(on[i])]
  IN /\ plot' = [p \in PlotObjects |->
          IF p \in Listed /\ Slot(p) \in ToSet(slots) /\ plot[p].page \in Active
          THEN [plot[p] EXCEPT !.lastUse = NextDrawToken] ELSE plot[p]]
     /\ fPlotList' = [page \in Pages |->
          IF page \in Active THEN MadeMRU(fPlotList[page], used(page)) ELSE fPlotList[page]]

(* regenerate() of the current subrun from a glyph on: when the atlas has  *)
(* changed, new coordinates; when not, they "are all still valid".         *)
Regenerate(s, from) ==
  /\ begin' = from /\ placed' = from
  /\ IF subRunGeneration[s] # fAtlasGeneration
     THEN /\ fBulkUseToken' = [fBulkUseToken EXCEPT ![s] = <<>>]
          /\ pc' = "placing"
          /\ UNCHANGED <<plot, fPlotList, quads>>
     ELSE /\ SetUseTokens(fBulkUseToken[s])
          /\ quads' = quads \union Quads(s, texCoords[s], from, Len(GlyphsOf[s]), s \notin broken)
          /\ pc' = "op"
          /\ UNCHANGED fBulkUseToken
  /\ UNCHANGED <<fNumActivePages, fGeneration, fAtlasGeneration, fPrevFlushToken, tokenVars,
                 uploadVars, fDraws, texture, locator, subRunGeneration, texCoords, broken,
                 giveUpVars>>

(* onPrepareDraws(): the next subrun of the op, or of the next op.         *)
NextSubRun(s) ==
  /\ pc \in {"idle", "op"} /\ left.subRuns > 0
  /\ Regenerate(s, 0)
  /\ current' = s
  /\ left' = [left EXCEPT !.subRuns = @ - 1]

(* regenerate() has stopped part way: the loop calls it again.             *)
Again ==
  /\ pc = "again"
  /\ Regenerate(current, placed)
  /\ UNCHANGED <<current, left>>

NextGlyph == GlyphsOf[current][placed + 1]
HasGlyph == HasID(locator[NextGlyph])

(* updateTextureCoordinates(), one glyph, that the atlas has ...           *)
PlaceKnown ==
  /\ pc = "placing" /\ placed < Len(GlyphsOf[current]) /\ HasGlyph
  /\ LET slot == <<locator[NextGlyph].page, locator[NextGlyph].index>>
         p == PlotAt(slot)
     IN IF slot \in ToSet(fBulkUseToken[current])
        THEN UNCHANGED <<plot, fPlotList, fBulkUseToken>>
        ELSE /\ plot' = [plot EXCEPT ![p].lastUse = NextDrawToken]
             /\ fPlotList' = [fPlotList EXCEPT ![slot[1]] = MadeMRU(@, <<p>>)]
             /\ Tags(slot)
  /\ placed' = placed + 1
  /\ UNCHANGED <<fNumActivePages, fGeneration, fAtlasGeneration, fPrevFlushToken, tokenVars,
                 uploadVars, fDraws, texture, locator, subRunGeneration, texCoords, broken,
                 pc, current, begin, quads, left, giveUpVars>>

(* ... or that is added to it.                                             *)
AddToAtlas(g) == Share(g) \/ Activate(g) \/ EvictFlushed(g) \/ Replace(g)

PlaceNew ==
  /\ pc = "placing" /\ placed < Len(GlyphsOf[current]) /\ ~HasGlyph
  /\ AddToAtlas(NextGlyph)
  /\ placed' = placed + 1
  /\ UNCHANGED <<fPrevFlushToken, tokenVars, fDraws, texture, subRunGeneration, texCoords, broken,
                 pc, current, begin, quads, left, giveUpVars>>

(* updateTexCoords() of what has been placed, and its quads.               *)
NewCoords ==
  [i \in DOMAIN GlyphsOf[current] |->
     IF i \in begin + 1 .. placed THEN locator[GlyphsOf[current][i]] ELSE texCoords[current][i]]

NewQuads == quads \union Quads(current, NewCoords, begin, placed, TRUE)

(* Mutant: the glyphs that were placed wait for the rest. *)
StopWithoutDraw ==
  /\ pc = "placing" /\ placed < Len(GlyphsOf[current]) /\ ~HasGlyph /\ Full
  /\ texCoords' = [texCoords EXCEPT ![current] = NewCoords]
  /\ quads' = NewQuads
  /\ broken' = IF placed > 0 THEN broken \union {current} ELSE broken
  /\ pc' = "again"
  /\ UNCHANGED <<atlasVars, fPrevFlushToken, tokenVars, fDraws, uploadVars, texture, locator,
                 subRunGeneration, fBulkUseToken, current, begin, placed, left, giveUpVars>>

(* There is no room while this draw is not recorded: it is, and the rest   *)
(* of the subrun goes into another one.                                    *)
Stop ==
  /\ pc = "placing" /\ placed < Len(GlyphsOf[current]) /\ ~HasGlyph /\ Full
  /\ texCoords' = [texCoords EXCEPT ![current] = NewCoords]
  /\ CreateDraw(NewQuads) /\ quads' = {}
  /\ broken' = IF placed > 0 THEN broken \union {current} ELSE broken
  /\ pc' = "again"
  /\ UNCHANGED <<atlasVars, fPrevFlushToken, uploadVars, texture, locator,
                 subRunGeneration, fBulkUseToken, current, begin, placed, left, giveUpVars>>

(* "There was a problem allocating the glyph in the atlas. Bail.": the     *)
(* glyph has no image, or addToAtlas() returns kError, which takes the     *)
(* coordinates of what has been placed. The op records no draw of what it  *)
(* has, but the plots are tagged and the uploads scheduled for it.         *)
Bail ==
  /\ pc = "placing" /\ placed < Len(GlyphsOf[current]) /\ ~HasGlyph /\ left.bails > 0
  /\ texCoords' \in {texCoords, [texCoords EXCEPT ![current] = NewCoords]}
  /\ gaveUp' = NextDrawToken /\ left' = [left EXCEPT !.bails = @ - 1]
  /\ quads' = {}
  /\ pc' = "idle" /\ current' = None /\ begin' = 0 /\ placed' = 0
  /\ UNCHANGED <<atlasVars, fPrevFlushToken, tokenVars, uploadVars, fDraws, texture, locator,
                 subRunGeneration, fBulkUseToken, broken, lapsed>>

(* All glyphs are placed: "Need to get the freshest value of the atlas'    *)
(* generation because updateTextureCoordinates may have changed it."       *)
Finish ==
  /\ pc = "placing" /\ placed = Len(GlyphsOf[current])
  /\ texCoords' = [texCoords EXCEPT ![current] = NewCoords]
  /\ quads' = NewQuads
  /\ subRunGeneration' = [subRunGeneration EXCEPT ![current] = fAtlasGeneration]
  /\ broken' = IF begin = 0 THEN broken \ {current} ELSE broken
  /\ pc' = "op"
  /\ UNCHANGED <<atlasVars, fPrevFlushToken, tokenVars, uploadVars, fDraws, texture, locator,
                 fBulkUseToken, current, begin, placed, left, giveUpVars>>

EndOp ==
  /\ pc = "op"
  /\ CreateDraw(quads) /\ quads' = {}
  /\ pc' = "idle" /\ current' = None /\ begin' = 0 /\ placed' = 0
  /\ UNCHANGED <<atlasVars, fPrevFlushToken, uploadVars, texture, locator, blobVars, left,
                 giveUpVars>>

(* An op without text. *)
OtherDraw ==
  /\ pc = "idle" /\ left.subRuns > 0
  /\ RecordDraw({})
  /\ left' = [left EXCEPT !.subRuns = @ - 1]
  /\ UNCHANGED <<atlasVars, fPrevFlushToken, uploadVars, texture, locator, blobVars, opVars, quads,
                 giveUpVars>>
-----------------------------------------------------------------------------
(* executeRenderTasks(), of the tasks that have been prepared.             *)
PreExecute ==
  /\ pc = "idle"
  /\ pc' = "execute"
  /\ UNCHANGED <<atlasVars, fPrevFlushToken, tokenVars, uploadVars, fDraws, texture, locator,
                 blobVars, current, begin, placed, quads, left, giveUpVars>>

(* uploadToTexture(): what has been added since the last upload.           *)
UploadToTexture(p, pending) ==
  /\ texture' = [texture EXCEPT ![Slot(p)] =
       [i \in 1 .. Room |->
          IF i \in plot[p].clean + 1 .. Len(plot[p].glyphs) THEN plot[p].glyphs[i] ELSE @[i]]]
  /\ plot' = [plot EXCEPT ![p] =
       IF p \in Listed \union pending THEN [plot[p] EXCEPT !.clean = Len(plot[p].glyphs)] ELSE None]

executeUnchanged == <<fPlotList, fNumActivePages, fGeneration, fAtlasGeneration, fPrevFlushToken,
                      fLastIssuedToken, locator, blobVars, opVars, quads, left, giveUpVars>>

(* preExecuteDraws() *)
ASAPUpload ==
  /\ pc = "execute" /\ fASAPUploads # <<>>
  /\ fASAPUploads' = Tail(fASAPUploads)
  /\ UploadToTexture(Head(fASAPUploads), Scheduled(Tail(fASAPUploads), fInlineUploads))
  /\ UNCHANGED <<fInlineUploads, fDraws, fLastFlushedToken, executeUnchanged>>

InlineIsDue == fInlineUploads # <<>> /\ Head(fInlineUploads).before = NextTokenToFlush

(* executeDrawsAndUploadsForMeshDrawOp() *)
InlineUpload ==
  /\ pc = "execute" /\ fASAPUploads = <<>> /\ fDraws # <<>> /\ InlineIsDue
  /\ fInlineUploads' = Tail(fInlineUploads)
  /\ UploadToTexture(Head(fInlineUploads).plot, Scheduled(<<>>, Tail(fInlineUploads)))
  /\ UNCHANGED <<fASAPUploads, fDraws, fLastFlushedToken, executeUnchanged>>

Draw ==
  /\ pc = "execute" /\ fASAPUploads = <<>> /\ fDraws # <<>> /\ ~InlineIsDue
  /\ fDraws' = Tail(fDraws)
  /\ fLastFlushedToken' = NextTokenToFlush
  /\ UNCHANGED <<plot, uploadVars, texture, executeUnchanged>>

Executed == pc = "execute" /\ fASAPUploads = <<>> /\ fDraws = <<>>

(* Plots with an upload that is not done, or that is done and yet passes   *)
(* for scheduled: its draw was not among those executed.                   *)
Lapsing == {p \in Listed : p \in Pending \/ UploadIsScheduled(plot[p])}

(* reset() forgets what uploads are left (where assertions are compiled it *)
(* stops), and history notes the plots.                                    *)
Reset ==
  /\ fInlineUploads' = <<>>
  /\ lapsed' = lapsed \union {plot[p].gen : p \in Lapsing}
  /\ UNCHANGED <<fASAPUploads, gaveUp>>

(* Then there may be more tasks to prepare and execute, in the same flush. *)
MoreTasks ==
  /\ Executed /\ left.subRuns > 0
  /\ Reset
  /\ pc' = "idle"
  /\ UNCHANGED <<atlasVars, fPrevFlushToken, tokenVars, fDraws, texture, locator,
                 blobVars, current, begin, placed, quads, left>>
-----------------------------------------------------------------------------
(* compact(), after the flush. *)
UsedThisFlush(p) == plot[p].lastUse \in fPrevFlushToken .. NextTokenToFlush
LastPage == fNumActivePages
ActivePlots == UNION {ToSet(fPlotList[page]) : page \in Active}

(* How many flushes that used the atlas went by since each plot was used.  *)
Idle(p) == IF UsedThisFlush(p) THEN 0 ELSE plot[p].idle + 1
Recent(p) == Idle(p) <= RecentlyUsedCount

LastPlots == ToSet(fPlotList[LastPage])
AgedInLastPage == {p \in LastPlots : ~Recent(p) /\ plot[p].lastUse # AlreadyFlushed}
RecentInLastPage == {p \in LastPlots : Recent(p)}

(* The plots of the other pages that are no longer used. *)
Available == {p \in ActivePlots \ LastPlots : ~Recent(p)}

(* The plots are gone through page by page, in the order of the lists. *)
Position(p) == CHOOSE i \in Indexes : fPlotList[plot[p].page][i] = p
Before(p, q) ==
  \/ plot[p].page < plot[q].page
  \/ plot[p].page = plot[q].page /\ Position(p) < Position(q)

(* How many plots of the last page are moved to others: evicted, so that   *)
(* they are added there when they are next used.                           *)
Moves ==
  LET used == Cardinality(RecentInLastPage)
  IN IF used <= NumPlots \div CompactDivisor THEN Min({used, Cardinality(Available)}) ELSE 0

MovedOut ==
  {p \in RecentInLastPage : Cardinality({q \in RecentInLastPage : Before(q, p)}) < Moves}
MadeRoom ==
  {p \in Available : Cardinality({q \in Available : Before(p, q)}) < Moves}

CompactEvicts == AgedInLastPage \union MovedOut \union MadeRoom
Deactivates == Cardinality(RecentInLastPage) = Moves

(* Each eviction, and each plot of a page that is given up, takes          *)
(* generations; which of them it takes does not matter.                    *)
Compact ==
  IF fNumActivePages <= 1 \/ \A p \in ActivePlots : ~UsedThisFlush(p)
  THEN UNCHANGED <<plot, fPlotList, fNumActivePages, fGeneration, fAtlasGeneration, texture>>
  ELSE
    LET evicted == CompactEvicts
        given == IF Deactivates THEN LastPlots ELSE {}
    IN /\ plot' = [p \in PlotObjects |->
            IF p \in evicted \union given
            THEN [ResetRects(plot[p], fGeneration + p) EXCEPT
                    !.idle = IF p \in given THEN 0 ELSE Idle(p)]
            ELSE IF p \in ActivePlots THEN [plot[p] EXCEPT !.idle = Idle(p)] ELSE plot[p]]
       /\ fGeneration' = fGeneration + MaxPlots + 1
       /\ fAtlasGeneration' = IF evicted = {} THEN fAtlasGeneration ELSE fGeneration
       /\ IF Deactivates
          THEN /\ fNumActivePages' = fNumActivePages - 1
               /\ fPlotList' = [fPlotList EXCEPT ![LastPage] =
                    [i \in Indexes |-> PlotAt(<<LastPage, NumPlots + 1 - i>>)]]
               /\ texture' = [slot \in Slots |->
                    IF slot[1] = LastPage THEN [i \in 1 .. Room |-> None] ELSE texture[slot]]
          ELSE UNCHANGED <<fNumActivePages, fPlotList, texture>>

PostFlush ==
  /\ Executed /\ left.flushes > 0
  /\ Reset /\ Compact
  /\ fPrevFlushToken' = NextTokenToFlush
  /\ left' = [left EXCEPT !.subRuns = MaxSubRuns, !.flushes = @ - 1]
  /\ pc' = "idle"
  /\ UNCHANGED <<tokenVars, fDraws, locator, blobVars, current, begin, placed, quads>>

(* The ops go on with what they have begun. *)
OpStep == Again \/ PlaceKnown \/ PlaceNew \/ Stop \/ Bail \/ Finish

Next ==
  \/ \E s \in SubRuns : NextSubRun(s)
  \/ OpStep \/ EndOp \/ OtherDraw
  \/ PreExecute \/ ASAPUpload \/ InlineUpload \/ Draw \/ MoreTasks \/ PostFlush

Spec == Init /\ [][Next]_vars /\ WF_vars(OpStep)
-----------------------------------------------------------------------------
AtlasTypeOK ==
  /\ fNumActivePages \in 0 .. MaxPages
  /\ \A page \in Pages : IsInjective(fPlotList[page]) /\ Len(fPlotList[page]) = NumPlots
  /\ fLastFlushedToken <= fLastIssuedToken
  /\ locator \in [Glyphs -> {None} \union
       [page : Pages, index : Indexes, gen : 1 .. fGeneration, at : 1 .. Room]]
  /\ \A p \in Listed : plot[p].gen < fGeneration

ReadsRight(quad) == texture[<<quad.loc.page, quad.loc.index>>][quad.loc.at] = quad.glyph

(* What a draw samples when it is executed is the glyphs it was made for:  *)
(* no upload before it has taken their place (an eviction of a plot that a *)
(* draw still reads must be an inline upload after it), and theirs were    *)
(* not forgotten (an update must not piggyback on an upload that is done). *)
(* Excepted are subruns drawn as they are after they were regenerated in   *)
(* several parts, see DrawsReadTheirGlyphs, and plots with an upload that  *)
(* lapsed, see UploadsAreUsed (addToAtlas, updatePlot, regenerate).        *)
WholeSubRunsReadRight ==
  pc = "execute" /\ fASAPUploads = <<>> /\ fDraws # <<>> /\ ~InlineIsDue =>
    \A quad \in Head(fDraws) : quad.whole => ReadsRight(quad)

(* The same of every draw: "The atlas hasn't changed, so our texture       *)
(* coordinates are still valid." (GrTextBlob.cpp:835)                      *)
DrawsReadTheirGlyphs ==
  pc = "execute" /\ fASAPUploads = <<>> /\ fDraws # <<>> /\ ~InlineIsDue =>
    \A quad \in Head(fDraws) : ReadsRight(quad)

(* A subrun that has the generation of the atlas has the coordinates its   *)
(* glyphs have in the atlas, and the plots it tags are theirs: whatever    *)
(* evicts, compact() and deactivateLastPage() included, changes the        *)
(* generation when it takes a glyph away (processEviction()). With the     *)
(* types.                                                                  *)
GenerationTells ==
  /\ AtlasTypeOK
  /\ \A s \in SubRuns \ broken : subRunGeneration[s] = fAtlasGeneration =>
       \A i \in DOMAIN GlyphsOf[s] :
         /\ texCoords[s][i] = locator[GlyphsOf[s][i]]
         /\ HasID(texCoords[s][i])
         /\ <<texCoords[s][i].page, texCoords[s][i].index>> \in ToSet(fBulkUseToken[s])

(* "We should only be issuing uploads if we are in fact dirty", and an     *)
(* inline upload precedes a draw: when the op it was made for has ended,   *)
(* that draw is recorded, and when all draws are flushed no upload is left *)
(* (as GrOpFlushState::reset() asserts) or passes for one that is          *)
(* scheduled (as updatePlot() takes it). The one exception, of both: an op *)
(* gave up that draw, and no other has been recorded in its place.         *)
UploadsAreUsed ==
  /\ \A p \in Pending : plot[p] # None /\ plot[p].clean < Len(plot[p].glyphs)
  /\ pc \in {"idle", "execute"} =>
       \A i \in DOMAIN fInlineUploads :
         /\ fInlineUploads[i].before \in NextTokenToFlush .. NextDrawToken
         /\ fInlineUploads[i].before = NextDrawToken => gaveUp = NextDrawToken
  /\ Executed =>
       /\ NextDrawToken = NextTokenToFlush
       /\ fInlineUploads # <<>> \/ Lapsing # {} => gaveUp = NextDrawToken

(* An op that has begun a subrun gets through with it or gives up:         *)
(* kTryAgain does not come again for ever, since the draw it makes the op  *)
(* record frees what the draw reads ("This gives the op a chance to        *)
(* enqueue the draw, and call back into this function.",                   *)
(* GrDrawOpAtlas.cpp:371). It may when an op before has given up the next  *)
(* draw: the plots are tagged for it, and this op may have nothing to draw.*)
SubRunsEnd ==
  pc \in {"placing", "again"} /\ gaveUp # NextDrawToken ~> pc \in {"op", "idle"}
=============================================================================
