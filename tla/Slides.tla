------------------------------- MODULE Slides -------------------------------
(***************************************************************************)
(* What a viewer sees of a presented file (presentation.js): show() and    *)
(* page flips start renders, which run concurrently on one canvas, load    *)
(* documents through a one-document cache and are told stale by a          *)
(* generation counter.  The view is visible while a file is shown.         *)
(***************************************************************************)
EXTENDS Naturals, Sequences, FiniteSets

CONSTANTS
  SlideFiles,    \* files that may be presented
  FileKind,      \* [SlideFiles -> _fileKind]
  NumPages,      \* [SlideFiles -> pages]
  SlidePlans     \* bounds on a behaviour, see slidesLeft

ASSUME SlideAssumption ==
  /\ FileKind \in [SlideFiles -> {"pdf", "image", "other"}]
  /\ NumPages \in [SlideFiles -> Nat \ {0}]
  /\ SlidePlans \subseteq [files : SUBSET SlideFiles, shows : Nat, flips : Nat, fails : Nat]

VARIABLES
  slide,       \* fileId and page
  renderGen,   \* _renderGen
  renders,     \* renderCurrent calls at an await
  pdfCache,    \* the document in _pdfCache, 0 for none
  pdfLoading,  \* the document of _pdfLoading, 0 for none
  docs,        \* the documents asked for
  canvas,      \* what was drawn last
  panel,       \* the panel that covers the canvas, by what brought it up
  overdrawn,   \* history: the image was drawn under a page that was still being painted
  amid,        \* history: what was under way when the latest render began
  failed,      \* history: files that failed to load since
  slidesLeft   \* files to show, pages to flip and loads to fail

slideVars == <<slide, renderGen, renders, pdfCache, pdfLoading, docs, canvas, panel, overdrawn,
               amid, failed, slidesLeft>>

Nothing == [file |-> "none", page |-> 1]
Drawing == [file : SlideFiles \cup {"none"}, page : Nat \ {0}]
Render  == [gen : Nat, file : SlideFiles, doc : Nat, page : Nat \ {0},
            at : {"load", "getPage", "paint", "decode"}]
Doc     == [file : SlideFiles, state : {"loading", "ready", "failed", "destroyed"}]

\* The download panel of a file that cannot be shown, and the failure panel after a load
\* that failed, a document that was destroyed and a canvas that PDF.js refused.
Panel   == {"none", "download", "failed", "destroyed", "refused"}

\* No promise callback is due: those run before the next event or message.
Settled == \A r \in renders : r.at = "load" => docs[r.doc].state = "loading"

-----------------------------------------------------------------------------
(* Starting a render.                                                      *)

\* The document a render of f waits for: the cached one, or the one being loaded.
DocFor(f) ==
  {n \in {pdfCache, pdfLoading} \ {0} :
     docs[n].file = f /\ (n = pdfCache \/ pdfCache = 0 \/ docs[pdfCache].file # f)}

Starts(f, n, at) ==
  renders' = renders \cup {[gen |-> renderGen + 1, file |-> f, doc |-> n, page |-> 1, at |-> at]}

\* _loadPdfDoc up to its await: single-flight for one file.
_loadPdfDoc(f) ==
  \/ /\ \E n \in DocFor(f) : Starts(f, n, "load")
     /\ UNCHANGED <<docs, pdfLoading>>
  \/ /\ DocFor(f) = {}
     /\ docs' = Append(docs, [file |-> f, state |-> "loading"])
     /\ pdfLoading' = Len(docs')
     /\ Starts(f, Len(docs) + 1, "load")

\* _renderImage sets the page to 1 before its await.
PageOf(f, p) == IF FileKind[f] = "image" THEN 1 ELSE p

Painting == \E o \in renders : o.at = "paint"

LoadsOther(f) == \E n \in DOMAIN docs : docs[n].state = "loading" /\ docs[n].file # f

renderCurrent(f) ==
  /\ renderGen' = renderGen + 1
  /\ overdrawn' = FALSE /\ failed' = {}
  /\ amid' = { s \in {"paint", "load"} : IF s = "paint" THEN Painting ELSE LoadsOther(f) }
  /\ panel' = IF FileKind[f] = "other" THEN "download" ELSE "none"
  /\ \/ FileKind[f] = "other" /\ UNCHANGED <<renders, docs, pdfLoading>>
     \/ FileKind[f] = "image" /\ Starts(f, 0, "decode") /\ UNCHANGED <<docs, pdfLoading>>
     \/ FileKind[f] = "pdf" /\ _loadPdfDoc(f)
  /\ UNCHANGED <<pdfCache, canvas>>

\* presentation_changed with a file.
show(f, p) ==
  /\ Settled
  /\ slidesLeft.shows > 0 /\ f \in slidesLeft.files
  /\ slidesLeft' = [slidesLeft EXCEPT !.shows = @ - 1]
  /\ slide' = [file |-> f, page |-> PageOf(f, p)]
  /\ renderCurrent(f)

\* presentation_changed without: what is being rendered goes on.
hide ==
  /\ Settled
  /\ slide.file # "none"
  /\ slide' = [slide EXCEPT !.file = "none"]
  /\ UNCHANGED <<renderGen, renders, pdfCache, pdfLoading, docs, canvas, panel, overdrawn,
                 amid, failed, slidesLeft>>

\* The viewer flips the page, or the view changes its size.
showLocalPage(p) ==
  /\ Settled
  /\ slide.file # "none"
  /\ slidesLeft.flips > 0
  /\ slidesLeft' = [slidesLeft EXCEPT !.flips = @ - 1]
  /\ slide' = [slide EXCEPT !.page = PageOf(slide.file, p)]
  /\ renderCurrent(slide.file)

-----------------------------------------------------------------------------
(* What renders and loads do later.                                        *)

\* The document replaces the cached one; one of another file is destroyed.
LoadReady(n) ==
  /\ Settled
  /\ docs[n].state = "loading"
  /\ docs' = [m \in DOMAIN docs |->
       CASE m = n -> [docs[m] EXCEPT !.state = "ready"]
         [] m # n /\ m = pdfCache /\ docs[m].file # docs[n].file -> [docs[m] EXCEPT !.state = "destroyed"]
         [] OTHER -> docs[m]]
  /\ pdfCache' = n
  /\ pdfLoading' = IF pdfLoading # 0 /\ docs[pdfLoading].file = docs[n].file THEN 0 ELSE pdfLoading
  /\ UNCHANGED <<slide, renderGen, renders, canvas, panel, overdrawn, amid, failed, slidesLeft>>

LoadFails(n) ==
  /\ Settled
  /\ docs[n].state = "loading"
  /\ slidesLeft.fails > 0
  /\ slidesLeft' = [slidesLeft EXCEPT !.fails = @ - 1]
  /\ docs' = [docs EXCEPT ![n].state = "failed"]
  /\ failed' = failed \cup {docs[n].file}
  /\ pdfLoading' = IF pdfLoading # 0 /\ docs[pdfLoading].file = docs[n].file THEN 0 ELSE pdfLoading
  /\ UNCHANGED <<slide, renderGen, renders, pdfCache, canvas, panel, overdrawn, amid>>

Stale(r) == r.gen # renderGen

\* The end of a render, with the panel its error would bring up, or "none": an error counts
\* if the render is not stale.  (mutant: the catch does not ask)
EndsLoudly(r, error) ==
  /\ renders' = renders \ {r}
  /\ panel' = IF error = "none" THEN panel ELSE error

Ends(r, error) ==
  /\ renders' = renders \ {r}
  /\ panel' = IF error = "none" \/ Stale(r) THEN panel ELSE error

\* _renderPdfPage with its document: a stale render stops, the page is clamped.
HasDoc(r) ==
  LET page == IF slide.page > NumPages[r.file] THEN NumPages[r.file] ELSE slide.page IN
  /\ r.at = "load" /\ docs[r.doc].state # "loading"
  /\ IF docs[r.doc].state = "failed" \/ Stale(r)
       THEN /\ Ends(r, IF docs[r.doc].state = "failed" THEN "failed" ELSE "none")
            /\ UNCHANGED slide
       ELSE /\ renders' = (renders \ {r}) \cup {[r EXCEPT !.at = "getPage", !.page = page]}
            /\ slide' = [slide EXCEPT !.page = page]
            /\ UNCHANGED panel
  /\ UNCHANGED <<renderGen, pdfCache, pdfLoading, docs, canvas, overdrawn, amid, failed,
                 slidesLeft>>

\* page.render starts; PDF.js refuses a destroyed document, and a canvas that
\* another render is still drawing on.
HasPage(r) ==
  /\ Settled /\ r.at = "getPage"
  /\ CASE docs[r.doc].state = "destroyed" -> Ends(r, "destroyed")
       [] docs[r.doc].state # "destroyed" /\ Stale(r) -> Ends(r, "none")
       [] docs[r.doc].state # "destroyed" /\ ~Stale(r) /\ Painting -> Ends(r, "refused")
       [] OTHER -> /\ renders' = (renders \ {r}) \cup {[r EXCEPT !.at = "paint"]}
                   /\ UNCHANGED panel
  /\ UNCHANGED <<slide, renderGen, pdfCache, pdfLoading, docs, canvas, overdrawn, amid, failed,
                 slidesLeft>>

\* Once painting, a render goes on to the end, stale or not.
Painted(r) ==
  /\ Settled /\ r.at = "paint"
  /\ IF docs[r.doc].state = "destroyed"
       THEN Ends(r, "destroyed") /\ UNCHANGED canvas
       ELSE Ends(r, "none") /\ canvas' = [file |-> r.file, page |-> r.page]
  /\ UNCHANGED <<slide, renderGen, pdfCache, pdfLoading, docs, overdrawn, amid, failed, slidesLeft>>

\* _renderImage: drawn at once when the image has been decoded, whoever else is painting.
Decoded(r) ==
  /\ Settled /\ r.at = "decode"
  /\ IF Stale(r)
       THEN UNCHANGED <<canvas, overdrawn>>
       ELSE /\ canvas' = [file |-> r.file, page |-> 1]
            /\ overdrawn' = Painting
  /\ Ends(r, "none")
  /\ UNCHANGED <<slide, renderGen, pdfCache, pdfLoading, docs, amid, failed, slidesLeft>>

DecodeFails(r) ==
  /\ Settled /\ r.at = "decode"
  /\ slidesLeft.fails > 0
  /\ slidesLeft' = [slidesLeft EXCEPT !.fails = @ - 1]
  /\ failed' = failed \cup {r.file}
  /\ Ends(r, "failed")
  /\ UNCHANGED <<slide, renderGen, pdfCache, pdfLoading, docs, canvas, overdrawn, amid>>

-----------------------------------------------------------------------------
SlideInit ==
  /\ slide = Nothing /\ canvas = Nothing
  /\ renderGen = 0 /\ renders = {}
  /\ pdfCache = 0 /\ pdfLoading = 0 /\ docs = <<>>
  /\ panel = "none" /\ overdrawn = FALSE /\ amid = {} /\ failed = {}
  /\ slidesLeft \in SlidePlans

SlideNext ==
  \/ \E f \in SlideFiles, p \in 1..2 : show(f, p)
  \/ hide
  \/ \E p \in 1..2 : showLocalPage(p)
  \/ \E n \in DOMAIN docs : LoadReady(n) \/ LoadFails(n)
  \/ \E r \in renders : HasDoc(r) \/ HasPage(r) \/ Painted(r) \/ Decoded(r) \/ DecodeFails(r)

SlideSpec == SlideInit /\ [][SlideNext]_slideVars

-----------------------------------------------------------------------------
(* Properties.                                                             *)

SlideTypeOK ==
  /\ slide \in Drawing /\ canvas \in Drawing
  /\ renders \subseteq Render
  /\ panel \in Panel /\ amid \subseteq {"paint", "load"} /\ failed \subseteq SlideFiles
  /\ docs \in Seq(Doc) /\ {pdfCache, pdfLoading} \subseteq 0..Len(docs)
  /\ pdfCache # 0 => docs[pdfCache].state = "ready"

\* "flash the error fallback over a perfectly good newer render.  Stale renders abort
\* silently" (renderCurrent): however documents arrive and renders overtake each other, when
\* all is done the viewer sees the page it is told, or the panel of a file that cannot be
\* shown or has failed to load since the latest render began.  The code breaks this in two
\* ways, which need something that was under way when that render began: a file that was
\* still loading replaces its document and destroys it; and a page that was already being
\* painted makes PDF.js refuse the canvas, or paints over an image.
SlideShown ==
  renders = {} /\ slide.file # "none" =>
    /\ panel = "download" <=> FileKind[slide.file] = "other"
    /\ panel = "failed" => slide.file \in failed
    /\ panel = "destroyed" => "load" \in amid
    /\ panel = "refused" \/ overdrawn => "paint" \in amid
    /\ panel = "none" /\ ~overdrawn => canvas = slide
=============================================================================
