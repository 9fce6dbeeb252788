------------------------- MODULE StylesheetImports -------------------------
(***************************************************************************)
(* The expansion of @import in the sheets of a document                    *)
(* (raikiri-html/import.rs, with the sheets of raikiri-html/parse.rs) by   *)
(* one thread, on top of the policy-checked fetches of ResourceFetch.      *)
(*                                                                         *)
(* The text of a sheet is a sequence of items of one byte: text, an import *)
(* that is never requested (its URL does not resolve, is too long, carries *)
(* credentials or a script) included, and imports with the bytes of their  *)
(* media condition.  Making URLs absolute changes the size of a text, so   *)
(* the items of a response are independent of its bytes.                   *)
(***************************************************************************)
EXTENDS ResourceFetch, Sequences, FiniteSetsExt

CONSTANTS
  Parser,          \* the thread that expands
  Contents,        \* texts of sheets
  ImportDepth,     \* max_import_depth under each policy, and without one
  MaxFetches,      \* MAX_IMPORT_FETCHES
  ResponseLimit,   \* MAX_IMPORT_RESPONSE_BYTES_TOTAL
  ExpansionLimit   \* MAX_IMPORT_EXPANSION_BYTES

Items == [url : Urls \cup {None}, media : Nat]

ASSUME ImportAssumption ==
  /\ Parser \in Threads
  /\ Contents \subseteq Seq(Items) /\ <<>> \notin Contents
  /\ ImportDepth \in [Policies \cup {None} -> Nat]
  /\ MaxFetches \in Nat /\ ResponseLimit \in Nat /\ ExpansionLimit \in Nat
  /\ None \notin Urls /\ 0 \notin Sizes

VARIABLES
  frames,     \* the calls of ImportExpander::expand, the innermost first
  spent,      \* ImportBudget
  introduced  \* bytes of imports in the sheets that are done (for the properties)

importVars == <<frames, spent, introduced>>

allVars == <<vars, importVars>>

Unspent == [fetches |-> 0, responses |-> 0, expansion |-> 0]

\* The expansion of one sheet: the URLs it was requested and fetched from,
\* None for an inline sheet; the items left; of the parts that exist, their
\* number, their bytes and those of them that imports introduced; and whether
\* text is pending for one more part.
Frames == [asked : Urls \cup {None}, url : Urls \cup {None}, left : Seq(Items),
           parts : Nat, bytes : Nat, introduced : Nat, pending : BOOLEAN]

Top == Head(frames)

Outer == Tail(frames)

----------------------------------------------------------------------------
(* The expansion of one sheet. *)

\* A sheet as deep as imports may go is one part, imports and all.
Opened(asked, url, items, depth) ==
  LET deep == depth >= ImportDepth[policy]
  IN  [asked |-> asked, url |-> url, left |-> IF deep THEN <<>> ELSE items,
       parts |-> 0, bytes |-> IF deep THEN Len(items) ELSE 0, introduced |-> 0,
       pending |-> deep]

\* The next item is copied as it stands.
KeptIn(frame) ==
  [frame EXCEPT !.left = Tail(@), !.bytes = @ + 1, !.pending = TRUE]

Kept == <<KeptIn(Top)>> \o Outer

PartsOf(frame) == frame.parts + IF frame.pending THEN 1 ELSE 0

\* The parts of a child, each with the media condition of the import.
SpliceInto(frame, child) ==
  LET added == child.bytes + Head(frame.left).media * PartsOf(child)
  IN  [frame EXCEPT !.left = Tail(@), !.bytes = @ + added, !.introduced = @ + added,
                    !.parts = PartsOf(frame) + PartsOf(child), !.pending = FALSE]

\* Mutant: the condition of an import is charged once for all the parts.
CostOfOneCondition(frame, child) == child.bytes + Head(frame.left).media

\* What charge_expansion asks of the budget for a child.
Cost(frame, child) == child.bytes + Head(frame.left).media * PartsOf(child)

\* Mutant: the URL a response came from is not remembered.
ChainAsked == {frames[i].asked : i \in DOMAIN frames}

\* The import chain: a linked sheet is on it with its final URL.
Chain == UNION {{frames[i].asked, frames[i].url} : i \in DOMAIN frames}

Requestable(url) ==
  /\ url # None /\ url \notin Chain
  /\ spent.fetches < MaxFetches
  /\ spent.responses < ResponseLimit
  /\ spent.expansion < ExpansionLimit

----------------------------------------------------------------------------
(* The steps of the expanding thread. *)

ImportInit == Init /\ frames = <<>> /\ spent = Unspent /\ introduced = 0

\* Another document, or other live <style> elements.
RenewBudget ==
  /\ frames = <<>> /\ fetch[Parser] = None /\ spent # Unspent
  /\ spent' = Unspent /\ introduced' = 0
  /\ UNCHANGED <<vars, frames>>

\* A sheet of the embedder's, or of a <style> element.
ExpandInline ==
  /\ frames = <<>> /\ fetch[Parser] = None
  /\ \E items \in Contents : frames' = <<Opened(None, None, items, 0)>>
  /\ UNCHANGED <<vars, spent, introduced>>

\* The sheet of a <link> arrives, without credentials in its URL.
LinkArrives ==
  /\ frames = <<>> /\ ReceiveBody(Parser) /\ delivered' # delivered
  /\ fetch[Parser].via = "adapter"
  /\ LET url == fetch[Parser].current.url
     IN  \E items \in Contents : frames' = <<Opened(url, url, items, 0)>>
  /\ UNCHANGED <<spent, introduced>>

\* Text, or an import that the chain or the budget forbids.
CopyItem ==
  /\ frames # <<>> /\ fetch[Parser] = None
  /\ Top.left # <<>> /\ ~Requestable(Head(Top.left).url)
  /\ frames' = Kept
  /\ UNCHANGED <<vars, spent, introduced>>

RequestImport ==
  /\ frames # <<>> /\ fetch[Parser] = None
  /\ Top.left # <<>> /\ Requestable(Head(Top.left).url)
  /\ spent' = [spent EXCEPT !.fetches = @ + 1]
  /\ FetchFrom(Parser, Head(Top.left).url)
  /\ frames' = IF Denied(Head(Top.left).url) THEN Kept ELSE frames
  /\ UNCHANGED introduced

\* The response exhausts its budget when it does not fit, may be refused for
\* its size, type or URL, and is not expanded inside itself.
ImportArrives ==
  /\ frames # <<>> /\ ReceiveBody(Parser) /\ delivered' # delivered
  /\ LET total == spent.responses + (delivered' - delivered)
         asked == Head(Top.left).url
         url   == fetch[Parser].current.url
     IN  /\ spent' = [spent EXCEPT !.responses =
                        IF total > ResponseLimit THEN ResponseLimit ELSE total]
         /\ \/ frames' = Kept
            \/ /\ total <= ResponseLimit /\ url \notin Chain
               /\ \E items \in Contents :
                    frames' = <<Opened(asked, url, items, Len(frames))>> \o frames
  /\ UNCHANGED introduced

ImportRedirected ==
  /\ frames # <<>> /\ ReceiveRedirect(Parser)
  /\ frames' = IF fetch'[Parser] = None THEN Kept ELSE frames
  /\ UNCHANGED <<spent, introduced>>

ImportFails ==
  /\ frames # <<>>
  /\ ProviderFails(Parser) \/ (ReceiveBody(Parser) /\ delivered' = delivered)
  /\ frames' = Kept
  /\ UNCHANGED <<spent, introduced>>

\* A provider's panic ends the parse.
ImportPanics ==
  /\ frames # <<>> /\ ProviderPanics(Parser)
  /\ frames' = <<>> /\ spent' = Unspent /\ introduced' = 0

\* An imported sheet is done: it takes the place of its import if the budget
\* can take it.
FinishImport ==
  /\ Len(frames) > 1 /\ fetch[Parser] = None /\ Top.left = <<>>
  /\ LET parent == Head(Outer)
         total  == spent.expansion + Cost(parent, Top)
     IN  IF total > ExpansionLimit
         THEN frames' = <<KeptIn(parent)>> \o Tail(Outer) /\ UNCHANGED spent
         ELSE /\ frames' = <<SpliceInto(parent, Top)>> \o Tail(Outer)
              /\ spent' = [spent EXCEPT !.expansion = total]
  /\ UNCHANGED <<vars, introduced>>

FinishRoot ==
  /\ Len(frames) = 1 /\ fetch[Parser] = None /\ Top.left = <<>>
  /\ frames' = <<>> /\ introduced' = introduced + Top.introduced
  /\ UNCHANGED <<vars, spent>>

\* Fetches of other threads, and of this one while it expands nothing.
OtherFetches ==
  /\ \E t \in Threads : (t # Parser \/ frames = <<>>) /\ Step(t)
  /\ UNCHANGED importVars

ImportNext ==
  \/ RenewBudget \/ ExpandInline \/ LinkArrives
  \/ CopyItem \/ RequestImport \/ ImportArrives \/ ImportRedirected \/ ImportFails
  \/ ImportPanics \/ FinishImport \/ FinishRoot \/ OtherFetches

ImportSpec == ImportInit /\ [][ImportNext]_allVars

----------------------------------------------------------------------------
(* Properties. *)

ImportsTypeOK ==
  /\ frames \in Seq(Frames) /\ introduced \in Nat
  /\ spent \in [fetches : 0..MaxFetches, responses : 0..ResponseLimit,
                expansion : 0..ExpansionLimit]

\* The frame of the n-th sheet, the outermost first.
Level(n) == frames[Len(frames) + 1 - n]

\* However sheets import one another, and whatever is refused on the way back
\* up, the text and conditions that imports add to the sheets of one operation
\* were charged before they were added, no deeper than the policy's limit.
ImportsCharged ==
  /\ ImportsTypeOK
  /\ introduced + MapThenSumSet(LAMBDA n : Level(n).introduced, DOMAIN frames)
       <= spent.expansion
  /\ Len(frames) <= ImportDepth[policy] + 1

\* No sheet is expanded inside itself, under the URL it was asked for or the
\* one a redirect led to.
NoSheetInsideItself ==
  \A i, j \in DOMAIN frames : i < j =>
    {frames[i].asked, frames[i].url} \cap {frames[j].asked, frames[j].url} = {}
=============================================================================
