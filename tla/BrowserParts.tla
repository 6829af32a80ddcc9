---------------------------- MODULE BrowserParts ----------------------------
(***************************************************************************)
(* Parts of the browser that share nothing with one another: local drafts, *)
(* the campaign graph, the rich editor's documents and add-on links.  Each *)
(* behaviour is one of one part; together the parts would do no more than  *)
(* interleave.                                                             *)
(***************************************************************************)
EXTENDS MarkdownDrafts, GraphCanvas, RichWriter, AddonLinks

CONSTANT Parts   \* of "drafts", "graph", "writer" and "links"

VARIABLE part    \* the part that this behaviour is about

partVars == <<part, draftVars, canvas, writer, linkVars>>

PartsInit ==
    /\ part \in Parts
    /\ DraftsInit /\ CanvasInit /\ WriterInit /\ LinksInit
    /\ part = "drafts" \/ store = {}
    /\ part = "writer" \/ writer.value = <<Authored(CHOOSE w \in Words : TRUE)>>

PartsNext ==
    /\ UNCHANGED part
    /\ \/ part = "drafts" /\ DraftsNext /\ UNCHANGED <<canvas, writer, linkVars>>
       \/ part = "graph" /\ CanvasNext /\ UNCHANGED <<draftVars, writer, linkVars>>
       \/ part = "writer" /\ WriterNext /\ UNCHANGED <<draftVars, canvas, linkVars>>
       \/ part = "links" /\ LinksNext /\ UNCHANGED <<draftVars, canvas, writer>>

PartsSpec == PartsInit /\ [][PartsNext]_partVars

=============================================================================
