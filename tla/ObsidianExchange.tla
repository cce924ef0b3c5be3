-------------------------- MODULE ObsidianExchange --------------------------
(***************************************************************************)
(* Wiki pages that leave as Markdown files and come back, while they are   *)
(* compiled and edited.                                                    *)
(*                                                                         *)
(* A file names the page, the version it was exported from and that        *)
(* version's checksum.  An import reads the page without a lock, edits it  *)
(* or finds a conflict, and records the outcome in a transaction of its    *)
(* own; edit and record share the idempotency key of the request, which a  *)
(* client repeats when it is not answered.  Imports and edits write one    *)
(* protected section.                                                      *)
(***************************************************************************)
EXTENDS KnowledgeCompile

CONSTANTS
    Imports,   \* import requests, by their idempotency keys
    NoFile

VARIABLES
    files,     \* the Markdown of each request
    drafts,    \* idempotency_records of wiki.edit: the revision of each request, or 0
    imported,  \* obsidian_imports, by request
    visits     \* imports that have read the page

exchangeVars == <<files, drafts, imported, visits>>
allVars == <<vars, exchangeVars>>

-----------------------------------------------------------------------------
\* plain: without frontmatter; foreign: its identifiers or checksum are not those exported
Files  == [kind : {"plain", "genuine", "foreign"}, base : Nat,
           text : Texts \cup {NoText}]
ASSUME NoFileAssumption == NoFile \notin Files

Rows   == [status : {"none", "DRAFT_CREATED", "CONFLICT"}, draft : Nat]
Visits == [of : Imports, at : {"edit", "record"}, read : Nat, row : Rows]

ExchangeTypeOK ==
    /\ files \in [Imports -> Files \cup {NoFile}]
    /\ drafts \in [Imports -> Nat] /\ imported \in [Imports -> Rows]
    /\ visits \subseteq Visits

NoRow == [status |-> "none", draft |-> 0]

ExchangeInit ==
    /\ Init
    /\ files = [k \in Imports |-> NoFile] /\ drafts = [k \in Imports |-> 0]
    /\ imported = [k \in Imports |-> NoRow] /\ visits = {}

-----------------------------------------------------------------------------
\* export_obsidian_page: any version was current, and may have been exported, before.
Exported == DOMAIN page

\* _frontmatter: what people make of a file before they import it; of one that names no
\* version rightly the text does not matter.
Imported == [kind : {"genuine"}, base : Exported, text : Texts]
                \cup [kind : {"plain", "foreign"}, base : {0}, text : {NoText}]

\* mutation: the current version is not compared
Drifted_Never(file) == file.kind = "foreign"
\* The file is not what was exported, or the page has moved on.
Drifted(file) == file.kind = "foreign" \/ file.base # Len(page)

\* How a request goes on from its reading of the page.
Judged(k, file) ==
    LET visit(at, status) ==
            [of |-> k, at |-> at, read |-> Len(page), row |-> [status |-> status, draft |-> 0]]
    IN  IF file.kind = "plain" THEN visit("record", "DRAFT_CREATED")
        ELSE IF Drifted(file) THEN visit("record", "CONFLICT")
        ELSE visit("edit", "none")

\* import_obsidian_markdown, as far as it reads; a repeated request has the same file.
ReadForImport(k, file) ==
    /\ files[k] \in {NoFile, file} /\ Room
    /\ files' = [files EXCEPT ![k] = file]
    /\ visits' = visits \cup {Judged(k, file)}
    /\ edited' = edited + 1
    /\ UNCHANGED <<compileVars, page, edits, drafts, imported>>

Comes(v, draft) ==
    visits' = (visits \ {v}) \cup
        {[v EXCEPT !.at = "record", !.row = [status |-> "DRAFT_CREATED", draft |-> draft]]}

\* edit_wiki_page on behalf of the import, which may find its own edit by the key.
EditImport(v) ==
    LET f == files[v.of]
        e == [read |-> v.read, text |-> f.text]
    IN
    /\ v.at = "edit"
    /\ IF drafts[v.of] # 0
       THEN Comes(v, drafts[v.of]) /\ UNCHANGED <<page, drafts>>
       ELSE /\ Editable(e, f.base)
            /\ page' = Append(page, Edited(e, f.base))
            /\ drafts' = [drafts EXCEPT ![v.of] = Len(page')]
            /\ Comes(v, Len(page'))
    /\ UNCHANGED <<compileVars, editVars, files, imported>>

\* _record_obsidian_import, or what was recorded for the key before
RecordImport(v) ==
    /\ v.at = "record"
    /\ imported' = IF imported[v.of] = NoRow THEN [imported EXCEPT ![v.of] = v.row] ELSE imported
    /\ visits' = visits \ {v}
    /\ UNCHANGED <<vars, files, drafts>>

\* The edit is refused, or the process dies.
LoseImport(v) ==
    /\ visits' = visits \ {v}
    /\ UNCHANGED <<vars, files, drafts, imported>>

-----------------------------------------------------------------------------
ExchangeNext ==
    \/ \E k \in Imports : \E file \in Imported : ReadForImport(k, file)
    \/ \E v \in visits : EditImport(v) \/ RecordImport(v) \/ LoseImport(v)

AllNext == ExchangeNext \/ (Next /\ UNCHANGED exchangeVars)

ExchangeSpec == ExchangeInit /\ [][AllNext]_allVars

-----------------------------------------------------------------------------
\* An import that says DRAFT_CREATED of an exported page speaks of the version that follows
\* the exported one and holds the file's text, whatever was written between its reading, its
\* edit and its record; one request makes one draft (import_obsidian_markdown).
ImportIsTrue ==
    \A k \in Imports :
        /\ imported[k].draft # 0 =>
               /\ imported[k].draft = files[k].base + 1
               /\ page[imported[k].draft].protected = files[k].text
        /\ imported[k].draft \in {0, drafts[k]}
        /\ Cardinality({r \in DOMAIN page : page[r].by = "edit" /\ page[r].base # 0
                            /\ (r = 1 \/ page[r - 1].base # page[r].base)})
               <= Cardinality({i \in Imports : drafts[i] # 0})

\* Jobs, versions of the page and imports fit together.
ExchangeRowsFit == CompileRowsFit /\ ExchangeTypeOK /\ ImportIsTrue
=============================================================================
