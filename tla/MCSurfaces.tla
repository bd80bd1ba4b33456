------------------------------ MODULE MCSurfaces ------------------------------
(***************************************************************************)
(* Components of which only safety is asked, for TLC: the file watcher,    *)
(* the embedding of documents, the launcher window and its rows.  The      *)
(* parts share no variable: a behaviour belongs to the part its initial    *)
(* state picks, and the others rest in one initial state.                  *)
(***************************************************************************)
EXTENDS FileWatcher, EmbedWorker, LauncherWindow, ResultRows

VARIABLE part

\* Resolvers are told apart by nothing.
WorkerSymmetry == Permutations(WaResolvers)

OneDocOfEveryChannel == [d \in EwDocs |-> {"text", "image", "skip"}]

\* Many keystrokes and no preview, one of each, or the other way round.
Budgets == {[edit |-> 2, preview |-> 0, other |-> 1], [edit |-> 1, preview |-> 1, other |-> 0],
            [edit |-> 0, preview |-> 2, other |-> 1]}

\* Two files, a mail and the row that asks for more; two answers that share one.
HitFrom(source, mime, path, synthetic) ==
    [source |-> source, mime |-> mime, path |-> path, secondary |-> FALSE, synthetic |-> synthetic]
Hits == [a |-> HitFrom("fs", "none", TRUE, "none"), b |-> HitFrom("fs", "pdf", TRUE, "none"),
         c |-> HitFrom("mail", "none", FALSE, "none"), m |-> HitFrom("gui", "none", FALSE, "more")]
RowMenus == [fs |-> [verbs |-> {"open", "openwith"}, conditional |-> FALSE],
             mail |-> [verbs |-> {"open", "secondary"}, conditional |-> TRUE],
             gui |-> [verbs |-> {}, conditional |-> FALSE]]
RowAnswers == {[docs |-> <<"a", "c", "m">>, top |-> "a"], [docs |-> <<"b", "a">>, top |-> "none"]}
IconFiles == [fine |-> TRUE, broken |-> FALSE]
ActionOf(kind, terminal, entry, argv) ==
    [kind |-> kind, terminal |-> terminal, entry |-> entry, argv |-> argv,
     folder |-> FALSE, manager |-> terminal, extracted |-> FALSE]
HitActions ==
    {ActionOf("launch", FALSE, TRUE, 0), ActionOf("launch", TRUE, TRUE, 1), ActionOf("exec", FALSE, FALSE, 0),
     ActionOf("file", FALSE, FALSE, 0), ActionOf("reveal", TRUE, FALSE, 0), ActionOf("embedded", FALSE, FALSE, 0),
     ActionOf("copy", FALSE, FALSE, 0), ActionOf("capture", FALSE, FALSE, 0)}
\* Titles with a ligature and a mark that folds to nothing.
Titles == {<<>>, <<<<1>>, <<1, 2>>, <<>>, <<1>>>>, <<<<2>>, <<2>>, <<2>>>>}
QueryTokens == {<<>>, <<1>>, <<2>>, <<1, 1>>, <<2, 2>>, <<2, 1>>}
CategoryLists == UNION {[1 .. n -> 1 .. 3] : n \in 0 .. 4}

SurfacesInit ==
    /\ WaInit /\ EwInit /\ LwInit /\ RwInit
    /\ part \in {"watcher", "embed", "window", "rows"}
    /\ part # "rows" => rwMay = "rows"
    /\ part # "watcher" => ~dirThere /\ ver = [f \in WaFiles |-> 0]
    /\ part # "embed" => lex = [d \in EwDocs |-> EwNone]
    /\ part # "window" => budget.edit = 2

SurfacesNext ==
    /\ UNCHANGED part
    /\ \/ part = "watcher" /\ WaNext /\ UNCHANGED <<ewVars, lwVars, rwVars>>
       \/ part = "embed"   /\ EwNext /\ UNCHANGED <<waVars, lwVars, rwVars>>
       \/ part = "window"  /\ LwNext /\ UNCHANGED <<waVars, ewVars, rwVars>>
       \/ part = "rows"    /\ RwNext /\ UNCHANGED <<waVars, ewVars, lwVars>>

SurfacesSpec == SurfacesInit /\ [][SurfacesNext]_<<waVars, ewVars, lwVars, rwVars, part>>

\* The type invariant of the part that moves.
SurfacesTypeOK ==
    /\ part = "watcher" => WaTypeOK
    /\ part = "embed" => EwTypeOK
    /\ part = "window" => LwTypeOK
    /\ part = "rows" => RwTypeOK

\* The launcher shows the answer to the query it holds, in rows that are the
\* hits they show.
LauncherSound ==
    /\ part = "window" => LauncherHonest
    /\ part = "rows" => RowsSound
================================================================================
