------------------------------ MODULE MCContents ------------------------------
(***************************************************************************)
(* What is found, kept and shown, for TLC: components of which safety is   *)
(* asked.  The parts share no variable: a behaviour belongs to the part    *)
(* its initial state picks, and the others rest in one initial state.      *)
(***************************************************************************)
EXTENDS SearchResults, SearchCache, RankingStores, PdfViewer,
        ImageViewer, PreviewWindow, DocumentPanes, TextExtraction,
        MailSources, MCSettings, FilePipeline, CommandLine

CONSTANT CtWorkers  \* threads, clients and searches, told apart by nothing

VARIABLE part

WorkerSymmetry == Permutations(CtWorkers)

\* Three documents, the second a mail; a page of two, a page of three, a chip, and
\* a page of three without a semantic worker.
OneMail == [d \in 0 .. 3 |-> IF d = 2 THEN "mail" ELSE "file"]
TextAnswers == {<<>>, <<3, 1>>, <<2, 3>>}
ImageAnswers == {<<>>, <<2>>}
Bm25Scores == <<1, 2, 2>>
Requests ==
    {[ann |-> TRUE, limit |-> 2, category |-> "none", explain |-> FALSE, refill |-> TRUE, navigational |-> FALSE],
     [ann |-> TRUE, limit |-> 3, category |-> "none", explain |-> TRUE, refill |-> TRUE, navigational |-> FALSE],
     [ann |-> TRUE, limit |-> 1, category |-> "file", explain |-> TRUE, refill |-> FALSE, navigational |-> TRUE],
     [ann |-> FALSE, limit |-> 3, category |-> "none", explain |-> TRUE, refill |-> TRUE, navigational |-> FALSE]}
\* A file of one page and one of two; the larger bitmaps go to the longer one.
TwoPdfs == [one |-> 1, two |-> 2]
TopBuckets == [one |-> 1, two |-> 2]
FoundIn == [one |-> <<1>>, two |-> <<1, 2>>]
Scenes == {{"look", "zoom"}, {"look", "find"}, {"select", "scroll"}}
\* A PDF by its path and a document by its bytes; small limits for the readers.
Kinds == {[ext |-> "pdf", how |-> "path"], [ext |-> "docx", how |-> "bytes"]}
RtfLimits == [input |-> 4, tokens |-> 3, depth |-> 1, stuck |-> 2, out |-> 3, check |-> 2]
ZipLimits == [entries |-> 3, entry |-> 3, total |-> 5, out |-> 2]
PartOf(name, size, real) == [part |-> name, size |-> size, real |-> real, text |-> (real + 1) \div 3]
Archives ==
    {<<PartOf("document", 3, 3), PartOf("sheet", 2, 2)>>,
     <<PartOf("sheet", 2, 9), PartOf("sheet", 2, 2), PartOf("slide", 1, 1)>>,
     <<PartOf("sheet", 3, 3), PartOf("sheet", 3, 3), PartOf("sheet", 3, 3)>>,
     <<PartOf("document", 1, 0), PartOf("other", 1, 1), PartOf("slide", 3, 3)>>,
     <<PartOf("slide", 4, 1)>>}
\* Limits below, at and above the number of pages, across a change of digits.
Scans ==
    {[total |-> 2, max |-> 0, texts |-> {1, 2}], [total |-> 3, max |-> 2, texts |-> {2}],
     [total |-> 4, max |-> 3, texts |-> {3, 4}], [total |-> 2, max |-> 1, texts |-> {2}]}
Letter == [area |-> 9, side |-> 4, square |-> TRUE]
Images ==
    {[w |-> 0, h |-> 0, parts |-> {Letter}], [w |-> 1, h |-> 1, parts |-> {Letter}],
     [w |-> 1, h |-> 2, parts |-> {Letter}], [w |-> 2, h |-> 2, parts |-> {[Letter EXCEPT !.area = 7]}]}
\* Files of one to three messages, of which one mixes line ends.
Message(eol, n) == [eol |-> eol, parts |-> n]
Mboxes ==
    {<<Message("lf", 1)>>, <<Message("lf", 1), Message("lf", 2)>>, <<Message("lf", 1), Message("crlf", 1)>>,
     <<Message("crlf", 2), Message("crlf", 0), Message("crlf", 1)>>}
\* Profiles named, marked or neither; maildirs of which ids repeat.
Ini(install, marked) ==
    [install |-> install, profiles |-> <<[path |-> "p", default |-> marked], [path |-> "q", default |-> FALSE]>>]
Config(on, batch, profile, ini, exists, ids) ==
    [thunderbird |-> [enabled |-> on, batch |-> batch, attachments |-> batch > 1, profile |-> profile, ini |-> ini],
     exists |-> exists, maildir |-> [i \in 1 .. Len(ids) |-> [id |-> ids[i], enabled |-> i < 3, paths |-> i]]]
Configs ==
    {Config(FALSE, 1, "none", Ini("p", TRUE), {}, <<>>)} \cup
    {Config(TRUE, b, p, ini, dirs, ids) :
        b \in 0 .. 2, p \in {"none", "q"}, ini \in {Ini("q", TRUE), Ini("r", TRUE), Ini("r", FALSE)},
        dirs \in {{}, {"p", "q"}, {"r"}}, ids \in {<<"m", "n">>, <<"m", "n", "m">>, <<"m", "m">>}}
\* A picture wider than high; a view with room around it.
Pictures == {<<4, 2>>}
CanvasView == <<8, 8>>
Points == {<<1, 3>>, <<5, 6>>}
Drags == {<<1, 0>>, <<3, -2>>, <<-4, 5>>}
CanvasScenes == {{"zoom", "pan"}, {"zoom", "mark"}}
\* A monitor with room beside the preview and one without.
Monitors == [narrow |-> 16, wide |-> 70]
WindowScenes == {{"size"}, {"strip"}, {"launcher"}}
\* A file of every kind the viewers know, and of those they do not.
Doc(ext, mime, size) ==
    [path |-> TRUE, ext |-> ext, mime |-> mime, folder |-> FALSE, mail |-> FALSE, maildir |-> FALSE,
     head |-> "binary", body |-> "none", size |-> size, entries |-> <<>>]
Member(name, kind) == [name |-> name, kind |-> kind]
Holding(doc, entries) == [doc EXCEPT !.entries = entries]
Files ==
    [letter |-> Doc("odt", "none", 1), sheet |-> Doc("odt", "none", 1), paper |-> Doc("pdf", "pdf", 1),
     photo |-> Doc("png", "image", 1), poster |-> Doc("png", "image", 9), icon |-> Doc("svg", "image", 1),
     zip |-> Holding(Doc("zip", "none", 1), <<Member(2, "file"), Member(1, "dir"), Member(3, "bad")>>),
     tar |-> Holding(Doc("tar", "none", 1), <<Member(2, "file"), Member(1, "dir")>>),
     torn |-> Holding(Doc("tar", "none", 1), <<Member(2, "file"), Member(1, "dir"), Member(3, "bad")>>),
     big |-> Holding(Doc("zip", "none", 9), <<Member(2, "file")>>),
     dir |-> Holding([Doc("none", "none", 0) EXCEPT !.folder = TRUE],
                     <<Member(1, "file"), Member(4, "link"), Member(2, "dir"), Member(3, "dir")>>),
     trip |-> Holding([Doc("png", "none", 0) EXCEPT !.folder = TRUE], <<Member(1, "file")>>),
     source |-> Doc("rs", "text", 2), notes |-> Doc("txt", "text", 4), film |-> Doc("ts", "video", 3),
     readme |-> [Doc("none", "none", 3) EXCEPT !.head = "text"], cut |-> [Doc("none", "none", 3) EXCEPT !.head = "cut"],
     table |-> Doc("csv", "text", 3),
     eml |-> [Doc("eml", "none", 1) EXCEPT !.mail = TRUE, !.body = "html"], inbox |-> [Doc("none", "none", 1) EXCEPT !.maildir = TRUE],
     gloda |-> [Doc("none", "none", 1) EXCEPT !.path = FALSE, !.mail = TRUE],
     app |-> [Doc("none", "none", 0) EXCEPT !.path = FALSE]]
Walks == {{"letter", "sheet", "paper"}, {"letter", "photo"}, {"poster", "icon", "zip"}, {"tar", "dir", "torn"},
          {"big", "trip", "source"}, {"notes", "film", "readme", "cut", "table"}, {"eml", "inbox", "gloda", "app"}}
\* Two files, neither indexed yet, for the boot crawl.
CrawledFiles == {<<"x">>, <<"y">>}
FsInstances == {"fs"}
FsInstanceOf == [id \in CrawledFiles |-> "fs"]
NothingIndexed == {[id \in CrawledFiles |-> NoDoc]}
FilesOnDisk == {[id \in CrawledFiles |-> 1]}
\* A plugin with a verb of its own and one named like a built-in verb.
ClientScenes == {{"keys"}, {"rows"}, {"logs"}, {"daemon"}, {"once"}}
CommandLines ==
    [verb : {"search", "reindex", "impact", "hidden", "show", "check-exclude", "semantic", "frob"},
     plugins : {{}, {"semantic", "search"}}, listed : BOOLEAN]

ContentsInit ==
    /\ part \in {"results", "cache", "stores", "pdf", "image", "window",
               "panes", "extraction", "mail", "settings", "crawl", "client"}
    /\ SrInit
    /\ part # "results" => srReq.limit = 1 /\ srPlug = "quiet" /\ srKind = [d \in SrDocs |-> "none"]
    /\ CrInit
    /\ RsInit
    /\ part # "stores" => ~rsDir.meta
    /\ PvInit
    /\ part # "pdf" => pvView.may = {"look", "zoom"}
    /\ IvInit
    /\ part # "image" => ivMay = {"zoom", "pan"}
    /\ PwInit
    /\ part # "window" => pwMay = {"size"} /\ ~pwLayer
    /\ DpInit
    /\ part # "panes" => "letter" \in dpHits /\ "paper" \in dpHits
    /\ ExInit
    /\ part # "extraction" => exWork = RtfBegun
    /\ MsInit
    /\ part # "mail" => msScene = "gloda"
    /\ CfInit
    /\ PInit
    /\ ClInit
    /\ part # "client" => clMay = {"once"}

\* The other parts rest.
Only(name) ==
    /\ part = name /\ UNCHANGED part
    /\ name = "results" \/ UNCHANGED srVars
    /\ name = "cache" \/ UNCHANGED crVars
    /\ name = "stores" \/ UNCHANGED rsVars
    /\ name = "pdf" \/ UNCHANGED pvVars
    /\ name = "image" \/ UNCHANGED ivVars
    /\ name = "window" \/ UNCHANGED pwVars
    /\ name = "panes" \/ UNCHANGED dpVars
    /\ name = "extraction" \/ UNCHANGED exVars
    /\ name = "mail" \/ UNCHANGED msVars
    /\ name = "settings" \/ UNCHANGED cfVars
    /\ name = "crawl" \/ UNCHANGED pvars
    /\ name = "client" \/ UNCHANGED clVars

ContentsNext ==
    \/ Only("results") /\ SrNext
    \/ Only("cache") /\ CrNext
    \/ Only("stores") /\ RsNext
    \/ Only("pdf") /\ PvNext
    \/ Only("image") /\ IvNext
    \/ Only("window") /\ PwNext
    \/ Only("panes") /\ DpNext
    \/ Only("extraction") /\ ExNext
    \/ Only("mail") /\ MsNext
    \/ Only("settings") /\ CfNext
    \/ Only("crawl") /\ PNext
    \/ Only("client") /\ ClNext

ContentsSpec == ContentsInit /\ [][ContentsNext]_<<srVars, crVars, rsVars, pvVars, ivVars, pwVars, dpVars, exVars,
    msVars, cfVars, pvars, clVars, part>>

\* The type invariant of the part that moves.
ContentsTypeOK ==
    /\ part = "results" => SrTypeOK
    /\ part = "cache" => CrTypeOK
    /\ part = "stores" => RsTypeOK
    /\ part = "pdf" => PvTypeOK
    /\ part = "image" => IvTypeOK
    /\ part = "window" => PwTypeOK
    /\ part = "panes" => DpTypeOK
    /\ part = "extraction" => ExTypeOK
    /\ part = "mail" => MsTypeOK
    /\ part = "settings" => CfTypeOK
    /\ part = "crawl" => PTypeOK
    /\ part = "client" => ClTypeOK

\* What the user taught the daemon is kept and used, and so are their settings.
MemoryKept ==
    /\ part = "stores" => StoresKept
    /\ part = "settings" => SettingsSound

\* The viewers show the document they were given, within their caches, and
\* nothing left over from the one before; the dashboard shows rows and lines
\* that exist, and a daemon that answered.
ViewersSound ==
    /\ part = "pdf" => PdfSound
    /\ part = "image" => CanvasSound
    /\ part = "window" => PwSound
    /\ part = "panes" => DpSound
    /\ part = "client" => ClientSound

\* What is read of files and mail is whole, current and bounded.
SourcesSound ==
    /\ part = "extraction" => ExtractionSound
    /\ part = "mail" => MailSound

================================================================================
