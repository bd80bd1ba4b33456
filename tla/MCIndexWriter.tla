----------------------------- MODULE MCIndexWriter -----------------------------
(***************************************************************************)
(* Instances of IndexWriter for TLC: a directory with two files, one of    *)
(* them a directory of its own in the longer menus, and a document of      *)
(* another source.                                                         *)
(***************************************************************************)
EXTENDS IndexWriter

CONSTANTS Ocr, Text   \* bodies

dir   == <<"d">>
file  == <<"d", "f">>
other == <<"d2">>     \* shares the first characters of dir, not the component

SmallIds == {dir, file, other}
SmallInstances == {"fs", "mail"}
SmallInstanceOf == [id \in SmallIds |-> IF id = other THEN "mail" ELSE "fs"]

Doc(t, b) == [mtime |-> t, body |-> b]

Empty == [id \in SmallIds |-> NoDoc]
StartEither == {Empty, [Empty EXCEPT ![file] = Doc(1, NoBody)]}

UpsertOne(id, t, b) == [op |-> "upsert", docs |-> [i \in {id} |-> Doc(t, b)]]
UpsertBoth(t) == [op |-> "upsert", docs |-> [i \in {file, other} |-> Doc(t, Text)]]
DeleteIds(ids) == [op |-> "delete", ids |-> ids]
Subtree(id) == [op |-> "delete_subtree", prefix |-> id]
Purge(s) == [op |-> "delete_source_instance", instance |-> s]
Body(id, e) == [op |-> "upsert_body", id |-> id, body |-> Ocr, expected |-> e]
Request(op) == [op |-> op]

\* Everything that changes the index, both kinds of commit, and a shutdown.
MutationMenu ==
    {UpsertOne(file, t, NoBody) : t \in Mtimes}
    \cup {UpsertBoth(2), DeleteIds({file}), DeleteIds({file, other}),
          Subtree(dir), Subtree(other), Purge("fs"),
          Body(file, 1), Body(file, NoMtime), Request("commit_now"),
          Request("barrier"), Request("shutdown")}

\* The calls that wait, with a few mutations to wait for.
FaultMenu ==
    {UpsertOne(file, 1, Text), DeleteIds({file}), Subtree(dir), Purge("mail"),
     Body(file, 2), Request("barrier"), Request("commit_now"),
     Request("applied")}
================================================================================
