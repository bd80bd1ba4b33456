---------------------------- MODULE MCFilePipeline ----------------------------
(***************************************************************************)
(* Instances of FilePipeline for TLC: one file.                            *)
(***************************************************************************)
EXTENDS FilePipeline, TLC

ResolverSymmetry == Permutations(Resolvers)

a == <<"a">>

OneFile == {a}
FsInstances == {"fs"}
FsInstanceOf == [id \in Ids |-> "fs"]

NoDocs == {[id \in Ids |-> NoDoc]}
Scanned == {[id \in Ids |-> [mtime |-> 1, body |-> NoBody]]}
NoneOrScanned == NoDocs \cup Scanned
Recognised == {[id \in Ids |-> [mtime |-> 1, body |-> 1]]}
NoneOrRecognised == NoDocs \cup Recognised

EmptyDisk == {[id \in Ids |-> NoMtime]}
AllFiles == {[id \in Ids |-> 1]}
AnyDisk == EmptyDisk \cup AllFiles
================================================================================
