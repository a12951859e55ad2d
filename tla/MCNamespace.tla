---------------------------- MODULE MCNamespace ------------------------------
EXTENDS Namespace, TLC

Seqs == INSTANCE SequencesExt

\* In byte order; "ab" begins like "a", and "a", "b" join to "ab".
ThreeNames == <<"a", "ab", "b">>

\* A filesystem with files and directories made one after the other.
Built(paths) == Seqs!FoldLeft(LAMBDA s, e : NewPath(s, e[1], e[2]).s, newStorage, paths)

\* Siblings whose names are prefixes; a directory tree of three levels; an empty
\* directory beside a file.
SmallTrees == {
  Built(<< << <<"a">>, "file" >>, << <<"b", "a">>, "file" >> >>),
  Built(<< << <<"a", "b", "a">>, "file" >> >>),
  Built(<< << <<"a">>, "dir" >>, << <<"ab">>, "file" >>, << <<"b">>, "file" >> >>) }
=============================================================================
