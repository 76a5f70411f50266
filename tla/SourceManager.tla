--------------------------- MODULE SourceManager ---------------------------
(***************************************************************************)
(* Paths, and the files loaded from them: parser/src/SourceManager.cpp     *)
(* (RealFSSourceManager).                                                  *)
(*                                                                         *)
(* The file system does not change while a script is parsed, so a loaded   *)
(* file is its path; no search path is ever registered, so quoted and      *)
(* angled names are looked up alike.                                       *)
(***************************************************************************)
EXTENDS TokenStream

CONSTANTS
  Component,  \* the parts of paths, ".." among them
  Source,     \* the contents of files, as tokens
  System      \* the file systems a script may be in

\* root: does it start with a slash?
Path      == [root: BOOLEAN, parts: Seq(Component)]
EmptyPath == [root |-> FALSE, parts |-> <<>>]

ASSUME SourceAssumption == Source \subseteq Seq(Token)

\* The streams of a source: the errors on the way are counted at every step.
StreamsOf(source) == {[Stream(source) EXCEPT !.index = i] : i \in 0 .. Len(source)}
Streams == UNION {StreamsOf(source) : source \in Source}

\* files: what is read from the paths at which there is a regular file.
\* absoluteOfEmpty: what std::filesystem::absolute makes of the empty path,
\* nothing (libstdc++) or the working directory (libc++).
IsFileSystem(s) ==
  /\ DOMAIN s.files \subseteq Path
  /\ \A p \in DOMAIN s.files : Stream(s.files[p]) \in Streams
  /\ s.cwd \in Path /\ s.cwd.root
  /\ s.absoluteOfEmpty \in {EmptyPath, s.cwd}

ASSUME SystemAssumption == \A s \in System : IsFileSystem(s)

VARIABLES
  system,            \* the file system
  localSearchPath,   \* m_LocalSearchPath
  sourceFiles        \* m_SourceFiles: the paths loaded

-----------------------------------------------------------------------------

\* The operator / of std::filesystem::path.
Join(p, q) == IF q.root THEN q ELSE [p EXCEPT !.parts = @ \o q.parts]

ParentPath(p) ==
  IF p.parts = <<>> THEN p ELSE [p EXCEPT !.parts = SubSeq(@, 1, Len(@) - 1)]

Absolute(p) ==
  CASE p = EmptyPath -> system.absoluteOfEmpty
    [] p # EmptyPath -> Join(system.cwd, p)

SetLocalSearchPath(p) == localSearchPath' = Absolute(p)

Exists(p)      == p \in DOMAIN system.files
FindFile(name) == Join(localSearchPath, name)

\* The path is the key of the file: two spellings of one are two files.
LoadFile(name) == sourceFiles' = sourceFiles \cup {FindFile(name)}
=============================================================================
