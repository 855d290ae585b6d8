---------------------------- MODULE FileResources ----------------------------
(***************************************************************************)
(* sources/files.go and sources/file.go: the walk over a tree and what is  *)
(* read from a file, which may be an archive of files or compressed. A     *)
(* file is its pieces (the chunks of reader.go), or its entries. How the   *)
(* format is found out, names, attributes and line numbers are left out.   *)
(***************************************************************************)
EXTENDS SourceScript

(* The options of File: StrictArchives, MaxArchiveDepth, DetectArchive.    *)
Lenient(max) == [strict |-> FALSE, max |-> max, detect |-> FALSE]
Strict(max)  == [strict |-> TRUE, max |-> max, detect |-> TRUE]
Unlimited == 99

(* archiveFailure: yielded in strict mode, otherwise only logged.          *)
(* Mutant: the failure is logged in either mode.                           *)
ArchiveFailureQuiet(script, o) == Skipped(script)
ArchiveFailure(script, o) == IF o.strict THEN Reported(script) ELSE Skipped(script)

(* fileFragments: the failure to read is yielded, but for the content of   *)
(* an archive, where archiveFailure's rule holds.                          *)
ReadFailure(script, depth, o) == IF depth = 0 THEN Reported(script) ELSE ArchiveFailure(script, o)

RECURSIVE FileFragments(_, _, _)

(* Entry after entry is opened and scanned; strictly, what follows the     *)
(* last one is read as well.                                               *)
ExtractorFragments(f, depth, o) ==
  ArchiveFailure(
    ForEach(f.entries, LAMBDA entry :
      Fetch \o ArchiveFailure(Fetch \o FileFragments(entry, depth + 1, o), o))
    \o When(o.strict, Fetch), o)

DecompressorFragments(f, depth, o) ==
  ArchiveFailure(
    Fetch \o FileFragments(f.decoded, depth + 1, [o EXCEPT !.detect = TRUE])
    \o When(o.strict, Fetch), o)

FileFragments(f, depth, o) ==
  ReadFailure(
    When(~f.skip,
      When(o.detect, Fetch) \o
      IF f.kind = "plain" THEN ForEach(f.pieces, Download)
      ELSE IF depth + 1 > o.max
      THEN When(o.strict, Fail \o FileFragments(f, depth, [o EXCEPT !.max = Unlimited]))
      ELSE IF f.kind = "archive" THEN ExtractorFragments(f, depth, o)
      ELSE DecompressorFragments(f, depth, o)), depth, o)

-----------------------------------------------------------------------------
(* walkFiles. A directory that cannot be read, a link that cannot be       *)
(* resolved and a file without metadata are logged and passed over; links  *)
(* are only followed if asked for. Each directory is visited once: a link  *)
(* to one that is known has no children here. A linked file is read again, *)
(* under the link's name.                                                  *)
RECURSIVE Visit(_, _)
Visit(e, t) ==
  Skipped(
    When(e.link => t.followSymlinks,
      When(e.link, Fetch) \o
      When(~e.skip,
        IF e.kind = "dir" THEN Fetch \o ForEach(e.children, LAMBDA c : Visit(c, t))
        ELSE When(t.maxFileSize, Fetch) \o
             When(~t.maxFileSize \/ e.size = "ok", Send(e.name)))))

WalkFiles(t) == Fetch \o ForEach(t.tree, LAMBDA e : Visit(e, t))

(* A file that cannot be opened is passed over.                            *)
ReadFile(file, t) == Skipped(Fetch \o FileFragments(file, 0, Lenient(t.maxArchiveDepth)))

(* Files.Fragments: an errgroup of readers behind a channel that the walk  *)
(* fills.                                                                  *)
Plan(t) ==
  [OneScript(<<Step("group", "files")>>) EXCEPT
     !.scripts = [name \in DOMAIN t.files |-> ReadFile(t.files[name], t)],
     !.groups = [files |-> WalkFiles(t)]]
=============================================================================
