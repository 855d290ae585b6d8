SPECIFICATION MCSpec
CONSTANTS
  f1 = f1 f2 = f2 f3 = f3
  Found <- TwoTargets
  Setups <- AllSetups
  Parts = {"judging", "hashes", "lists", "suffixes", "origins", "lines", "selection", "printed", "targets", "downloads", "encodings", "command", "chunks", "decoding", "locations", "contexts", "overlay", "detection", "sets", "patches", "pushes", "names", "commits", "options", "configs", "keywords", "searches", "answers", "regions", "grants", "redaction", "results", "identities", "inputs"}
  Streams <- AllStreams
  ChunkSize = 3
  BufSize = 2
  MaxPeek = 2
INVARIANTS TotalsMatchContent CountsAgree OutcomeHonest ChunksFaithful CredentialsRight DetectionRight PositionsRight RulesRight SourceInputRight
