SPECIFICATION LspSpec
CONSTANTS
  go = go
  cue = cue
  gopls = gopls
  lint = lint
  main = main
  conf = conf
  NoLang = NoLang
  NoDoc = NoDoc
  Doc = {main, conf}
  Lang = {go, cue}
  Server = {gopls, lint}
  LangOf <- MLangOf
  Bindings <- MBindings
  Capable <- MCapable
  Paced = FALSE
  MaxMessages = 2
  MaxCrashes = 0
INVARIANT BackendsFollowDocs
