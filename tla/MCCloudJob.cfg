SPECIFICATION Spec
CONSTANTS
  ci = ci
  dev = dev
  typo = typo
  f1 = f1
  f2 = f2
  Wiki = {"enwiki", "wikidata"}
  Special = {"wikidata"}
  Fetcher = {f1, f2}
  Deployer = {ci, dev, typo}
  Confirmed = {ci, dev}
  NotebookPath = {"main", "mine"}
  PathOf <- MCPathOf
  ByHand = "by hand"
  Never = Never
  MaxTime = 2
SYMMETRY SymmetricFetchers
CHECK_DEADLOCK FALSE
INVARIANTS
  TypeOK
  RowsAreTrue
  KeyIsWikiAndTime
  RunsWhatWasDeployed
