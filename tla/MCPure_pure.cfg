\* Names of up to three symbols beside a second one, trees of three files, output
\* of four lines, references with a path of up to three parts.
SPECIFICATION Spec
CONSTANTS
  Vars <- Variables
  Unmanaged = "nobody"
  Contents <- MCContents
  Missing = "missing"
  DigestRank <- MCDigestRank
  Decode <- MCDecode
  NameScenes <- MCNameScenes
  Refs <- MCRefs
  MaxTemplate = 3
  MaxTree = 3
  MaxOutput = 4
  MaxPath = 3
\* An input stops growing at its bound.
CHECK_DEADLOCK FALSE
INVARIANTS NamesAreGood RefusalsHelp EditsAreNoticed PayloadsAreFound FeaturesAreRead
