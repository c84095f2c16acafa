\* A refused name whose suggestion is refused as well.
SPECIFICATION Spec
CONSTANTS
  Vars <- Variables
  Unmanaged = "nobody"
  Contents <- MCContents
  Missing = "missing"
  DigestRank <- MCDigestRank
  Decode <- MCDecode
  NameScenes <- MCNameScenes
  Refs <- MCRefs
  MaxTemplate = 3
  MaxTree = 3
  MaxOutput = 4
  MaxPath = 3
\* An input stops growing at its bound.
CHECK_DEADLOCK FALSE
INVARIANT SuggestionsAreValid
