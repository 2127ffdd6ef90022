SPECIFICATION Spec
CONSTANTS
  MaxVersion = 3
  MaxImports = 3
  Look <- MCLook
INVARIANT ManifestHolds
PROPERTIES ImplementsAssetStore LoadsEnd
\* Nobody has to ask for the asset again.
CHECK_DEADLOCK FALSE
