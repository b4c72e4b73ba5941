SPECIFICATION Spec
CONSTANTS
  Rules <- Lattice
  Statements <- MCStatements
  MaxTableSize = 8
  MaxSymbols = 11
INVARIANT ExactRewrites
