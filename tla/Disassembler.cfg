SPECIFICATION Spec
CONSTANT Inputs <- MCInputs
INVARIANT TypeOK
INVARIANT FetchesWords
INVARIANT NoCompressedLeft
INVARIANT EveryBitCounts
INVARIANT ImmediatesScaled
INVARIANT Reencodes
INVARIANT OthersKeepOperands
INVARIANT ShownReadsBack
INVARIANT TextFits
INVARIANT DecodesAssembled
PROPERTY Terminates
CHECK_DEADLOCK FALSE
