SPECIFICATION Spec
CONSTANTS
    None = None
    Retentions <- MCRetentions
    Selections <- MCSelections
    Compositions <- MCCompositions
    Transfers <- MCTransfers
    Restores <- MCRestores
    Hybrids <- MCHybrids
    Segmentations <- MCSegmentations
    Lengths <- MCLengths
    PlainStates <- MCPlainStates
    HybridStates <- MCHybridStates
    LayeredStates <- MCLayeredStates
    Tokenizations <- MCTokenizations
    Geometries <- MCGeometries
    Translations <- MCTranslations
    LayerScores <- MCLayerScores
    Headers <- MCHeaders
    Appendices <- MCAppendices
    Prompts <- MCPrompts
    Tables <- MCTables
    Texts <- MCTexts
    Requests <- MCRequests
    Injections <- MCInjections
    Lookups <- MCLookups
    TextTokens <- MCTextTokens
    BareName <- MCBareName
INVARIANTS
    KeepsWhatItMay
    ComposesInOneOrder
    TransferIsSound
    GatedStateIsDemonstrated
    ContainerReadsBack
    SizeIsExact
    MapsKeepPlaces
    RoundsToNearest
    ReadsAgree
    FoundIsOwn
