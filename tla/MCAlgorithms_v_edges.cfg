SPECIFICATION MCSpec
CHECK_DEADLOCK FALSE
CONSTANTS
    Place <- Grid
    MaxForks = 8
    HalfTurn = 3
    Levels = {7}
    Language = "name"
    MaxBoundaries = 2  MaxWays = 4  MaxNodes = 4  MaxPoints = 4
    GroupBits = 7  WordBits = 15  NarrowBits = 10
    MaxLat = 90  MaxLon = 180  MaxGranularity = 60  DefaultGranularity = 10
    MaxBlobBytes = 200  MaxBlockBytes = 200
    MaxStrings = 3  MaxStringBytes = 3  MaxGroupsOfBlock = 2  MaxFeatures = 2
    MaxTags = 2  MaxRefs = 4  MaxMembers = 4  MaxDense = 4  MaxDenseTags = 20
    Supported = {}  Zlib <- Deflated
    DefaultExtent = 16  Headroom = 25  MaxCoordinate = 255  MaxFeatureValues = 40
    DeepestZoom = 4  MaxLeafDepth = 2  MaxCachedLeaves = 3  MaxRootDirectory = 30
    DirectoryLimit = 30  MetadataLimit = 10  TileLimit = 10  Gunzip <- Deflated
    EastEnd = 8  PoleEnd = 6  MaxLatitude = 5  Northing <- Square
    MaxZoom = 6  MaxCellZoom = 5  DepthLimit = 2  WorldZoomLimit = 3
    LargestOffset = 300  DefaultMaxGap = 1  DefaultMaxRequest = 6
    MaxPlanCells = 9  MaxOverviewTiles = 12  WorldMaxZoom = 1
    MaxRedirects = 2
    DepthBands <- Bands  Cos <- Cosines
    Infinity = 1000  Numerals <- Numbered  MaxPairings = 6
    DerivedMagic <- Magic  DerivedVersion = 1  DerivedScale = 2  StoredLat = 18  StoredLon = 36
    MaxDerivedAreas = 3  MaxDerivedPolygons = 2  MaxDerivedRings = 2  MaxDerivedPoints = 3
    MaxDerivedString = 3  MaxDerivedLevels = 2  MaxDerivedHeader = 12
    MaxTotalPolygons = 3  MaxTotalRings = 3
    Space = 9  Comma = 8  Dot = 7  LowerCase <- SmallOf  RegionBytes = {1, 2, 3}  MaxRegionName = 3
    DerivedPrefix <- DPrefix  DerivedExt <- DExt  ExtractPrefix <- EPrefix  ExtractExt <- EExt
    CityKinds <- Cities  LayerKind <- Kinds  NameKeys <- Keys  KindKeys <- Contexts  AliasKeys <- Aliases
    ContextKeys <- Contexts  TypeKey = "type_en"  NaturalEarthCredit <- Credit  NoName <- None
    CosAt <- Cosine  MaxPartGap = 4  MapLat = 17  KMPerUnit = 2  PointRadius <- Radii  OtherRadius = 3
    InteriorSteps = 4
    World = 64  LevelOrder <- Ladder  LevelSpecs <- Specs  DefaultMaxDistance <- Caps  SidewalkM = 2
    NotWays = {"aeroway", "rail"}  ProminentZoom = 1  MaxReachFactor = 4  ReachFactor <- Factors
    NeighbourhoodRank <- Ranks  DistanceStep = 2
PROPERTY SharedEdges
