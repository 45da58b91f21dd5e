SPECIFICATION Spec
CONSTANTS
    BufferCount = 2
    ExportDmabuf = TRUE
    MaxFrames = 4
    CameraEvents = {"openFails", "hangUp", "dequeueFails", "badMetadata", "queueFails", "closeFails", "corrupt"}
    Models = {"detector", "recognizer"}
    NativeInput = TRUE
    NpuFails = TRUE
    MppFails = TRUE
    Warmup = 1
    EnrollSamples = 1
    Slots = {1}
    AsyncClients = 1
    SyncClients = 2
    Failures = {"starves", "convert", "setup", "recognise", "enrol", "shortWrite", "publish", "spawn", "killed"}
INVARIANTS
    PreviewShowsItsFrame
    FacesAreOfTheFrame
    LossesAreTold
    NothingIsLeft
    ServerOwnsItsClients
PROPERTIES
    ImplementsChannel
    GalleryKeepsItsSamples
