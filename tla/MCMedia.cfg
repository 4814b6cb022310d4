SPECIFICATION Spec
CONSTANTS
    None = None
    Handlers = {1, 2}
    MediaIds <- MCMediaIds
    Uploads <- MCUploads
    Mixes <- MCMixes
    MaxMedia = 2
    MaxDuration = 60
    MaxImageSize = 1
    MaxVideoSize = 2
    MaxRequests = 2
    MaxFailures = 1
    MaxRestarts = 1
INVARIANTS GalleryHolds FilesAreAccountedFor
PROPERTIES VideosFinish
CHECK_DEADLOCK FALSE
