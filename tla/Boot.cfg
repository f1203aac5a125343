SPECIFICATION BootFairSpec
CONSTANTS
    Width = 5
    Height = 16
    CHAR_RASTER_WIDTH = 2
    CHAR_RASTER_HEIGHT = 3
    CALIBRATION_SAMPLES = 3
    MAX_CPUS = 4
    Cores = {1, 5, 6}
    CpuId = {0, 1, 4}
    Periods = {0, 1, 2, 3, 4, 5, 6, 7, 8, 9, 10, 11, 12, 13, 14, 15, 16, 17, 18, 19, 20, 21, 22, 23, 24}
    MSG_LEN = 2
    Nobody = Nobody
INVARIANTS NoSelfDeadlock CalibrationKept GlyphsApart
PROPERTIES BootEnds
CHECK_DEADLOCK FALSE
