SPECIFICATION Spec
PROPERTY DrawsToMiniTP
