CONSTANTS
  Photo <- MCPhotos
  Near <- MCNear
  SameScene <- MCSameScene
  HubDegree = 20
  PhotoBatch = 2
  MaxGroup = 4
  PhotoBudgets <- MCPhotoBudgets
SPECIFICATION PhotoSpec
INVARIANT NotDuplicatesStayApart
