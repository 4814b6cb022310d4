SPECIFICATION FairSpec
CONSTANT rose = rose
CONSTANT fern = fern
CONSTANT north = north
CONSTANT south = south
CONSTANT Listings = {rose, fern}
CONSTANT Seller <- TwoSellers
CONSTANT Users = {u1, u2}
CONSTANT Handlers = {h1, h2}
CONSTANT None = None
CONSTANT MaxQuantity = 1
CONSTANT MaxStock = 1
CONSTANT MaxRequests = 3
PROPERTY ImplementsShop
PROPERTY CheckoutOrdersTheCart
PROPERTY RequestsEnd
CHECK_DEADLOCK FALSE
